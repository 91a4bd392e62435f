------------------------ MODULE ImbalanceDetectorS1 ------------------------
(***************************************************************************)
(* ImbalanceDetector of the first-session code                             *)
(* (src/analytics/imbalance_detector.cpp): the signals of a completed bar, *)
(* <<type, direction>>, and the registry of stacked zones.  A zone is      *)
(* [direction, low, high, created, resolved]; its score and identifiers    *)
(* are left out, "created" and "resolved" number the bars, 0 for none.     *)
(***************************************************************************)
EXTENDS Integers, Sequences, SequencesExt

CONSTANTS Ratio, StackedMin, AbsorptionVolume  \* ImbalanceConfig

(* find_level(): the level at a price, if the bar has one.                 *)
LevelAt(levels, price) == {j \in DOMAIN levels : levels[j].price = price}

(* detect_single_imbalances(): against the level one tick below (above).   *)
IsBuyImbalance(levels, i) ==
  \E j \in LevelAt(levels, levels[i].price - 1) :
    levels[j].bid > 0 /\ levels[i].ask >= Ratio * levels[j].bid

IsSellImbalance(levels, i) ==
  \E j \in LevelAt(levels, levels[i].price + 1) :
    levels[j].ask > 0 /\ levels[i].bid >= Ratio * levels[j].ask

(* The streaks of StackedMin and more consecutive flagged levels, in       *)
(* ascending order, as [low, high] prices.                                 *)
Streaks(levels, flagged) ==
  LET ends == {x \in flagged \X flagged :
                 /\ x[2] - x[1] + 1 >= StackedMin
                 /\ x[1] .. x[2] \subseteq flagged
                 /\ {x[1] - 1, x[2] + 1} \cap flagged = {}}
      nth(k) == CHOOSE x \in ends : Cardinality({y \in ends : y[1] < x[1]}) = k - 1
  IN  [k \in 1 .. Cardinality(ends) |-> [low |-> levels[nth(k)[1]].price,
                                         high |-> levels[nth(k)[2]].price]]

(* The active zone a streak extends: a buy zone with the same bottom, a    *)
(* sell zone with the same top.                                            *)
Extends(zone, direction, streak) ==
  /\ zone.resolved = 0 /\ zone.direction = direction
  /\ IF direction = "LONG" THEN zone.low = streak.low ELSE zone.high = streak.high

AddStreak(zones, direction, streak, number) ==
  LET known == {i \in DOMAIN zones : Extends(zones[i], direction, streak)}
      first == CHOOSE i \in known : \A j \in known : i <= j
  IN  IF known = {}
        THEN Append(zones, [direction |-> direction, low |-> streak.low,
                            high |-> streak.high, created |-> number, resolved |-> 0])
        ELSE [zones EXCEPT ![first].low = streak.low, ![first].high = streak.high]

DetectStacked(zones, levels, number) ==
  LET buys == Streaks(levels, {i \in DOMAIN levels : IsBuyImbalance(levels, i)})
      sells == Streaks(levels, {i \in DOMAIN levels : IsSellImbalance(levels, i)})
  IN  FoldLeft(LAMBDA zs, s : AddStreak(zs, "SHORT", s, number),
        FoldLeft(LAMBDA zs, s : AddStreak(zs, "LONG", s, number), zones, buys), sells)

(* update_zone_registry(): a buy zone ends when the bar traded below it, a *)
(* sell zone when it traded above, by more than half a tick.               *)
Through(zone, bar) ==
  IF zone.direction = "LONG" THEN 2 * bar.low < 2 * zone.low - 1
  ELSE 2 * bar.high > 2 * zone.high + 1

UpdateZoneRegistry(zones, bar, number) ==
  [i \in DOMAIN zones |->
     IF zones[i].resolved = 0 /\ Through(zones[i], bar)
       THEN [zones[i] EXCEPT !.resolved = number] ELSE zones[i]]

(* An absorbing level: enough volume, at most a tenth of it net.           *)
Absorbs(level) ==
  LET total == level.bid + level.ask
      net == level.ask - level.bid
  IN  total >= AbsorptionVolume /\ 10 * net <= total /\ -10 * net <= total

(* Closed further from the open than a quarter of the range, with an       *)
(* imbalance within two ticks of the extreme.                              *)
TrappedSellers(bar) ==
  /\ 4 * (bar.close - bar.open) > bar.high - bar.low
  /\ \E i \in DOMAIN bar.levels :
       IsSellImbalance(bar.levels, i) /\ bar.levels[i].price <= bar.low + 2

TrappedBuyers(bar) ==
  /\ 4 * (bar.open - bar.close) > bar.high - bar.low
  /\ \E i \in DOMAIN bar.levels :
       IsBuyImbalance(bar.levels, i) /\ bar.levels[i].price >= bar.high - 2

(* make_base_signal(): of an event, what tells signals apart.              *)
When(condition, type, direction) == IF condition THEN {<<type, direction>>} ELSE {}

(* detect_all(): the signals; only new zones give a stacked one.           *)
Signals(zones, bar) ==
  LET stacked == DetectStacked(zones, bar.levels, 1)
      created(d) == \E i \in Len(zones) + 1 .. Len(stacked) : stacked[i].direction = d
      all == DOMAIN bar.levels
  IN  UNION {When(\E i \in all : IsBuyImbalance(bar.levels, i), "SINGLE_IMBALANCE_BUY", "LONG"),
             When(\E i \in all : IsSellImbalance(bar.levels, i), "SINGLE_IMBALANCE_SELL", "SHORT"),
             When(created("LONG"), "STACKED_IMBALANCE_BUY", "LONG"),
             When(created("SHORT"), "STACKED_IMBALANCE_SELL", "SHORT"),
             When(\E i \in all : Absorbs(bar.levels[i]), "ABSORPTION", "NEUTRAL"),
             When(TrappedSellers(bar), "TRAPPED_SELLERS", "LONG"),
             When(TrappedBuyers(bar), "TRAPPED_BUYERS", "SHORT")}

(* detect_all(): the registry it leaves.                                   *)
Zones(zones, bar, number) ==
  UpdateZoneRegistry(DetectStacked(zones, bar.levels, number), bar, number)
============================================================================
