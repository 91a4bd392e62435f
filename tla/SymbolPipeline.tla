--------------------------- MODULE SymbolPipeline ---------------------------
(***************************************************************************)
(* The stages of one symbol's pipeline around the state they keep: the     *)
(* BarEngine with its BarSeries, the VWAP and volume-profile engines fed   *)
(* by every tick, and the DeltaEngine fed by every bar the first series    *)
(* completes.  The repository leaves the wiring of the stages to its user  *)
(* (README, "The Big Picture"); the engines are its code.  "ticks",        *)
(* "since", "archive" and "session" only remember what happened.           *)
(***************************************************************************)
EXTENDS Integers, Sequences, SequencesExt, FiniteSets

B == INSTANCE BarSeries
D == INSTANCE DeltaEngine
I == INSTANCE ImbalanceDetector
L == INSTANCE LeeReady
P == INSTANCE VolumeProfile
S == INSTANCE SignalDetector
V == INSTANCE VwapEngine

CONSTANTS
  Feed,        \* the ticks a feed may give, in any order and repeated:
               \* [time, price, size, quote]
  Kinds,       \* <<type, threshold>> of the series that may be added
  Levels,      \* volumes of a price level compare() may be given
  Threshold,   \* its ratio
  MaxTicks, MaxSeries, MaxUpkeep  \* bounds: ticks, series, reads and resets

ASSUME FeedAssumption ==
  \A tick \in Feed : /\ {tick.price, tick.quote.bid, tick.quote.ask} \subseteq Int
                     /\ {tick.time, tick.size} \subseteq Nat
                     /\ {tick.quote.bidSize, tick.quote.askSize} \subseteq Nat

ASSUME KindsAssumption == Kinds \subseteq B!BarTypes \X Nat

ASSUME LevelsAssumption == Levels \subseteq Nat /\ Threshold \in Nat /\ Threshold > 1

(* What ImbalanceDetector::compare may have returned.                      *)
Imbalances == {I!Compare(v[1], v[2], v[3], v[4], Threshold) :
                 v \in Levels \X Levels \X Levels \X Levels}

VARIABLES
  series,    \* series_by_symbol_[symbol]
  vwap, profile, delta,  \* the states of the three engines
  ticks,     \* every tick ingested so far
  since,     \* since[i]: how many there were when series i was added
  archive,   \* archive[i]: the bars read and cleared from series i
  session,   \* [ticks, bars]: how many there were at the last reset
  upkeep     \* reads of completed() and resets so far

vars == <<series, vwap, profile, delta, ticks, since, archive, session, upkeep>>

Init ==
  /\ series = << >> /\ since = << >> /\ archive = << >>
  /\ vwap = V!ResetVwap /\ profile = P!EmptyProfile /\ delta = D!ResetDelta
  /\ ticks = << >> /\ session = [ticks |-> 0, bars |-> 0] /\ upkeep = 0

(* Every bar series i has completed, cleared ones first.                   *)
BarsOf(i) == archive[i] \o series[i].completed

(* BarEngine::add_series.                                                  *)
AddSeries ==
  /\ Len(series) < MaxSeries
  /\ \E kind \in Kinds : series' = Append(series, B!NewSeries(kind[1], kind[2]))
  /\ since' = Append(since, Len(ticks))
  /\ archive' = Append(archive, << >>)
  /\ UNCHANGED <<vwap, profile, delta, ticks, session, upkeep>>

(* BarEngine::ingest, then the engines of the later stages.                *)
Ingest ==
  /\ Len(ticks) < MaxTicks
  /\ \E tick \in Feed :
       LET after == [i \in DOMAIN series |-> B!Ingest(series[i], tick)]
           done == IF series = << >> THEN << >> ELSE after[1].completed
       IN  /\ series' = after
           /\ ticks' = Append(ticks, tick)
           /\ vwap' = V!AddTrade(vwap, tick.price, tick.size)
           /\ profile' = P!AddVolume(profile, tick.price, tick.size)
           /\ delta' = IF series # << >> /\ Len(done) > Len(series[1].completed)
                         THEN D!UpdateDelta(delta, Last(done).close, Last(done).buy, Last(done).sell)
                         ELSE delta
  /\ UNCHANGED <<since, archive, session, upkeep>>

(* The reader of completed() clears it.                                    *)
ReadCompleted ==
  /\ upkeep < MaxUpkeep
  /\ \E i \in DOMAIN series :
       /\ series[i].completed # << >>
       /\ archive' = [archive EXCEPT ![i] = BarsOf(i)]
       /\ series' = [series EXCEPT ![i] = B!ClearCompleted(@)]
  /\ upkeep' = upkeep + 1
  /\ UNCHANGED <<vwap, profile, delta, ticks, since, session>>

(* A new session: reset() of the three engines.                            *)
ResetSession ==
  /\ upkeep < MaxUpkeep
  /\ vwap' = V!ResetVwap /\ profile' = P!EmptyProfile /\ delta' = D!ResetDelta
  /\ session' = [ticks |-> Len(ticks),
                 bars |-> IF series = << >> THEN 0 ELSE Len(BarsOf(1))]
  /\ upkeep' = upkeep + 1
  /\ UNCHANGED <<series, ticks, since, archive>>

Next == AddSeries \/ Ingest \/ ReadCompleted \/ ResetSession

Spec == Init /\ [][Next]_vars

---------------------------------------------------------------------------
Poc == IF profile = P!EmptyProfile THEN 0 ELSE P!PocPrice(profile)
SessionTicks == SubSeq(ticks, session.ticks + 1, Len(ticks))
SessionBars ==
  IF series = << >> THEN << >> ELSE SubSeq(BarsOf(1), session.bars + 1, Len(BarsOf(1)))

(* The bars of series i, the one in progress last, and how many ticks      *)
(* there were at the end of each, from the trade counts of the bars.       *)
BarsNow(i) == BarsOf(i) \o (IF series[i].active THEN << series[i].current >> ELSE << >>)
EndsOf(i) ==
  LET ends[j \in 0 .. Len(BarsNow(i))] ==
        IF j = 0 THEN since[i] ELSE ends[j - 1] + BarsNow(i)[j].count
  IN  ends

(* The ticks from the first one of bar j to the n-th of all.               *)
TicksOf(i, j, n) == SubSeq(ticks, EndsOf(i)[j - 1] + 1, n)

(* Each series partitions the ticks since it was added: the trade counts   *)
(* of its bars, the one in progress last, cut them into slices, and open,  *)
(* high, low, close, volume, VWAP, buy and sell volume and the extremes of *)
(* delta are those of the slice, through clear_completed() and whenever    *)
(* the series was added (BarSeries::ingest).                               *)
BarsMatchTicks ==
  \A i \in DOMAIN series :
    /\ EndsOf(i)[Len(BarsNow(i))] = Len(ticks)
    /\ \A j \in DOMAIN BarsNow(i) : B!Agrees(BarsNow(i)[j], TicksOf(i, j, EndsOf(i)[j]))

(* A bar is closed by the first tick with which its ticks reach the        *)
(* threshold and by no earlier or later one (BarSeries::ingest).  That     *)
(* tick is the last of a range or volume bar, and the first after a time   *)
(* bar; its time is the end of the bar, and no bar in progress has reached *)
(* its threshold yet.  A volume bar may hold more than its threshold: the  *)
(* tick that reaches it is not split.                                      *)
BarsCloseOnThreshold ==
  \A i \in DOMAIN series :
    LET closer(j) == IF series[i].type = "Time" THEN EndsOf(i)[j] + 1 ELSE EndsOf(i)[j]
        closed == DOMAIN BarsOf(i)
    IN  /\ \A j \in closed :
             /\ closer(j) \in DOMAIN ticks
             /\ B!Reached(series[i], TicksOf(i, j, closer(j)))
             /\ ~B!Reached(series[i], TicksOf(i, j, closer(j) - 1))
             /\ BarsOf(i)[j].end = ticks[closer(j)].time
        /\ \A j \in DOMAIN BarsNow(i) \ closed :
             ~B!Reached(series[i], TicksOf(i, j, Len(ticks)))

(* The DeltaEngine's CVD is the running total of the deltas of the bars    *)
(* completed in the session (README: "running total across all bars"), its *)
(* divergence compares the last two closes, and no bar is given to it      *)
(* twice or not at all.  Its extremes bound the bars' deltas and are among *)
(* them, or zero: whether zero may be one when all deltas have one sign,   *)
(* as in the code, or not, as README.md:200 says, is left open here.       *)
DeltaMatchesBars ==
  LET bars == SessionBars
      deltas == {B!Delta(bars[j]) : j \in DOMAIN bars}
  IN  /\ {delta.maxDelta, delta.minDelta} \ {0} \subseteq deltas
      /\ \A d \in deltas : delta.minDelta <= d /\ d <= delta.maxDelta
      /\ delta.cumulative = B!SumOf([j \in DOMAIN bars |-> B!Delta(bars[j])])
      /\ delta.updates = Len(bars)
      /\ Len(bars) > 1 =>
           delta.divergence = (Last(bars).close - bars[Len(bars) - 1].close) * B!Delta(Last(bars))

(* The engine computes the volume-weighted variance of the session's       *)
(* prices from running sums; it is what the pairs of trades say            *)
(* (sum of v_i v_j (p_i - p_j)^2), hence never negative, whatever trades   *)
(* without size are among them.                                            *)
VarianceExact ==
  LET t == SessionTicks
      pairs == {x \in (DOMAIN t) \X (DOMAIN t) : x[1] < x[2]}
  IN  V!ScaledVariance(vwap) =
        MapThenSumSet(LAMBDA x : t[x[1]].size * t[x[2]].size
                        * (t[x[1]].price - t[x[2]].price) * (t[x[1]].price - t[x[2]].price), pairs)

(* The value area of the session's profile is an interval of traded levels *)
(* around the point of control that covers 70% of the volume, and would    *)
(* not without its outermost levels (VolumeProfileEngine::snapshot).       *)
ValueAreaSound ==
  /\ profile # P!EmptyProfile => P!ValueAreaSound(profile)
  /\ P!VolumeOf(profile, P!Prices(profile)) = vwap.volume

(* BarSeries and LeeReadyClassifier decide the side of a trade with rules  *)
(* of their own.  Where update_bar() takes a side the classifier takes the *)
(* other one for a trade inside a locked or crossed quote whose ask has no *)
(* size, which the bar books as a sale and classify() calls a buy, and for *)
(* no other trade.                                                         *)
ClassifiersDifferInside ==
  \A i \in DOMAIN ticks :
    LET quote == ticks[i].quote
        price == ticks[i].price
    IN  B!BarSide(ticks[i]) # "unknown" =>
          (L!Classify(quote, price, L!NoOverride) # B!BarSide(ticks[i])
             <=> quote.ask <= price /\ price <= quote.bid /\ quote.askSize = 0)

(* What the type of a signal tells of the session, through the states of   *)
(* the delta, VWAP, profile and classifier stages: a pulse has one of its  *)
(* three inputs on its side; a short turn means that the last close moved, *)
(* by two or more, against the delta of the last bar; a long turn needs no *)
(* buying, only a move with the delta or a bar with a delta of two or more *)
(* either way (surge is its absolute value); a COT signal is the side of   *)
(* the last trade (SignalDetector::score, select_signal_type).             *)
SignalFitsSession ==
  ticks # << >> =>
    LET bars == SessionBars
        trades == SessionTicks
        flow == IF bars = << >> THEN 0 ELSE B!Delta(Last(bars))
        move == IF Len(bars) < 2 THEN 0 ELSE Last(bars).close - bars[Len(bars) - 1].close
        lean == B!SumOf([k \in DOMAIN trades |-> trades[k].price * trades[k].size])
                  - Poc * B!SumOf([k \in DOMAIN trades |-> trades[k].size])
        quote == Last(ticks).quote
        price == Last(ticks).price
        bought == price > quote.bid \/ price >= quote.ask
    IN  \A imbalance \in Imbalances :
          LET side == L!Classify(quote, price, L!NoOverride)
              type == S!Evaluate(delta, imbalance, vwap, Poc, side).type
          IN  /\ type = "PulseLong" => flow > 0 \/ imbalance.buy \/ lean > 0
              /\ type = "PulseShort" => flow < 0 \/ imbalance.sell \/ lean < 0
              /\ type = "TurnLong" => move * flow > 0 \/ S!Abs(flow) > 1
              /\ type = "TurnShort" => move * flow < 0 /\ S!Abs(move) > 1
              /\ type = "CotLong" => bought
              /\ type = "CotShort" => ~bought

(* evaluate() can name one zone only: where both edges are imbalanced the  *)
(* signal is a sweep, whatever the other engines say, and never a one-     *)
(* sided pulse, turn or side-of-trade signal with half of the picture.     *)
TwoSidedIsSweep ==
  \A imbalance \in Imbalances :
    imbalance.buy /\ imbalance.sell =>
      S!Evaluate(delta, imbalance, vwap, Poc, "unknown").type = "SweepBuy"

(* The field BarRecord::cvd of a completed bar is the running total of     *)
(* delta over the completed bars (README:80 of CVD: "running total across  *)
(* all bars").                                                             *)
BarCvdIsRunningTotal ==
  \A i \in DOMAIN series : BarsOf(i) # << >> =>
    Last(BarsOf(i)).cvd = B!SumOf([j \in DOMAIN BarsOf(i) |-> B!Delta(BarsOf(i)[j])])
=============================================================================
