--------------------------- MODULE SignalDetector ---------------------------
(***************************************************************************)
(* SignalDetector of include/ofe/analytics/signal_detector.h.  A score is  *)
(* an exact fraction [num, den] with den > 0: the clamping to -1 .. 1 does *)
(* not change how it compares with the limits, all of which are inside.    *)
(* The fields evaluate() only copies, and strength, are left out.          *)
(***************************************************************************)
EXTENDS Integers

Abs(n) == IF n >= 0 THEN n ELSE -n
Whole(n) == [num |-> n, den |-> 1]
Plus(f, g) == [num |-> f.num * g.den + g.num * f.den, den |-> f.den * g.den]

NormalizedDelta(delta) ==
  IF delta.cumulative = 0 THEN Whole(0)
  ELSE [num |-> delta.barDelta, den |-> Abs(delta.cumulative) + 1]

ImbalanceComponent(imbalance) ==
  Whole(IF imbalance.buy THEN 1 ELSE IF imbalance.sell THEN -1 ELSE 0)

(* Mutant: the VWAP is compared with the point of control the other way.   *)
VwapComponentReversed(vwap, poc) ==
  IF vwap.volume <= 0 THEN Whole(0)
  ELSE [num |-> poc * vwap.volume - vwap.priceVolume,
        den |-> vwap.volume * (Abs(poc) + 1)]

VwapComponent(vwap, poc) ==
  IF vwap.volume <= 0 THEN Whole(0)
  ELSE [num |-> vwap.priceVolume - poc * vwap.volume,
        den |-> vwap.volume * (Abs(poc) + 1)]

Score(delta, imbalance, vwap, poc, direction) ==
  LET sum == Plus(Plus(NormalizedDelta(delta), ImbalanceComponent(imbalance)),
                  VwapComponent(vwap, poc))
  IN  [pulse |-> [sum EXCEPT !.den = 3 * @],
       turns |-> [num |-> delta.divergence + delta.surge, den |-> Abs(delta.surge) + 1],
       cot   |-> Whole(CASE direction = "buy" -> 1 [] direction = "sell" -> -1 [] OTHER -> 0),
       sweep |-> CASE imbalance.absorption -> Whole(1)
                   [] ~imbalance.absorption /\ imbalance.stacked -> [num |-> 1, den |-> 2]
                   [] OTHER -> Whole(0)]

AboveHalf(f) == 2 * f.num > f.den
BelowMinusHalf(f) == 2 * f.num < -f.den

SelectSignalType(scores) ==
  IF 10 * scores.sweep.num > 8 * scores.sweep.den THEN "SweepBuy"
  ELSE IF AboveHalf(scores.pulse) THEN "PulseLong"
  ELSE IF BelowMinusHalf(scores.pulse) THEN "PulseShort"
  ELSE IF AboveHalf(scores.turns) THEN "TurnLong"
  ELSE IF BelowMinusHalf(scores.turns) THEN "TurnShort"
  ELSE IF AboveHalf(scores.cot) THEN "CotLong"
  ELSE IF BelowMinusHalf(scores.cot) THEN "CotShort"
  ELSE "Unknown"

Evaluate(delta, imbalance, vwap, poc, direction) ==
  [type |-> SelectSignalType(Score(delta, imbalance, vwap, poc, direction)),
   zone |-> IF imbalance.buy THEN "BuyEdge" ELSE IF imbalance.sell THEN "SellEdge"
            ELSE "Neutral"]
=============================================================================
