---------------------------- MODULE DeltaEngine ----------------------------
(***************************************************************************)
(* DeltaEngine of include/ofe/analytics/delta_engine.h as operators on its *)
(* state; lastPrice is the member outside DeltaState.                      *)
(***************************************************************************)
EXTENDS Integers

Larger(a, b) == IF a >= b THEN a ELSE b
Smaller(a, b) == IF a <= b THEN a ELSE b

ResetDelta ==
  [barDelta |-> 0, maxDelta |-> 0, minDelta |-> 0, cumulative |-> 0,
   divergence |-> 0, surge |-> 0, updates |-> 0, lastPrice |-> 0]

(* Mutant: the cumulative delta is overwritten.                            *)
UpdateDeltaAfresh(s, price, buyVolume, sellVolume) ==
  LET delta == buyVolume - sellVolume
  IN  [barDelta |-> delta, cumulative |-> delta,
       maxDelta |-> Larger(s.maxDelta, delta), minDelta |-> Smaller(s.minDelta, delta),
       divergence |-> IF s.updates = 0 THEN 0 ELSE (price - s.lastPrice) * delta,
       surge |-> Larger(delta, -delta),
       lastPrice |-> price, updates |-> s.updates + 1]

UpdateDelta(s, price, buyVolume, sellVolume) ==
  LET delta == buyVolume - sellVolume
  IN  [barDelta |-> delta, cumulative |-> s.cumulative + delta,
       maxDelta |-> Larger(s.maxDelta, delta), minDelta |-> Smaller(s.minDelta, delta),
       divergence |-> IF s.updates = 0 THEN 0 ELSE (price - s.lastPrice) * delta,
       surge |-> Larger(delta, -delta),
       lastPrice |-> price, updates |-> s.updates + 1]
===========================================================================
