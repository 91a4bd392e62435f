------------------------- MODULE ImbalanceDetector -------------------------
(***************************************************************************)
(* ImbalanceDetector of include/ofe/analytics/imbalance_detector.h: the    *)
(* diagonal comparison of a price level with its neighbours.  Ratios are   *)
(* left out, the flags are what the signal detector reads.                 *)
(***************************************************************************)
EXTENDS Integers

IsBuyImbalance(askAtPrice, bidPrevious, threshold) ==
  IF askAtPrice <= 0 THEN bidPrevious > 0 ELSE bidPrevious >= askAtPrice * threshold

IsSellImbalance(bidAtPrice, askNext, threshold) ==
  IF bidAtPrice <= 0 THEN askNext > 0 ELSE askNext >= bidAtPrice * threshold

Compare(askAtPrice, bidPrevious, bidAtPrice, askNext, threshold) ==
  LET buy == IsBuyImbalance(askAtPrice, bidPrevious, threshold)
      sell == IsSellImbalance(bidAtPrice, askNext, threshold)
  IN  [buy |-> buy, sell |-> sell, stacked |-> buy \/ sell,
       absorption |-> bidPrevious > askAtPrice /\ askNext > bidAtPrice]
===========================================================================
