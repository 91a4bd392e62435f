----------------------------- MODULE LeeReady -----------------------------
(***************************************************************************)
(* LeeReadyClassifier::classify of include/ofe/core/lee_ready.h: the       *)
(* aggressor of a trade, from its price and the quote.                     *)
(***************************************************************************)
EXTENDS Integers

NoOverride == "none"
Directions == {"buy", "sell", "unknown"}

(* Mutant: a sale at the bid is looked for first, crossed quotes included. *)
ClassifyBidFirst(quote, price, override) ==
  CASE price <= quote.bid -> "sell"
    [] price > quote.bid  -> "buy"

Classify(quote, price, override) ==
  LET proper == quote.ask > quote.bid
  IN  CASE proper /\ price >= quote.ask -> "buy"
        [] proper /\ price <= quote.bid -> "sell"
        [] ~(proper /\ (price >= quote.ask \/ price <= quote.bid)) ->
             IF price > quote.bid THEN "buy"
             ELSE IF price < quote.ask THEN "sell"
             ELSE IF override # NoOverride THEN override
             ELSE IF price >= quote.ask THEN "buy"
             ELSE IF price <= quote.bid THEN "sell"
             ELSE "unknown"
===========================================================================
