---------------------------- MODULE LeeReadyS1 ----------------------------
(***************************************************************************)
(* LeeReadyClassifier of the first-session code (src/core/lee_ready.cpp)   *)
(* as operators on the LeeReadyState [prev, bid, ask, last].  A price of 0 *)
(* is one not seen yet, as in the code.                                    *)
(***************************************************************************)
EXTENDS Integers

InitState == [prev |-> 0, bid |-> 0, ask |-> 0, last |-> "UNKNOWN"]

IsReady(state) == state.bid > 0 /\ state.ask > 0

QuoteRule(price, state) ==
  CASE 2 * price > state.bid + state.ask -> "ASK"
    [] 2 * price < state.bid + state.ask -> "BID"
    [] 2 * price = state.bid + state.ask -> "UNKNOWN"

(* Mutant: a zero tick is not classified.                                  *)
TickRuleForgets(price, state) ==
  CASE price > state.prev -> "ASK"
    [] price < state.prev -> "BID"
    [] price = state.prev -> "UNKNOWN"

(* A zero tick carries the side of the last trade forward.                 *)
TickRule(price, state) ==
  CASE price > state.prev -> "ASK"
    [] price < state.prev -> "BID"
    [] price = state.prev -> state.last

(* classify_trade(): the exchange's word, the quote, the tick, in turn.    *)
Side(price, aggressor, state) ==
  IF aggressor = "buyer" THEN "ASK"
  ELSE IF aggressor = "seller" THEN "BID"
  ELSE IF IsReady(state) /\ QuoteRule(price, state) # "UNKNOWN" THEN QuoteRule(price, state)
  ELSE IF state.prev # 0 THEN TickRule(price, state)
  ELSE "UNKNOWN"

ClassifyTrade(price, aggressor, state) ==
  [state EXCEPT !.prev = price, !.last = Side(price, aggressor, state)]

UpdateQuote(type, price, state) ==
  CASE type = "BID_QUOTE" -> [state EXCEPT !.bid = price]
    [] type = "ASK_QUOTE" -> [state EXCEPT !.ask = price]
    [] OTHER -> state
===========================================================================
