------------------------- MODULE SymbolPipelineS1MC -------------------------
(***************************************************************************)
(* Four prices a tick apart; sales of 20 and purchases of 60 that stack up *)
(* to imbalances, large ones that turn the delta, trades the exchange does *)
(* not classify, a summary, and one bar size of each type, beside one too  *)
(* small.                                                                  *)
(***************************************************************************)
EXTENDS SymbolPipelineS1

TradeTick(price, volume, aggressor, gap) ==
  [type |-> "TRADE", price |-> price, volume |-> volume, aggressor |-> aggressor, gap |-> gap]

MCFeed ==
  {TradeTick(1, 20, "seller", 0), TradeTick(2, 20, "seller", 3),
   TradeTick(2, 60, "buyer", 0), TradeTick(3, 60, "buyer", 3),
   TradeTick(2, 20, "unknown", 3), TradeTick(3, 60, "unknown", 0),
   [type |-> "BID_QUOTE", price |-> 1], [type |-> "ASK_QUOTE", price |-> 3],
   [type |-> "SUMMARY", price |-> 2]}
MCSizes == {[type |-> "TIME", value |-> 5], [type |-> "RANGE", value |-> 2],
            [type |-> "VOLUME", value |-> 100], [type |-> "TIME", value |-> 4]}
=============================================================================
