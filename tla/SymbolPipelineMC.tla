-------------------------- MODULE SymbolPipelineMC --------------------------
(***************************************************************************)
(* Trades at, inside and outside an open spread, on a locked and a crossed *)
(* quote, without size on one side, and of size zero; timestamps in any    *)
(* order; series of the three types, a threshold of zero among them.       *)
(***************************************************************************)
EXTENDS SymbolPipeline

Quote(bid, ask, bidSize, askSize) ==
  [bid |-> bid, ask |-> ask, bidSize |-> bidSize, askSize |-> askSize]
Trade(time, price, size, quote) ==
  [time |-> time, price |-> price, size |-> size, quote |-> quote]

Open == Quote(1, 4, 1, 1)

MCFeed ==
  {Trade(0, 1, 1, Open), Trade(1, 4, 3, Open), Trade(2, 2, 2, Open),
   Trade(0, 2, 1, Quote(2, 2, 1, 1)), Trade(2, 3, 0, Quote(3, 2, 1, 0)),
   Trade(1, 0, 1, Quote(2, 1, 1, 1))}
MCKinds == {<<"Time", 1>>, <<"Time", 0>>, <<"Range", 2>>, <<"Volume", 3>>}
MCLevels == {0, 1, 2, 6}
=============================================================================
