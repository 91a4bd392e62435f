-------------------------- MODULE TickRouterS1MC --------------------------
(* Two adapters, up to three symbols and four rings.                       *)
EXTENDS TickRouterS1, TLC

CONSTANTS ringA, ringB, ringC, ringD, adapter1, adapter2, es, nq, cl

MCBuffers == {ringA, ringB}
AllBuffers == {ringA, ringB, ringC, ringD}
OneBuffer == {ringA}
MCProducers == {adapter1, adapter2}
MCSymbols == {es, nq}
\* cl is in the watchlist and never trades.
ThreeSymbols == {es, nq, cl}
BothOverloads == {"copy", "move"}
CopyOnly == {"copy"}
\* Each symbol comes from one adapter, or both adapters carry every symbol.
Disjoint == adapter1 :> {es} @@ adapter2 :> {nq}
Shared == [p \in MCProducers |-> MCSymbols]
\* es may move to a new ring when its worker is rebuilt.
MCRings == (es :> MCBuffers) @@ (nq :> {ringC}) @@ (cl :> {ringD})
OneRing == [s \in MCSymbols |-> {ringA}]
===========================================================================
