-------------------------- MODULE SymbolWorkerMC --------------------------
(* Two lifecycle callers, a two-slot ring, two stages, and enough ticks    *)
(* and threads for the worker to be stopped and started again with ticks   *)
(* waiting.                                                                *)
EXTENDS SymbolWorker

CONSTANTS c1, c2

MCCallers == {c1, c2}
===========================================================================
