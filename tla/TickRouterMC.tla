--------------------------- MODULE TickRouterMC ---------------------------
(* Two feeds and three symbols on two shards: 0 and 2 share one.           *)
EXTENDS TickRouter

CONSTANTS feed1, feed2

MCFeeds == {feed1, feed2}
MCSymbolIds == {0, 1, 2}
===========================================================================
