-------------------------- MODULE OrderedStreams --------------------------
(***************************************************************************)
(* What TickRouter (include/ofe/core/tick_router.h) promises to the feeds  *)
(* that dispatch and the workers that pop, without a shard, a queue or a   *)
(* mutex: the ticks of one feed and one symbol are a stream.  Each tick is *)
(* sent once, is taken at most once, and is taken only when those that     *)
(* were sent before it on its stream have been.  Nothing is said of the    *)
(* order between streams.                                                  *)
(***************************************************************************)
EXTENDS Naturals

CONSTANTS
  Feeds,        (* who sends                                               *)
  SymbolIds,    (* what is traded                                          *)
  MaxPerFeed    (* bound: ticks a feed sends                               *)

Tick == [feed : Feeds, number : 1 .. MaxPerFeed, symbol : SymbolIds]

VARIABLES
  sent,         (* the ticks dispatch() has put in a queue                 *)
  taken         (* those of them try_pop() has returned                    *)

vars == <<sent, taken>>

SameStream(t, u) == t.feed = u.feed /\ t.symbol = u.symbol

Init == sent = {} /\ taken = {}

(* A feed numbers its ticks without a gap.                                 *)
Send(t) ==
  /\ {u.number : u \in {v \in sent : v.feed = t.feed}} = 1 .. t.number - 1
  /\ sent' = sent \cup {t}
  /\ UNCHANGED taken

Take(t) ==
  /\ t \in sent \ taken
  /\ \A u \in sent \ taken : SameStream(t, u) => t.number <= u.number
  /\ taken' = taken \cup {t}
  /\ UNCHANGED sent

Next == \E t \in Tick : Send(t) \/ Take(t)

Spec == Init /\ [][Next]_vars
===========================================================================
