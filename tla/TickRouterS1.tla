--------------------------- MODULE TickRouterS1 ---------------------------
(***************************************************************************)
(* TickRouter of the first-session code                                    *)
(* (ofe_session1_code/ofe/src/core/tick_router.cpp), composed with the     *)
(* rings it pushes into (RingBufferS1).  Adapter threads call route();     *)
(* a watchlist thread registers and unregisters symbols; every ring has    *)
(* one consumer.  route() holds the registry's shared lock from its first  *)
(* line to its return, register and unregister take it exclusively: the    *)
(* set inRoute stands for the lock.                                        *)
(***************************************************************************)
EXTENDS RingBufferS1, FiniteSets, FiniteSetsExt

CONSTANTS
  Symbols,        (* symbol ids                                            *)
  Feeds,          (* per adapter (Producers): the symbols it carries       *)
  RingsOf,        (* per symbol: the rings it may be registered with       *)
  Overloads,      (* which route() adapters call: subset of {"copy","move"} *)
  MaxSymbols,     (* constructor argument max_symbols                      *)
  UnknownPeriod,  (* 1000 in the code: unknown ticks per warning           *)
  DropPeriod,     (* 100 in the code: dropped ticks per warning            *)
  MaxChanges,     (* bound: calls of register and unregister               *)
  NoBuffer        (* a symbol id that is not in symbol_map_                *)

ASSUME RouterS1Assumption ==
  /\ IsFiniteSet(Producers) /\ IsFiniteSet(Buffers)
  /\ Feeds \in [Producers -> SUBSET Symbols]
  /\ RingsOf \in [Symbols -> SUBSET Buffers]
  /\ Overloads \subseteq {"copy", "move"}
  /\ MaxSymbols \in Nat
  /\ UnknownPeriod \in Nat \ {0, 1}
  /\ DropPeriod \in Nat \ {0, 1}
  /\ MaxChanges \in Nat
  /\ NoBuffer \notin Buffers

VARIABLES
  symbolMap,      (* symbol_map_                                           *)
  route,          (* per adapter: its route() in progress, or Idle         *)
  stats,          (* ticks_routed_, ticks_dropped_, ticks_unknown_         *)
  warned,         (* per adapter and reason: the counts it warned at       *)
                  (* oldest first                                          *)
  changes,        (* how many register and unregister calls were made      *)
  released        (* rings whose symbols were unregistered: their owner    *)
                  (* may destroy them                                      *)

routerVars == <<symbolMap, route, stats, warned, changes, released>>
vars == <<ringVars, arrived, routerVars>>

inRoute == {p \in Producers : route[p] # Idle}
Registered == {s \in Symbols : symbolMap[s] # NoBuffer}
CountStat(name) == stats' = [stats EXCEPT ![name] = @ + 1]

---------------------------------------------------------------------------
Init ==
  /\ RingInit
  /\ arrived = 0
  /\ symbolMap = [s \in Symbols |-> NoBuffer]
  /\ route = [p \in Producers |-> Idle]
  /\ stats = [name \in {"routed", "dropped", "unknown"} |-> 0]
  /\ warned = [p \in Producers |-> [why \in {"dropped", "unknown"} |-> << >>]]
  /\ changes = 0
  /\ released = {}

(* register_symbol.  The limit is compared before the lookup, so a symbol  *)
(* that is already registered is refused too when the map is full, and     *)
(* moves to the new ring otherwise.  released is what the caller may       *)
(* conclude: a ring no symbol maps to any more is its owner's alone.       *)
Replace(s, b) ==
  /\ symbolMap' = [symbolMap EXCEPT ![s] = b]
  /\ released' = {r \in Buffers :
                    /\ \A t \in Symbols : symbolMap'[t] # r
                    /\ r \in released \/ symbolMap[s] = r}

Register(s, b) ==
  /\ inRoute = {}
  /\ changes < MaxChanges
  /\ changes' = changes + 1
  /\ IF Cardinality(Registered) >= MaxSymbols
       THEN UNCHANGED <<symbolMap, released>>
       ELSE Replace(s, b)
  /\ UNCHANGED <<ringVars, arrived, route, stats, warned>>

(* Mutant: unregister does not wait for the adapters inside route().       *)
UnregisterAnyTime(s) ==
  /\ changes < MaxChanges
  /\ changes' = changes + 1
  /\ Replace(s, NoBuffer)
  /\ UNCHANGED <<ringVars, arrived, route, stats, warned>>

(* unregister_symbol; an unknown symbol is left alone.                     *)
Unregister(s) ==
  /\ inRoute = {}
  /\ changes < MaxChanges
  /\ changes' = changes + 1
  /\ Replace(s, NoBuffer)
  /\ UNCHANGED <<ringVars, arrived, route, stats, warned>>

---------------------------------------------------------------------------
(* route() takes the shared lock and looks its tick's symbol up.           *)
Arrive(p, s) ==
  /\ route[p] = Idle
  /\ s \in Feeds[p]
  /\ arrived < MaxTicks
  /\ arrived' = arrived + 1

(* An unknown symbol: the counter is incremented, then, by the copying     *)
(* overload, loaded again for the warning.                                 *)
RouteUnknown(p, s, overload) ==
  /\ Arrive(p, s)
  /\ symbolMap[s] = NoBuffer
  /\ CountStat("unknown")
  /\ route' = [route EXCEPT ![p] =
       [pc |-> IF overload = "copy" THEN "warn" ELSE "return", why |-> "unknown"]]
  /\ UNCHANGED <<ringVars, symbolMap, warned, changes, released>>

(* A known symbol: try_push on its ring begins.                            *)
RouteKnown(p, s, overload) ==
  /\ Arrive(p, s)
  /\ symbolMap[s] # NoBuffer
  /\ PushBegin(p, symbolMap[s], arrived')
  /\ route' = [route EXCEPT ![p] = [pc |-> "push", overload |-> overload]]
  /\ UNCHANGED <<symbolMap, stats, warned, changes, released>>

RoutePush(p) ==
  /\ PushWrite(p) \/ PushPublish(p)
  /\ UNCHANGED <<arrived, routerVars>>

(* Mutant: a drop is counted as routed.                                    *)
RouteCountRoutedOnly(p) ==
  /\ PushReturn(p)
  /\ CountStat("routed")
  /\ route' = [route EXCEPT ![p] = [pc |-> "return"]]
  /\ UNCHANGED <<arrived, symbolMap, warned, changes, released>>

(* try_push has returned: its result is counted.  After a drop the copying *)
(* overload loads the counter again for the warning; the moving one logs   *)
(* every drop, without a count.                                            *)
RouteCount(p) ==
  /\ PushReturn(p)
  /\ CountStat(IF push[p].pc = "accepted" THEN "routed" ELSE "dropped")
  /\ route' = [route EXCEPT ![p] =
       IF push[p].pc = "refused" /\ route[p].overload = "copy"
         THEN [pc |-> "warn", why |-> "dropped"]
         ELSE [pc |-> "return"]]
  /\ UNCHANGED <<arrived, symbolMap, warned, changes, released>>

Period(why) == IF why = "unknown" THEN UnknownPeriod ELSE DropPeriod

(* Mutant: a warning for every unknown tick but the first of a period.     *)
RouteWarnInverted(p) ==
  /\ route[p].pc = "warn"
  /\ LET why == route[p].why
     IN  warned' = IF stats[why] % Period(why) # 1
                     THEN [warned EXCEPT ![p][why] = Append(@, stats[why])]
                     ELSE warned
  /\ route' = [route EXCEPT ![p] = [pc |-> "return"]]
  /\ UNCHANGED <<ringVars, arrived, symbolMap, stats, changes, released>>

RouteWarn(p) ==
  /\ route[p].pc = "warn"
  /\ LET why == route[p].why
     IN  warned' = IF stats[why] % Period(why) = 1
                     THEN [warned EXCEPT ![p][why] = Append(@, stats[why])]
                     ELSE warned
  /\ route' = [route EXCEPT ![p] = [pc |-> "return"]]
  /\ UNCHANGED <<ringVars, arrived, symbolMap, stats, changes, released>>

(* route() returns and releases the lock.                                  *)
RouteReturn(p) ==
  /\ route[p].pc = "return"
  /\ route' = [route EXCEPT ![p] = Idle]
  /\ UNCHANGED <<ringVars, arrived, symbolMap, stats, warned, changes, released>>

Pop(b) == Consume(b) /\ UNCHANGED <<arrived, routerVars>>

Next ==
  \/ \E s \in Symbols : \E b \in RingsOf[s] : Register(s, b)
  \/ \E s \in Symbols : Unregister(s)
  \/ \E p \in Producers, s \in Symbols, o \in Overloads :
       RouteUnknown(p, s, o) \/ RouteKnown(p, s, o)
  \/ \E p \in Producers :
       RoutePush(p) \/ RouteCount(p) \/ RouteWarn(p) \/ RouteReturn(p)
  \/ \E b \in Buffers : Pop(b)

Spec == Init /\ [][Next]_vars

---------------------------------------------------------------------------
(* A ring whose unregister_symbol has returned is never pushed into: the   *)
(* watchlist may destroy it although adapters keep routing.                *)
ReleasedRingUntouched ==
  \A p \in Producers : push[p] # Idle => push[p].ring \notin released

(* The health endpoint's counters account for every tick and agree with    *)
(* what the rings counted, up to the calls that have not counted yet.      *)
StatsAccount ==
  LET pushing(pcs) == Cardinality({p \in Producers : push[p].pc \in pcs})
      total(F(_)) == MapThenSumSet(F, Buffers)
  IN  /\ total(LAMBDA b : Len(accepted[b])) = stats["routed"] + pushing({"accepted"})
      /\ total(LAMBDA b : dropped[b]) = stats["dropped"] + pushing({"refused"})
      /\ arrived = stats["routed"] + stats["dropped"] + stats["unknown"]
                     + pushing({"write", "publish", "accepted", "refused"})

(* "To avoid flooding" (tick_router.cpp:85): no adapter warns twice in one *)
(* period of unknown or of dropped ticks, however the increments and the   *)
(* loads of the adapters interleave.  The n-th tick of a kind falls in     *)
(* period (n - 1) \div Period.                                             *)
WarningsRare ==
  \A p \in Producers, why \in {"dropped", "unknown"} :
    LET period(i) == (warned[p][why][i] - 1) \div Period(why)
    IN  \A i, j \in DOMAIN warned[p][why] : i < j => period(i) < period(j)

(* tick_router.h:91, "True if tick was placed in the buffer": every tick   *)
(* for which try_push answered true is popped or still waits.  The feeds   *)
(* must not share a symbol for it to hold.                                 *)
RoutedTicksAreQueued ==
  \A b \in Buffers :
    LET elements(q) == {q[i] : i \in DOMAIN q}
    IN  elements(accepted[b]) \subseteq elements(popped[b]) \cup elements(Waiting(b))
===========================================================================
