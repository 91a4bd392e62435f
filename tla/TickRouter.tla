---------------------------- MODULE TickRouter ----------------------------
(***************************************************************************)
(* TickRouter of include/ofe/core/tick_router.h: ticks are spread over     *)
(* shards by symbol id, every shard has a FIFO queue and a mutex.  Feed    *)
(* threads dispatch, symbol workers (one per symbol, README.md:67) pop     *)
(* from the shard of their symbol.  A call is split at the acquisition of  *)
(* the mutex.  A deque is not atomic: push_back() and pop_front() complete *)
(* on the state of the deque they began with, so that two threads in one   *)
(* deque would undo each other's work.                                     *)
(***************************************************************************)
EXTENDS Integers, Sequences, FiniteSets

CONSTANTS
  SymbolIds,      (* the symbols that trade: natural numbers               *)
  RequestedShards,  (* constructor argument shard_count                    *)
  Feeds,          (* threads that call dispatch                            *)
  MaxPerFeed,     (* bound: ticks a feed dispatches                        *)
  Free            (* the owner of a mutex nobody holds                     *)

ASSUME RouterAssumption ==
  /\ SymbolIds \subseteq Nat /\ SymbolIds # {}
  /\ RequestedShards \in Nat
  /\ MaxPerFeed \in Nat
  /\ Feeds \cap SymbolIds = {}
  /\ Free \notin Feeds \cup SymbolIds

(* A router without shards is given one.                                   *)
ShardCount == IF RequestedShards = 0 THEN 1 ELSE RequestedShards
Shards == 0 .. ShardCount - 1
ShardForSymbol(id) == id % ShardCount

(* Workers are named by their symbol.                                      *)
Workers == SymbolIds
Threads == Feeds \cup Workers
Tick == [feed : Feeds, number : 1 .. MaxPerFeed, symbol : SymbolIds]

VARIABLES
  owner,          (* per shard: the thread that holds mutex, or Free       *)
  queue,          (* per shard: queue                                      *)
  call,           (* per thread: its call in progress                      *)
  seen,           (* per thread: the deque as its critical section finds it *)
  sent,           (* per feed: how many ticks it has dispatched            *)
  delivered       (* per shard: what try_pop has returned, oldest first    *)

vars == <<owner, queue, call, seen, sent, delivered>>

NoCall == [pc |-> "idle"]

Init ==
  /\ owner = [s \in Shards |-> Free]
  /\ queue = [s \in Shards |-> << >>]
  /\ call = [t \in Threads |-> NoCall]
  /\ seen = [t \in Threads |-> << >>]
  /\ sent = [f \in Feeds |-> 0]
  /\ delivered = [s \in Shards |-> << >>]

---------------------------------------------------------------------------
(* dispatch() and try_pop() are called; the shard is known.                *)
CallDispatch(f, id) ==
  /\ call[f] = NoCall
  /\ sent[f] < MaxPerFeed
  /\ sent' = [sent EXCEPT ![f] = @ + 1]
  /\ call' = [call EXCEPT ![f] =
       [pc |-> "lock", shard |-> ShardForSymbol(id),
        tick |-> [feed |-> f, number |-> sent'[f], symbol |-> id]]]
  /\ UNCHANGED <<owner, queue, seen, delivered>>

(* Mutant: every worker asks the first shard.                              *)
CallTryPopFirst(w) ==
  /\ call[w] = NoCall
  /\ call' = [call EXCEPT ![w] = [pc |-> "lock", shard |-> 0]]
  /\ UNCHANGED <<owner, queue, seen, sent, delivered>>

CallTryPop(w) ==
  /\ call[w] = NoCall
  /\ call' = [call EXCEPT ![w] = [pc |-> "lock", shard |-> ShardForSymbol(w)]]
  /\ UNCHANGED <<owner, queue, seen, sent, delivered>>

(* Mutant: the mutex is not waited for.                                    *)
AcquireHeld(t) ==
  /\ call[t].pc = "lock"
  /\ owner' = [owner EXCEPT ![call[t].shard] = t]
  /\ call' = [call EXCEPT ![t].pc = "held"]
  /\ seen' = [seen EXCEPT ![t] = queue[call[t].shard]]
  /\ UNCHANGED <<queue, sent, delivered>>

Acquire(t) ==
  /\ call[t].pc = "lock"
  /\ owner[call[t].shard] = Free
  /\ owner' = [owner EXCEPT ![call[t].shard] = t]
  /\ call' = [call EXCEPT ![t].pc = "held"]
  /\ seen' = [seen EXCEPT ![t] = queue[call[t].shard]]
  /\ UNCHANGED <<queue, sent, delivered>>

Release(t) ==
  /\ owner' = [owner EXCEPT ![call[t].shard] = Free]
  /\ call' = [call EXCEPT ![t] = NoCall]
  /\ seen' = [seen EXCEPT ![t] = << >>]

(* The critical sections: push_back, and front with pop_front if any.      *)
Push(f) ==
  /\ call[f].pc = "held"
  /\ queue' = [queue EXCEPT ![call[f].shard] = Append(seen[f], call[f].tick)]
  /\ Release(f)
  /\ UNCHANGED <<sent, delivered>>

PopEmpty(w) ==
  /\ call[w].pc = "held"
  /\ seen[w] = << >>
  /\ Release(w)
  /\ UNCHANGED <<queue, sent, delivered>>

Pop(w) ==
  /\ call[w].pc = "held"
  /\ seen[w] # << >>
  /\ LET s == call[w].shard
     IN  /\ delivered' = [delivered EXCEPT ![s] = Append(@, Head(seen[w]))]
         /\ queue' = [queue EXCEPT ![s] = Tail(seen[w])]
  /\ Release(w)
  /\ UNCHANGED sent

Feed(f) == (\E id \in SymbolIds : CallDispatch(f, id)) \/ Acquire(f) \/ Push(f)
Work(w) == CallTryPop(w) \/ Acquire(w) \/ PopEmpty(w) \/ Pop(w)
Next == (\E f \in Feeds : Feed(f)) \/ (\E w \in Workers : Work(w))

Spec == Init /\ [][Next]_vars

(* Workers poll, and a call that holds or can take its mutex goes on.  The *)
(* mutex is not assumed fair: a thread may lose every race for it.         *)
Fairness ==
  /\ \A f \in Feeds : WF_vars(Acquire(f)) /\ WF_vars(Push(f))
  /\ \A w \in Workers : WF_vars(Work(w))

FairSpec == Spec /\ Fairness

---------------------------------------------------------------------------
(* The ticks of a feed come out of each shard in the order they were       *)
(* dispatched and only from the shard of their symbol, and none of them is *)
(* lost or duplicated on the way: those of one symbol are never reordered, *)
(* whatever the number of feeds and workers that meet in the shard.        *)
Line(s) == delivered[s] \o queue[s]

InOrder ==
  \A s \in Shards : \A i, j \in DOMAIN Line(s) :
    /\ ShardForSymbol(Line(s)[i].symbol) = s
    /\ i < j /\ Line(s)[i].feed = Line(s)[j].feed => Line(s)[i].number < Line(s)[j].number

(* The numbers of a feed's ticks whose dispatch() has put them in a queue. *)
Dispatched(f) == 1 .. IF call[f] = NoCall THEN sent[f] ELSE sent[f] - 1

SameTick(t, u) == t.feed = u.feed /\ t.number = u.number

Complete ==
  /\ \A f \in Feeds : \A n \in Dispatched(f) :
       \E s \in Shards : \E i \in DOMAIN Line(s) : SameTick(Line(s)[i], [feed |-> f, number |-> n])
  /\ \A s, r \in Shards : \A i \in DOMAIN Line(s), j \in DOMAIN Line(r) :
       /\ Line(s)[i].number \in Dispatched(Line(s)[i].feed)
       /\ s # r => ~SameTick(Line(s)[i], Line(r)[j])

TicksKept == InOrder /\ Complete

(* Polling workers empty every shard, however its mutex is contended.      *)
EveryTickIsPopped ==
  \A s \in Shards : (queue[s] # << >>) ~> (queue[s] = << >>)
===========================================================================
