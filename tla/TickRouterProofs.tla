-------------------------- MODULE TickRouterProofs --------------------------
(***************************************************************************)
(* TickRouter loses and reorders nothing, for any number of shards, feeds  *)
(* and symbols.  Everything rests on the mutexes: a thread inside a        *)
(* critical section owns the mutex of the shard its call was routed to,    *)
(* and so the deque is still the one it found there.                       *)
(***************************************************************************)
EXTENDS TickRouter, SequenceTheorems, TLAPS

Calls ==
  {NoCall} \cup [pc : {"lock", "held"}, shard : Shards]
           \cup [pc : {"lock", "held"}, shard : Shards, tick : Tick]

LockTypes ==
  /\ owner \in [Shards -> Threads \cup {Free}]
  /\ call \in [Threads -> Calls]
  /\ sent \in [Feeds -> 0 .. MaxPerFeed]
  /\ DOMAIN queue = Shards /\ DOMAIN seen = Threads

HeldIsOwned == \A t \in Threads : call[t].pc = "held" => owner[call[t].shard] = t

(* No other thread changes a deque while a critical section is under way.  *)
SeenIsQueue == \A t \in Threads : call[t].pc = "held" => seen[t] = queue[call[t].shard]

LockInvariant == LockTypes /\ HeldIsOwned /\ SeenIsQueue

(* Every symbol has a shard, also when none was asked for.                 *)
LEMMA ShardExists == ASSUME NEW id \in SymbolIds PROVE ShardForSymbol(id) \in Shards
<1>1. id \in Nat /\ ShardCount \in Nat \ {0}
  BY RouterAssumption DEF ShardCount
<1>2. \A n \in Nat, m \in Nat \ {0} : n % m \in 0 .. m - 1
  OBVIOUS
<1> QED
  BY <1>1, <1>2 DEF ShardForSymbol, Shards

LEMMA BeginsWithoutLocks == Init => LockInvariant
BY RouterAssumption DEF Init, LockInvariant, LockTypes, HeldIsOwned, SeenIsQueue, Calls, NoCall

(* The start of a call touches no lock.                                    *)
LEMMA CallKeepsLocks ==
  ASSUME LockInvariant, NEW t \in Threads, call[t] = NoCall,
         NEW c \in Calls, c.pc = "lock",
         call' = [call EXCEPT ![t] = c], UNCHANGED <<owner, queue, seen>>,
         sent' \in [Feeds -> 0 .. MaxPerFeed]
  PROVE  LockInvariant'
BY DEF LockInvariant, LockTypes, HeldIsOwned, SeenIsQueue

(* A critical section ends with its thread giving the mutex back; no other *)
(* thread owned it.                                                        *)
LEMMA ReleaseKeepsLocks ==
  ASSUME LockInvariant, NEW t \in Threads, call[t].pc = "held", Release(t),
         NEW q, queue' = queue \/ queue' = [queue EXCEPT ![call[t].shard] = q],
         UNCHANGED sent
  PROVE  LockInvariant'
<1>1. call[t] \in Calls /\ call[t] # NoCall
  BY DEF LockInvariant, LockTypes, NoCall
<1>2. call[t].shard \in Shards
  BY <1>1 DEF Calls
<1>3. LockTypes'
  BY <1>2 DEF LockInvariant, LockTypes, Release, Calls
<1>4. ASSUME NEW u \in Threads, call'[u].pc = "held"
      PROVE  owner'[call'[u].shard] = u
  <2>1. u # t /\ call'[u] = call[u]
    BY <1>4 DEF Release, LockInvariant, LockTypes, NoCall
  <2>2. owner[call[u].shard] = u /\ owner[call[t].shard] = t
    BY <2>1, <1>4 DEF LockInvariant, HeldIsOwned
  <2>3. owner'[call[u].shard] = owner[call[u].shard]
    BY <2>1, <2>2 DEF Release, LockInvariant, LockTypes
  <2> QED
    BY <2>1, <2>2, <2>3
<1>5. ASSUME NEW u \in Threads, call'[u].pc = "held"
      PROVE  seen'[u] = queue'[call'[u].shard]
  <2>1. u # t /\ call'[u] = call[u] /\ seen'[u] = seen[u]
    BY <1>5 DEF Release, LockInvariant, LockTypes, NoCall
  <2>2. /\ owner[call[u].shard] = u /\ owner[call[t].shard] = t
        /\ seen[u] = queue[call[u].shard]
    BY <2>1, <1>5 DEF LockInvariant, HeldIsOwned, SeenIsQueue
  <2>3. queue'[call[u].shard] = queue[call[u].shard]
    <3>1. call[u].shard \in Shards
      BY <1>5, <2>1 DEF LockInvariant, LockTypes, Calls, NoCall
    <3> QED
      BY <2>1, <2>2, <3>1 DEF LockInvariant, LockTypes
  <2> QED
    BY <2>1, <2>2, <2>3
<1> QED
  BY <1>3, <1>4, <1>5 DEF LockInvariant, HeldIsOwned, SeenIsQueue

LEMMA AcquireKeepsLocks ==
  ASSUME LockInvariant, NEW t \in Threads, Acquire(t)
  PROVE  LockInvariant'
<1>1. call[t] \in Calls /\ call[t].pc = "lock"
  BY DEF Acquire, LockInvariant, LockTypes
<1>2. call[t].shard \in Shards /\ [call[t] EXCEPT !.pc = "held"] \in Calls
  BY <1>1 DEF Calls, NoCall
<1>3. call' = [call EXCEPT ![t] = [call[t] EXCEPT !.pc = "held"]]
  BY DEF Acquire
<1>4. LockTypes'
  BY <1>2, <1>3 DEF Acquire, LockInvariant, LockTypes
<1>5. [call[t] EXCEPT !.pc = "held"].shard = call[t].shard
  BY <1>1 DEF Calls, NoCall
<1>6. ASSUME NEW u \in Threads, call'[u].pc = "held"
      PROVE  owner'[call'[u].shard] = u
  <2>1. CASE u = t
    BY <2>1, <1>2, <1>3, <1>5 DEF Acquire, LockInvariant, LockTypes
  <2>2. CASE u # t
    <3>1. call'[u] = call[u]
      BY <2>2, <1>3 DEF LockInvariant, LockTypes
    <3>2. owner[call[u].shard] = u
      BY <3>1, <1>6 DEF LockInvariant, HeldIsOwned
    <3>3. call[u].shard # call[t].shard
      BY <3>2, RouterAssumption DEF Acquire, Threads, Workers
    <3> QED
      BY <3>1, <3>2, <3>3 DEF Acquire, LockInvariant, LockTypes
  <2> QED
    BY <2>1, <2>2
<1>7. ASSUME NEW u \in Threads, call'[u].pc = "held"
      PROVE  seen'[u] = queue'[call'[u].shard]
  <2>1. CASE u = t
    BY <2>1, <1>2, <1>3, <1>5 DEF Acquire, LockInvariant, LockTypes
  <2>2. CASE u # t
    BY <1>3, <1>7, <2>2 DEF Acquire, LockInvariant, LockTypes, SeenIsQueue
  <2> QED
    BY <2>1, <2>2
<1> QED
  BY <1>4, <1>6, <1>7 DEF LockInvariant, HeldIsOwned, SeenIsQueue

LEMMA StepKeepsLocks == LockInvariant /\ [Next]_vars => LockInvariant'
<1> SUFFICES ASSUME LockInvariant, [Next]_vars PROVE LockInvariant'
  OBVIOUS
<1>1. ASSUME NEW f \in Feeds, NEW id \in SymbolIds, CallDispatch(f, id)
      PROVE  LockInvariant'
  <2> DEFINE c == [pc |-> "lock", shard |-> ShardForSymbol(id),
                   tick |-> [feed |-> f, number |-> sent'[f], symbol |-> id]]
  <2>1. sent'[f] \in 1 .. MaxPerFeed /\ sent' \in [Feeds -> 0 .. MaxPerFeed]
    BY <1>1, RouterAssumption DEF CallDispatch, LockInvariant, LockTypes
  <2> QED
    BY <1>1, <2>1, ShardExists, CallKeepsLocks DEF CallDispatch, Calls, Tick, Threads
<1>2. ASSUME NEW w \in Workers, CallTryPop(w)
      PROVE  LockInvariant'
  <2>1. [pc |-> "lock", shard |-> ShardForSymbol(w)] \in Calls
    BY ShardExists DEF Calls, Workers
  <2>2. sent' \in [Feeds -> 0 .. MaxPerFeed]
    BY <1>2 DEF CallTryPop, LockInvariant, LockTypes
  <2> QED
    BY <1>2, <2>1, <2>2, CallKeepsLocks DEF CallTryPop, Threads
<1>3. ASSUME NEW t \in Threads, Acquire(t)
      PROVE  LockInvariant'
  BY <1>3, AcquireKeepsLocks
<1>4. ASSUME NEW t \in Threads, Push(t) \/ PopEmpty(t) \/ Pop(t)
      PROVE  LockInvariant'
  BY <1>4, ReleaseKeepsLocks DEF Push, PopEmpty, Pop
<1>5. CASE UNCHANGED vars
  BY <1>5 DEF vars, LockInvariant, LockTypes, HeldIsOwned, SeenIsQueue
<1> QED
  BY <1>1, <1>2, <1>3, <1>4, <1>5 DEF Next, Feed, Work, Threads

(* Each shard mutex is held by the one thread that is in its section.      *)
THEOREM LocksHold == Spec => []LockInvariant
BY BeginsWithoutLocks, StepKeepsLocks, PTL DEF Spec

---------------------------------------------------------------------------
(* The ticks.  What a feed is dispatching is its latest tick, routed to    *)
(* the shard of its symbol; so what joins the line of a shard has a higher *)
(* number than any tick of that feed on any line.                          *)
LineTypes == queue \in [Shards -> Seq(Tick)] /\ delivered \in [Shards -> Seq(Tick)]

FeedCalls ==
  \A f \in Feeds : call[f] # NoCall =>
    /\ call[f].tick \in Tick
    /\ call[f].tick.feed = f /\ call[f].tick.number = sent[f]
    /\ call[f].shard = ShardForSymbol(call[f].tick.symbol)

RouterInvariant == LockInvariant /\ LineTypes /\ FeedCalls /\ TicksKept

LEMMA TicksAssociate ==
  ASSUME NEW s \in Seq(Tick), NEW q \in Seq(Tick), NEW r \in Seq(Tick)
  PROVE  (s \o q) \o r = s \o (q \o r)
<1> DEFINE T == Tick
<1>1. s \in Seq(T) /\ q \in Seq(T) /\ r \in Seq(T)
  OBVIOUS
<1> HIDE DEF T
<1> QED
  BY <1>1

LEMMA TickJoins ==
  ASSUME NEW s \in Seq(Tick), NEW q \in Seq(Tick), NEW k \in Tick
  PROVE  s \o Append(q, k) = Append(s \o q, k)
<1>1. <<k>> \in Seq(Tick) /\ s \o q \in Seq(Tick)
  BY ConcatProperties
<1>2. Append(q, k) = q \o <<k>> /\ Append(s \o q, k) = (s \o q) \o <<k>>
  BY <1>1, AppendIsConcat
<1>3. s \o (q \o <<k>>) = (s \o q) \o <<k>>
  BY <1>1, TicksAssociate
<1> QED
  BY <1>2, <1>3

LEMMA TickMoves ==
  ASSUME NEW h \in Seq(Tick), NEW b \in Seq(Tick), b # << >>
  PROVE  /\ Append(h, Head(b)) \in Seq(Tick) /\ Tail(b) \in Seq(Tick)
         /\ Append(h, Head(b)) \o Tail(b) = h \o b
<1>1. /\ Head(b) \in Tick /\ Tail(b) \in Seq(Tick) /\ <<Head(b)>> \in Seq(Tick)
      /\ <<Head(b)>> \o Tail(b) = b
  BY HeadTailProperties
<1>2. Append(h, Head(b)) = h \o <<Head(b)>> /\ Append(h, Head(b)) \in Seq(Tick)
  BY <1>1, AppendIsConcat, AppendProperties
<1>3. (h \o <<Head(b)>>) \o Tail(b) = h \o (<<Head(b)>> \o Tail(b))
  BY <1>1, TicksAssociate
<1> QED
  BY <1>1, <1>2, <1>3

LEMMA LinesTyped ==
  ASSUME LineTypes
  PROVE  \A s \in Shards : /\ Line(s) \in Seq(Tick)
                           /\ \A i \in DOMAIN Line(s) : Line(s)[i] \in Tick
<1>1. ASSUME NEW s \in Shards PROVE Line(s) \in Seq(Tick)
  BY ConcatProperties DEF LineTypes, Line
<1> QED
  BY <1>1

(* Where no line and no number of finished dispatches changes.             *)
LEMMA LinesUnmoved ==
  ASSUME LineTypes, TicksKept, \A s \in Shards : Line(s)' = Line(s),
         \A f \in Feeds : Dispatched(f)' = Dispatched(f)
  PROVE  TicksKept'
<1>1. InOrder'
  BY DEF TicksKept, InOrder
<1>2. \A f \in Feeds : \A n \in Dispatched(f)' :
        \E s \in Shards : \E i \in DOMAIN Line(s)' :
          SameTick(Line(s)'[i], [feed |-> f, number |-> n])
  BY DEF TicksKept, Complete
<1>3. ASSUME NEW s \in Shards, NEW r \in Shards, NEW i \in DOMAIN Line(s)', NEW j \in DOMAIN Line(r)'
      PROVE  /\ \E g \in Feeds : Line(s)'[i].feed = g /\ Line(s)'[i].number \in Dispatched(g)'
             /\ s # r => ~SameTick(Line(s)'[i], Line(r)'[j])
  <2>1. Line(s)' = Line(s) /\ Line(r)' = Line(r) /\ Line(s)[i].feed \in Feeds
    BY LinesTyped DEF Tick
  <2> QED
    BY <2>1 DEF TicksKept, Complete
<1> QED
  BY <1>1, <1>2, <1>3 DEF TicksKept, Complete, SameTick, Dispatched

(* A feed's latest tick t joins the line of shard s.                       *)
Joins(f, s, t) ==
  /\ call[f] # NoCall /\ call[f].shard = s /\ call[f].tick = t
  /\ t.feed = f /\ t.number = sent[f] /\ s = ShardForSymbol(t.symbol)
  /\ queue' = [queue EXCEPT ![s] = Append(queue[s], t)]
  /\ call' = [call EXCEPT ![f] = NoCall] /\ UNCHANGED <<sent, delivered>>
  /\ Line(s)' = Append(Line(s), t) /\ Line(s) \in Seq(Tick)
  /\ \A r \in Shards : r # s => Line(r)' = Line(r)

LEMMA PushJoins ==
  ASSUME RouterInvariant, NEW f \in Feeds, Push(f)
  PROVE  \E s \in Shards, t \in Tick : Joins(f, s, t)
<1> USE DEF RouterInvariant
<1>1. PICK s \in Shards, t \in Tick :
        /\ call[f] # NoCall /\ call[f].shard = s /\ call[f].tick = t
        /\ t.feed = f /\ t.number = sent[f] /\ s = ShardForSymbol(t.symbol)
  <2>1. call[f] # NoCall
    BY DEF Push, NoCall
  <2>2. /\ call[f].tick \in Tick /\ call[f].tick.symbol \in SymbolIds
        /\ call[f].tick.feed = f /\ call[f].tick.number = sent[f]
        /\ call[f].shard = ShardForSymbol(call[f].tick.symbol)
    BY <2>1 DEF FeedCalls, Tick
  <2> QED
    BY <2>1, <2>2, ShardExists
<1>2. /\ queue' = [queue EXCEPT ![s] = Append(queue[s], t)]
      /\ call' = [call EXCEPT ![f] = NoCall] /\ UNCHANGED <<sent, delivered>>
  BY <1>1 DEF Push, Release, LockInvariant, SeenIsQueue, Threads
<1>3. Append(queue[s], t) \in Seq(Tick) /\ queue[s] \in Seq(Tick) /\ delivered[s] \in Seq(Tick)
  BY <1>1, AppendProperties DEF LineTypes
<1>4. /\ Line(s)' = Append(Line(s), t)
      /\ \A r \in Shards : r # s => Line(r)' = Line(r)
  <2>1. queue'[s] = Append(queue[s], t) /\ delivered'[s] = delivered[s]
    BY <1>1, <1>2 DEF LineTypes
  <2>2. delivered[s] \o Append(queue[s], t) = Append(delivered[s] \o queue[s], t)
    BY <1>3, TickJoins
  <2> QED
    BY <1>1, <1>2, <2>1, <2>2 DEF Line, LineTypes
<1>5. Line(s) \in Seq(Tick)
  BY <1>1, LinesTyped
<1> QED
  BY <1>1, <1>2, <1>4, <1>5 DEF Joins

LEMMA PushKeepsTicks ==
  ASSUME RouterInvariant, NEW f \in Feeds, Push(f)
  PROVE  LineTypes' /\ FeedCalls' /\ TicksKept'
<1> USE DEF RouterInvariant
<1>0. PICK s \in Shards, t \in Tick : Joins(f, s, t)
  BY PushJoins
<1>1. /\ s \in Shards /\ t \in Tick /\ call[f] # NoCall /\ call[f].shard = s /\ call[f].tick = t
      /\ t.feed = f /\ t.number = sent[f] /\ s = ShardForSymbol(t.symbol)
  BY <1>0 DEF Joins
<1>2. /\ queue' = [queue EXCEPT ![s] = Append(queue[s], t)]
      /\ call' = [call EXCEPT ![f] = NoCall] /\ UNCHANGED <<sent, delivered>>
  BY <1>0 DEF Joins
<1>3. Append(queue[s], t) \in Seq(Tick) /\ queue[s] \in Seq(Tick) /\ delivered[s] \in Seq(Tick)
  BY <1>1, AppendProperties DEF LineTypes
<1>4. LineTypes'
  BY <1>1, <1>2, <1>3 DEF LineTypes
<1>5. FeedCalls'
  BY <1>2 DEF FeedCalls, LockInvariant, LockTypes, Threads
<1>6. /\ Line(s)' = Append(Line(s), t)
      /\ \A r \in Shards : r # s => Line(r)' = Line(r)
  BY <1>0 DEF Joins
<1>7. /\ Line(s) \in Seq(Tick) /\ Len(Line(s)) \in Nat
      /\ DOMAIN Line(s) = 1 .. Len(Line(s))
      /\ DOMAIN Line(s)' = 1 .. Len(Line(s)) + 1
      /\ Line(s)'[Len(Line(s)) + 1] = t
      /\ \A i \in DOMAIN Line(s) : Line(s)'[i] = Line(s)[i] /\ Line(s)[i] \in Tick
  <2>1. Line(s) \in Seq(Tick)
    BY <1>1, LinesTyped
  <2> QED
    BY <1>1, <1>6, <2>1, AppendProperties, LenProperties
<1>8. /\ sent[f] \in Nat /\ sent[f] >= 1
      /\ Dispatched(f) = 1 .. sent[f] - 1 /\ Dispatched(f)' = 1 .. sent[f]
      /\ \A g \in Feeds : g # f => Dispatched(g)' = Dispatched(g)
  <2>1. sent[f] \in 1 .. MaxPerFeed /\ MaxPerFeed \in Nat
    BY <1>1, RouterAssumption DEF Tick
  <2> QED
    BY <1>1, <1>2, <2>1 DEF Dispatched, LockInvariant, LockTypes, Threads
(* Every tick of f that is on a line already has a lower number.           *)
<1>9. \A r \in Shards : \A i \in DOMAIN Line(r) :
        Line(r)[i].feed = f => Line(r)[i].number < sent[f]
  BY <1>8 DEF TicksKept, Complete
<1>10. InOrder'
  <2>1. ASSUME NEW r \in Shards, r # s
        PROVE  \A i, j \in DOMAIN Line(r)' :
                 /\ ShardForSymbol(Line(r)'[i].symbol) = r
                 /\ i < j /\ Line(r)'[i].feed = Line(r)'[j].feed =>
                      Line(r)'[i].number < Line(r)'[j].number
    BY <1>6, <2>1 DEF TicksKept, InOrder
  <2>2. ASSUME NEW i \in DOMAIN Line(s)', NEW j \in DOMAIN Line(s)'
        PROVE  /\ ShardForSymbol(Line(s)'[i].symbol) = s
               /\ i < j /\ Line(s)'[i].feed = Line(s)'[j].feed =>
                    Line(s)'[i].number < Line(s)'[j].number
    <3>1. ShardForSymbol(Line(s)'[i].symbol) = s
      BY <1>1, <1>7 DEF TicksKept, InOrder
    <3>2. CASE i \in DOMAIN Line(s) /\ j \in DOMAIN Line(s)
      BY <1>1, <1>7, <3>1, <3>2 DEF TicksKept, InOrder
    <3>3. CASE i \in DOMAIN Line(s) /\ j = Len(Line(s)) + 1
      BY <1>1, <1>7, <1>9, <3>1, <3>3
    <3>4. CASE i = Len(Line(s)) + 1
      BY <1>7, <3>1, <3>4
    <3> QED
      BY <1>7, <3>2, <3>3, <3>4
  <2> QED
    BY <2>1, <2>2 DEF InOrder, ShardForSymbol
<1>11. ASSUME NEW g \in Feeds, NEW n \in Dispatched(g)'
       PROVE  \E r \in Shards : \E i \in DOMAIN Line(r)' :
                SameTick(Line(r)'[i], [feed |-> g, number |-> n])
  <2>1. CASE g = f /\ n = sent[f]
    BY <1>1, <1>7, <2>1 DEF SameTick
  <2>2. CASE ~(g = f /\ n = sent[f])
    <3>1. n \in Dispatched(g)
      BY <1>8, <1>11, <2>2
    <3>2. PICK r \in Shards : \E i \in DOMAIN Line(r) :
            SameTick(Line(r)[i], [feed |-> g, number |-> n])
      BY <3>1 DEF TicksKept, Complete
    <3>3. PICK i \in DOMAIN Line(r) : SameTick(Line(r)[i], [feed |-> g, number |-> n])
      BY <3>2
    <3>4. i \in DOMAIN Line(r)' /\ Line(r)'[i] = Line(r)[i]
      BY <1>6, <1>7
    <3> QED
      BY <3>3, <3>4
  <2> QED
    BY <2>1, <2>2
<1>12. ASSUME NEW r \in Shards, NEW i \in DOMAIN Line(r)'
       PROVE  \/ i \in DOMAIN Line(r) /\ Line(r)'[i] = Line(r)[i]
              \/ r = s /\ Line(r)'[i] = t
  BY <1>6, <1>7
<1>13. ASSUME NEW r \in Shards, NEW q \in Shards, NEW i \in DOMAIN Line(r)', NEW j \in DOMAIN Line(q)'
       PROVE  /\ \E g \in Feeds : Line(r)'[i].feed = g /\ Line(r)'[i].number \in Dispatched(g)'
              /\ r # q => ~SameTick(Line(r)'[i], Line(q)'[j])
  <2>1. \E g \in Feeds : Line(r)'[i].feed = g /\ Line(r)'[i].number \in Dispatched(g)'
    <3>1. CASE i \in DOMAIN Line(r) /\ Line(r)'[i] = Line(r)[i]
      <4>1. Line(r)[i].number \in Dispatched(Line(r)[i].feed) /\ Line(r)[i].feed \in Feeds
        BY <3>1, LinesTyped DEF TicksKept, Complete, Tick
      <4> QED
        BY <1>8, <3>1, <4>1
    <3>2. CASE Line(r)'[i] = t
      BY <1>1, <1>8, <3>2
    <3> QED
      BY <1>12, <3>1, <3>2
  <2>2. ASSUME r # q
        PROVE  ~SameTick(Line(r)'[i], Line(q)'[j])
    <3>1. CASE i \in DOMAIN Line(r) /\ Line(r)'[i] = Line(r)[i]
      <4>1. CASE j \in DOMAIN Line(q) /\ Line(q)'[j] = Line(q)[j]
        BY <2>2, <3>1, <4>1 DEF TicksKept, Complete
      <4>2. CASE Line(q)'[j] = t
        BY <1>1, <1>8, <1>9, <3>1, <4>2 DEF SameTick
      <4> QED
        BY <1>12, <4>1, <4>2
    <3>2. CASE r = s /\ Line(r)'[i] = t
      <4>1. j \in DOMAIN Line(q) /\ Line(q)'[j] = Line(q)[j]
        BY <1>12, <2>2, <3>2
      <4> QED
        BY <1>1, <1>8, <1>9, <3>2, <4>1 DEF SameTick
    <3> QED
      BY <1>12, <3>1, <3>2
  <2> QED
    BY <2>1, <2>2
<1> QED
  BY <1>4, <1>5, <1>10, <1>11, <1>13 DEF TicksKept, Complete, SameTick, Dispatched

(* A tick that is popped moves along the line of its shard.                *)
Leaves(w, s) ==
  /\ queue[s] # << >>
  /\ delivered' = [delivered EXCEPT ![s] = Append(delivered[s], Head(queue[s]))]
  /\ queue' = [queue EXCEPT ![s] = Tail(queue[s])]
  /\ call' = [call EXCEPT ![w] = NoCall] /\ sent' = sent
  /\ \A r \in Shards : Line(r)' = Line(r)

LEMMA PopLeaves ==
  ASSUME RouterInvariant, NEW w \in Workers, Pop(w)
  PROVE  LineTypes' /\ FeedCalls' /\ TicksKept' /\ \E s \in Shards : Leaves(w, s)
<1> DEFINE s == call[w].shard
<1>0. LockInvariant /\ LineTypes /\ FeedCalls /\ TicksKept
  BY DEF RouterInvariant
<1>1. w \in Threads /\ w \notin Feeds /\ s \in Shards
  <2>1. w \in Threads /\ w \notin Feeds /\ call[w] \in Calls /\ call[w] # NoCall
    BY <1>0, RouterAssumption DEF Pop, NoCall, Threads, Workers, LockInvariant, LockTypes
  <2> QED
    BY <2>1 DEF Calls
<1>2. /\ queue[s] # << >>
      /\ delivered' = [delivered EXCEPT ![s] = Append(delivered[s], Head(queue[s]))]
      /\ queue' = [queue EXCEPT ![s] = Tail(queue[s])]
      /\ call' = [call EXCEPT ![w] = NoCall] /\ sent' = sent
  <2>1. seen[w] = queue[s]
    BY <1>0, <1>1 DEF Pop, LockInvariant, SeenIsQueue
  <2> QED
    BY <2>1 DEF Pop, Release
<1>3. /\ Append(delivered[s], Head(queue[s])) \in Seq(Tick) /\ Tail(queue[s]) \in Seq(Tick)
      /\ Append(delivered[s], Head(queue[s])) \o Tail(queue[s]) = delivered[s] \o queue[s]
  <2>1. delivered[s] \in Seq(Tick) /\ queue[s] \in Seq(Tick)
    BY <1>0, <1>1 DEF LineTypes
  <2> HIDE DEF s
  <2> QED
    BY <1>2, <2>1, TickMoves
<1>4. LineTypes'
  BY <1>0, <1>1, <1>2, <1>3 DEF LineTypes
<1>5. \A f \in Feeds : call'[f] = call[f]
  <2> SUFFICES ASSUME NEW f \in Feeds PROVE call'[f] = call[f]
    OBVIOUS
  <2>1. f # w /\ call' = [call EXCEPT ![w] = NoCall]
    BY <1>1, <1>2
  <2>2. DOMAIN call = Threads /\ f \in Threads
    BY <1>0 DEF LockInvariant, LockTypes, Threads
  <2> QED
    BY <2>1, <2>2
<1>6. FeedCalls' /\ \A f \in Feeds : Dispatched(f)' = Dispatched(f)
  <2>1. ASSUME NEW f \in Feeds PROVE Dispatched(f)' = Dispatched(f)
    <3>1. call'[f] = call[f] /\ sent'[f] = sent[f]
      BY <1>2, <1>5
    <3> QED
      BY <3>1 DEF Dispatched
  <2>2. FeedCalls'
    <3>1. ASSUME NEW f \in Feeds, call'[f] # NoCall
          PROVE  /\ call'[f].tick \in Tick
                 /\ call'[f].tick.feed = f /\ call'[f].tick.number = sent'[f]
                 /\ call'[f].shard = ShardForSymbol(call'[f].tick.symbol)
      <4>1. call'[f] = call[f] /\ sent'[f] = sent[f]
        BY <1>2, <1>5
      <4>2. /\ call[f].tick \in Tick
            /\ call[f].tick.feed = f /\ call[f].tick.number = sent[f]
            /\ call[f].shard = ShardForSymbol(call[f].tick.symbol)
        BY <1>0, <3>1, <4>1, Zenon DEF FeedCalls
      <4> QED
        BY <4>1, <4>2
    <3> QED
      BY <3>1, Zenon DEF FeedCalls
  <2> QED
    BY <2>1, <2>2
<1>7. ASSUME NEW r \in Shards PROVE Line(r)' = Line(r)
  <2>1. CASE r = s
    <3>1. delivered'[s] = Append(delivered[s], Head(queue[s])) /\ queue'[s] = Tail(queue[s])
      BY <1>0, <1>1, <1>2 DEF LineTypes
    <3> QED
      BY <1>3, <2>1, <3>1 DEF Line
  <2>2. CASE r # s
    <3>1. delivered'[r] = delivered[r] /\ queue'[r] = queue[r]
      BY <1>0, <1>2, <2>2 DEF LineTypes
    <3> QED
      BY <3>1 DEF Line
  <2> QED
    BY <2>1, <2>2, Zenon
<1>8. Leaves(w, s)
  BY <1>2, <1>7 DEF Leaves
<1> QED
  BY <1>0, <1>1, <1>4, <1>6, <1>7, <1>8, LinesUnmoved

LEMMA StepKeepsTicks == RouterInvariant /\ [Next]_vars => RouterInvariant'
<1> SUFFICES ASSUME RouterInvariant, [Next]_vars PROVE RouterInvariant'
  OBVIOUS
<1> USE DEF RouterInvariant
<1>a. LockInvariant'
  BY StepKeepsLocks
<1>b. ASSUME UNCHANGED <<queue, delivered>>, FeedCalls',
             \A f \in Feeds : Dispatched(f)' = Dispatched(f)
      PROVE  RouterInvariant'
  <2>1. LineTypes' /\ \A s \in Shards : Line(s)' = Line(s)
    BY <1>b DEF LineTypes, Line
  <2> QED
    BY <1>a, <1>b, <2>1, LinesUnmoved
<1>1. ASSUME NEW f \in Feeds, NEW id \in SymbolIds, CallDispatch(f, id)
      PROVE  RouterInvariant'
  <2> DEFINE c == [pc |-> "lock", shard |-> ShardForSymbol(id),
                   tick |-> [feed |-> f, number |-> sent[f] + 1, symbol |-> id]]
  <2>1. /\ call[f] = NoCall /\ c # NoCall
        /\ sent' = [sent EXCEPT ![f] = sent[f] + 1] /\ call' = [call EXCEPT ![f] = c]
        /\ UNCHANGED <<queue, delivered>>
    BY <1>1 DEF CallDispatch, NoCall, LockInvariant, LockTypes
  <2>2. sent[f] + 1 \in 1 .. MaxPerFeed /\ sent'[f] = sent[f] + 1 /\ call'[f] = c
    BY <1>1, <2>1, RouterAssumption DEF CallDispatch, LockInvariant, LockTypes, Threads
  <2>3. FeedCalls'
    BY <2>1, <2>2 DEF FeedCalls, Tick, LockInvariant, LockTypes, Threads
  <2>4. \A g \in Feeds : Dispatched(g)' = Dispatched(g)
    BY <2>1, <2>2 DEF Dispatched, LockInvariant, LockTypes, Threads
  <2> QED
    BY <1>b, <2>1, <2>3, <2>4
<1>2. ASSUME NEW w \in Workers, CallTryPop(w) \/ PopEmpty(w)
      PROVE  RouterInvariant'
  <2>1. w \notin Feeds /\ w \in Threads
    BY RouterAssumption DEF Workers, Threads
  <2>2. /\ UNCHANGED <<queue, delivered, sent>>
        /\ \A f \in Feeds : call'[f] = call[f]
    BY <1>2, <2>1 DEF CallTryPop, PopEmpty, Release, LockInvariant, LockTypes, Threads
  <2> QED
    BY <1>b, <2>2 DEF FeedCalls, Dispatched
<1>3. ASSUME NEW t \in Threads, Acquire(t)
      PROVE  RouterInvariant'
  <2>1. /\ UNCHANGED <<queue, delivered, sent>> /\ call[t].pc = "lock"
        /\ call' = [call EXCEPT ![t] = [call[t] EXCEPT !.pc = "held"]]
    BY <1>3 DEF Acquire
  <2>2. call[t] \in Calls /\ call[t] # NoCall
    BY <2>1 DEF LockInvariant, LockTypes, NoCall
  <2>3. [call[t] EXCEPT !.pc = "held"].pc = "held"
        /\ [call[t] EXCEPT !.pc = "held"].shard = call[t].shard
    BY <2>2 DEF Calls, NoCall
  <2>4. [call[t] EXCEPT !.pc = "held"] # NoCall
    BY <2>3 DEF NoCall
  <2>5. ASSUME t \in Feeds
        PROVE  [call[t] EXCEPT !.pc = "held"].tick = call[t].tick
    OBVIOUS
  <2>6. \A f \in Feeds : Dispatched(f)' = Dispatched(f)
    BY <2>1, <2>2, <2>4 DEF Dispatched, LockInvariant, LockTypes, Threads
  <2>7. FeedCalls'
    BY <2>1, <2>2, <2>3, <2>5 DEF FeedCalls, LockInvariant, LockTypes, Threads
  <2> QED
    BY <1>b, <2>1, <2>6, <2>7
<1>4. ASSUME NEW f \in Feeds, Push(f)
      PROVE  RouterInvariant'
  BY <1>a, <1>4, PushKeepsTicks
<1>5. ASSUME NEW w \in Workers, Pop(w)
      PROVE  RouterInvariant'
  BY <1>a, <1>5, PopLeaves
<1>6. CASE UNCHANGED vars
  BY <1>b, <1>6 DEF vars, FeedCalls, Dispatched
<1> QED
  BY <1>1, <1>2, <1>3, <1>4, <1>5, <1>6 DEF Next, Feed, Work, Threads

LEMMA RouterInvariantHolds == Spec => []RouterInvariant
<1>1. Init => RouterInvariant
  <2> SUFFICES ASSUME Init PROVE RouterInvariant
    OBVIOUS
  <2>1. LineTypes /\ FeedCalls /\ \A s \in Shards : Line(s) = << >>
    BY DEF Init, LineTypes, FeedCalls, Line, Threads
  <2>2. \A f \in Feeds : Dispatched(f) = {}
    BY DEF Init, Dispatched, Threads
  <2>3. TicksKept
    BY <2>1, <2>2 DEF TicksKept, InOrder, Complete
  <2> QED
    BY <2>1, <2>3, BeginsWithoutLocks DEF RouterInvariant
<1> QED
  BY <1>1, StepKeepsTicks, PTL DEF Spec

(* Whatever the number of shards, feeds, symbols and workers: every tick   *)
(* that was dispatched is on the line of its symbol's shard, once, and the *)
(* ticks of a feed are in order there.                                     *)
THEOREM NoTickLostOrReordered == Spec => []TicksKept
<1>1. RouterInvariant => TicksKept
  BY DEF RouterInvariant
<1> QED
  BY <1>1, RouterInvariantHolds, PTL

---------------------------------------------------------------------------
(* Without shards, queues and mutexes: TickRouter implements OrderedStreams. *)
(* A tick is sent when push_back puts it on the line of its shard and taken  *)
(* when front and pop_front return it; every other step is a stutter.        *)
SentTicks == {t \in Tick : \E s \in Shards : \E i \in DOMAIN Line(s) : t = Line(s)[i]}
TakenTicks == {t \in Tick : \E s \in Shards : \E i \in DOMAIN delivered[s] : t = delivered[s][i]}

Streams == INSTANCE OrderedStreams WITH sent <- SentTicks, taken <- TakenTicks

(* A line begins with what was delivered.                                  *)
LEMMA LineParts ==
  ASSUME LineTypes, NEW s \in Shards
  PROVE  \E m, n \in Nat :
           /\ DOMAIN delivered[s] = 1 .. m /\ DOMAIN Line(s) = 1 .. m + n
           /\ (n = 0 <=> queue[s] = << >>)
           /\ n # 0 => Line(s)[m + 1] = Head(queue[s])
           /\ \A i \in 1 .. m : Line(s)[i] = delivered[s][i]
           /\ \A i \in 1 .. m + n : Line(s)[i] \in Tick
<1> DEFINE d == delivered[s]
           q == queue[s]
           l == Line(s)
<1>1. d \in Seq(Tick) /\ q \in Seq(Tick) /\ l = d \o q
  BY DEF LineTypes, Line
<1>2. l \in Seq(Tick)
  BY LinesTyped
<1> HIDE DEF d, q, l
<1>3. PICK m, n \in Nat : m = Len(d) /\ n = Len(q)
  BY <1>1, LenProperties
<1>4. /\ DOMAIN d = 1 .. m /\ DOMAIN l = 1 .. m + n /\ Len(l) = m + n
      /\ \A i \in 1 .. m + n : l[i] = IF i <= m THEN d[i] ELSE q[i - m]
  BY <1>1, <1>3, ConcatProperties, LenProperties
<1>5. n = 0 <=> q = << >>
  BY <1>1, <1>3, EmptySeq
<1>6. ASSUME n # 0 PROVE l[m + 1] = Head(q)
  <2>1. m + 1 \in 1 .. m + n /\ ~(m + 1 <= m) /\ (m + 1) - m = 1
    BY <1>6
  <2>2. Head(q) = q[1]
    BY DEF Head
  <2> QED
    BY <1>4, <2>1, <2>2
<1>7. \A i \in 1 .. m : l[i] = d[i]
  BY <1>4
<1>8. \A i \in 1 .. m + n : l[i] \in Tick
  BY <1>2, <1>4, ElementOfSeq
<1> QED
  BY <1>4, <1>5, <1>6, <1>7, <1>8 DEF d, q, l

LEMMA SentAre ==
  ASSUME LineTypes, NEW s \in Shards, NEW i \in DOMAIN Line(s)
  PROVE  Line(s)[i] \in Tick /\ Line(s)[i] \in SentTicks
BY LinesTyped DEF SentTicks

(* Before a feed's latest tick is put on a line, all its earlier ones are. *)
LEMMA PushSends ==
  ASSUME RouterInvariant, NEW f \in Feeds, Push(f)
  PROVE  \E t \in Tick : Streams!Send(t)
<1>0. LockInvariant /\ LineTypes /\ FeedCalls /\ Complete
  BY DEF RouterInvariant, TicksKept
<1>1. PICK s \in Shards, t \in Tick : Joins(f, s, t)
  BY PushJoins
<1>2. /\ t.feed = f /\ t.number = sent[f] /\ call[f] # NoCall
      /\ Line(s) \in Seq(Tick) /\ Line(s)' = Append(Line(s), t) /\ delivered' = delivered
      /\ \A r \in Shards : r # s => Line(r)' = Line(r)
  BY <1>1 DEF Joins
<1>3. Dispatched(f) = 1 .. t.number - 1
  BY <1>2 DEF Dispatched
<1>4. {u.number : u \in {v \in SentTicks : v.feed = t.feed}} = 1 .. t.number - 1
  <2>1. ASSUME NEW u \in SentTicks, u.feed = f PROVE u.number \in 1 .. t.number - 1
    <3>0. PICK r \in Shards : \E i \in DOMAIN Line(r) : u = Line(r)[i]
      BY DEF SentTicks
    <3>1. PICK i \in DOMAIN Line(r) : u = Line(r)[i]
      BY <3>0
    <3>2. Line(r)[i].number \in Dispatched(Line(r)[i].feed)
      BY <1>0, <3>1 DEF Complete
    <3> QED
      BY <1>3, <2>1, <3>1, <3>2
  <2>2. ASSUME NEW n \in 1 .. t.number - 1
        PROVE  \E u \in SentTicks : u.feed = f /\ u.number = n
    <3>1. n \in Dispatched(f)
      BY <1>3
    <3>0. PICK r \in Shards :
            \E i \in DOMAIN Line(r) : SameTick(Line(r)[i], [feed |-> f, number |-> n])
      BY <1>0, <3>1 DEF Complete
    <3>2. PICK i \in DOMAIN Line(r) : SameTick(Line(r)[i], [feed |-> f, number |-> n])
      BY <3>0
    <3>3. Line(r)[i] \in SentTicks
      BY <1>0, SentAre
    <3> QED
      BY <3>2, <3>3 DEF SameTick
  <2> QED
    BY <1>2, <2>1, <2>2
<1>5. SentTicks' = SentTicks \cup {t}
  <2>1. PICK n \in Nat :
          /\ DOMAIN Line(s) = 1 .. n /\ DOMAIN Line(s)' = 1 .. n + 1
          /\ Line(s)'[n + 1] = t /\ \A i \in 1 .. n : Line(s)'[i] = Line(s)[i]
    BY <1>2, AppendProperties, LenProperties
  <2>2. ASSUME NEW u \in SentTicks PROVE u \in SentTicks'
    <3>0. PICK r \in Shards : \E i \in DOMAIN Line(r) : u = Line(r)[i]
      BY DEF SentTicks
    <3>1. PICK i \in DOMAIN Line(r) : u = Line(r)[i]
      BY <3>0
    <3>2. i \in DOMAIN Line(r)' /\ Line(r)'[i] = Line(r)[i]
      BY <1>2, <2>1
    <3>3. u \in Tick
      BY DEF SentTicks
    <3> QED
      BY <3>1, <3>2, <3>3 DEF SentTicks
  <2>3. t \in SentTicks'
    BY <2>1 DEF SentTicks
  <2>4. ASSUME NEW u \in SentTicks' PROVE u \in SentTicks \cup {t}
    <3>1. u \in Tick
      BY DEF SentTicks
    <3>2. PICK r \in Shards : \E i \in DOMAIN Line(r)' : u = Line(r)'[i]
      BY DEF SentTicks
    <3>3. PICK i \in DOMAIN Line(r)' : u = Line(r)'[i]
      BY <3>2
    <3>4. CASE r = s /\ i = n + 1
      BY <2>1, <3>3, <3>4
    <3>5. CASE ~(r = s /\ i = n + 1)
      <4>1. i \in DOMAIN Line(r) /\ Line(r)'[i] = Line(r)[i]
        BY <1>2, <2>1, <3>5
      <4> QED
        BY <3>1, <3>3, <4>1 DEF SentTicks
    <3> QED
      BY <3>4, <3>5
  <2> QED
    BY <2>2, <2>3, <2>4
<1>6. TakenTicks' = TakenTicks
  BY <1>2 DEF TakenTicks
<1> QED
  BY <1>4, <1>5, <1>6 DEF Streams!Send

(* The head of a queue is the first of its stream: ticks of one symbol are *)
(* on one line, and a line is in the order its feeds dispatched.           *)
LEMMA PopTakes ==
  ASSUME RouterInvariant, NEW w \in Workers, Pop(w)
  PROVE  \E t \in Tick : Streams!Take(t)
<1>0. LineTypes /\ InOrder /\ Complete
  BY DEF RouterInvariant, TicksKept
<1>1. PICK s \in Shards : Leaves(w, s)
  BY PopLeaves
<1>2. /\ queue[s] # << >> /\ delivered' = [delivered EXCEPT ![s] = Append(delivered[s], Head(queue[s]))]
      /\ \A r \in Shards : Line(r)' = Line(r)
  BY <1>1 DEF Leaves
<1>3. PICK m, n \in Nat :
        /\ DOMAIN delivered[s] = 1 .. m /\ DOMAIN Line(s) = 1 .. m + n
        /\ (n = 0 <=> queue[s] = << >>)
        /\ n # 0 => Line(s)[m + 1] = Head(queue[s])
        /\ \A i \in 1 .. m : Line(s)[i] = delivered[s][i]
        /\ \A i \in 1 .. m + n : Line(s)[i] \in Tick
  BY <1>0, LineParts
<1> DEFINE t == Line(s)[m + 1]
<1>4. m + 1 \in DOMAIN Line(s) /\ t = Head(queue[s]) /\ t \in Tick
  <2>1. n # 0
    BY <1>2, <1>3
  <2>2. m + 1 \in 1 .. m + n
    BY <2>1
  <2> QED
    BY <1>3, <2>1, <2>2
<1>5. /\ DOMAIN delivered'[s] = 1 .. m + 1 /\ delivered'[s][m + 1] = t
      /\ \A i \in 1 .. m : delivered'[s][i] = delivered[s][i]
      /\ \A r \in Shards : r # s => delivered'[r] = delivered[r]
  <2>1. delivered[s] \in Seq(Tick) /\ DOMAIN delivered = Shards
    BY <1>0 DEF LineTypes
  <2>2. delivered'[s] = Append(delivered[s], t)
    BY <1>2, <1>4, <2>1
  <2>3. \A r \in Shards : r # s => delivered'[r] = delivered[r]
    BY <1>2, <2>1
  <2>4. Len(delivered[s]) = m
    BY <1>3, <2>1, LenProperties
  <2> HIDE DEF t
  <2> QED
    BY <1>4, <2>1, <2>2, <2>3, <2>4, AppendProperties, LenProperties
<1>6. t \in SentTicks
  BY <1>0, <1>4, SentAre
(* No place of any line holds this tick again.                             *)
<1>7. ASSUME NEW r \in Shards, NEW i \in DOMAIN Line(r), Line(r)[i] = t
      PROVE  r = s /\ i = m + 1
  <2>1. r = s
    BY <1>0, <1>4, <1>7 DEF Complete, SameTick
  <2>2. i \in Int /\ m + 1 \in Int /\ i \in DOMAIN Line(s)
    BY <1>3, <2>1
  <2>3. ~(i < m + 1) /\ ~(m + 1 < i)
    <3>1. t.number \in Int
      BY <1>4 DEF Tick
    <3> QED
      BY <1>0, <1>4, <1>7, <2>1, <2>2, <3>1 DEF InOrder
  <2> QED
    BY <2>1, <2>2, <2>3
<1>8. t \notin TakenTicks
  <2> SUFFICES ASSUME NEW r \in Shards, NEW i \in DOMAIN delivered[r], t = delivered[r][i]
               PROVE  FALSE
    BY DEF TakenTicks
  <2>1. PICK k, l \in Nat :
          /\ DOMAIN delivered[r] = 1 .. k /\ DOMAIN Line(r) = 1 .. k + l
          /\ \A j \in 1 .. k : Line(r)[j] = delivered[r][j]
    BY <1>0, LineParts
  <2>2. i \in DOMAIN Line(r) /\ Line(r)[i] = t
    BY <2>1
  <2>3. r = s /\ i = m + 1
    BY <1>7, <2>2
  <2> QED
    BY <1>3, <2>3
<1>9. ASSUME NEW u \in SentTicks, u \notin TakenTicks, u.feed = t.feed, u.symbol = t.symbol
      PROVE  t.number <= u.number
  <2>1. u \in Tick
    BY DEF SentTicks
  <2>2. PICK r \in Shards : \E i \in DOMAIN Line(r) : u = Line(r)[i]
    BY DEF SentTicks
  <2>3. PICK i \in DOMAIN Line(r) : u = Line(r)[i]
    BY <2>2
  <2>4. r = s
    BY <1>0, <1>4, <1>9, <2>3 DEF InOrder
  <2>5. i \in 1 .. m + n /\ ~(i <= m)
    <3>1. i \in 1 .. m + n
      BY <1>3, <2>3, <2>4
    <3>2. i \notin 1 .. m
      BY <1>3, <1>9, <2>1, <2>3, <2>4 DEF TakenTicks
    <3> QED
      BY <3>1, <3>2
  <2>6. i = m + 1 \/ m + 1 < i
    BY <2>5
  <2>7. t.number \in Int /\ u.number \in Int
    BY <1>4, <2>1 DEF Tick
  <2>8. CASE i = m + 1
    BY <2>3, <2>4, <2>7, <2>8
  <2>9. CASE m + 1 < i
    <3>1. t.number < u.number
      BY <1>0, <1>4, <1>9, <2>3, <2>4, <2>9 DEF InOrder
    <3> QED
      BY <2>7, <3>1
  <2> QED
    BY <2>6, <2>8, <2>9
<1>10. TakenTicks' = TakenTicks \cup {t}
  <2>1. ASSUME NEW u \in TakenTicks PROVE u \in TakenTicks'
    <3>1. u \in Tick
      BY DEF TakenTicks
    <3>2. PICK r \in Shards : \E i \in DOMAIN delivered[r] : u = delivered[r][i]
      BY DEF TakenTicks
    <3>3. PICK i \in DOMAIN delivered[r] : u = delivered[r][i]
      BY <3>2
    <3>4. i \in DOMAIN delivered'[r] /\ delivered'[r][i] = delivered[r][i]
      <4>1. CASE r = s
        <5>1. i \in 1 .. m
          BY <1>3, <3>3, <4>1
        <5> QED
          BY <1>5, <4>1, <5>1
      <4>2. CASE r # s
        BY <1>5, <3>3, <4>2
      <4> QED
        BY <4>1, <4>2
    <3> QED
      BY <3>1, <3>3, <3>4 DEF TakenTicks
  <2>2. t \in TakenTicks'
    BY <1>4, <1>5 DEF TakenTicks
  <2>3. ASSUME NEW u \in TakenTicks' PROVE u \in TakenTicks \cup {t}
    <3>1. u \in Tick
      BY DEF TakenTicks
    <3>2. PICK r \in Shards : \E i \in DOMAIN delivered'[r] : u = delivered'[r][i]
      BY DEF TakenTicks
    <3>3. PICK i \in DOMAIN delivered'[r] : u = delivered'[r][i]
      BY <3>2
    <3>4. CASE r = s /\ i = m + 1
      BY <1>5, <3>3, <3>4
    <3>5. CASE ~(r = s /\ i = m + 1)
      <4>1. i \in DOMAIN delivered[r] /\ delivered'[r][i] = delivered[r][i]
        <5>1. CASE r = s
          <6>1. i \in 1 .. m + 1 /\ i # m + 1
            BY <1>5, <3>3, <3>5, <5>1
          <6>2. i \in 1 .. m
            BY <6>1
          <6> QED
            BY <1>3, <1>5, <5>1, <6>2
        <5>2. CASE r # s
          BY <1>5, <3>3, <5>2
        <5> QED
          BY <5>1, <5>2
      <4> QED
        BY <3>1, <3>3, <4>1 DEF TakenTicks
    <3> QED
      BY <3>4, <3>5
  <2> QED
    BY <2>1, <2>2, <2>3
<1>11. SentTicks' = SentTicks
  BY <1>2 DEF SentTicks
<1>12. Streams!Take(t)
  <2> HIDE DEF t
  <2> QED
    BY <1>6, <1>8, <1>9, <1>10, <1>11 DEF Streams!Take, Streams!SameStream
<1> QED
  BY <1>4, <1>12

(* For any number of shards, feeds, symbols and workers, a feed and a      *)
(* symbol see a first-in first-out stream of their own: dispatch() and     *)
(* try_pop() neither lose, repeat nor overtake a tick of it, whichever     *)
(* symbols share its shard and whichever workers pop it.                   *)
THEOREM RouterImplementsStreams == Spec => Streams!Spec
<1>1. Init => Streams!Init
  <2> SUFFICES ASSUME Init PROVE Streams!Init
    OBVIOUS
  <2>1. \A s \in Shards : DOMAIN Line(s) = {} /\ DOMAIN delivered[s] = {}
    BY EmptySeq DEF Init, Line
  <2> QED
    BY <2>1 DEF Streams!Init, SentTicks, TakenTicks
<1>2. RouterInvariant /\ [Next]_vars => [Streams!Next]_(Streams!vars)
  <2> SUFFICES ASSUME RouterInvariant, [Next]_vars PROVE [Streams!Next]_(Streams!vars)
    OBVIOUS
  <2>1. ASSUME NEW f \in Feeds, Push(f) PROVE Streams!Next
    BY <2>1, PushSends DEF Streams!Next, Streams!Tick, Tick
  <2>2. ASSUME NEW w \in Workers, Pop(w) PROVE Streams!Next
    BY <2>2, PopTakes DEF Streams!Next, Streams!Tick, Tick
  <2>3. CASE UNCHANGED <<queue, delivered>>
    <3>1. \A s \in Shards : Line(s)' = Line(s) /\ delivered'[s] = delivered[s]
      BY <2>3 DEF Line
    <3> QED
      BY <3>1 DEF Streams!vars, SentTicks, TakenTicks
  <2> QED
    BY <2>1, <2>2, <2>3
       DEF Next, Feed, Work, vars, CallDispatch, CallTryPop, Acquire, PopEmpty
<1>3. Init /\ [][Next]_vars => []RouterInvariant
  BY RouterInvariantHolds DEF Spec
<1> QED
  BY <1>1, <1>2, <1>3, PTL DEF Spec, Streams!Spec
=============================================================================
