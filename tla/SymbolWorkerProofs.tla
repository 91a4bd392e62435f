------------------------ MODULE SymbolWorkerProofs ------------------------
(***************************************************************************)
(* Proofs about the lifecycle of SymbolWorker, for any number of callers   *)
(* and restarts and whether or not thread creation may fail: the ring has  *)
(* one consumer, the flag tells the truth, and start() never assigns onto  *)
(* a joinable thread.                                                      *)
(***************************************************************************)
EXTENDS SymbolWorker, SequenceTheorems, FiniteSetTheorems, TLAPS

(* Every variable the argument needs has its type.                         *)
LifecycleTypes ==
  /\ running \in BOOLEAN
  /\ handle \in Threads \cup {NoThread}
  /\ callPc \in [Callers -> {"idle", "spawn", "assign", "join"}]
  /\ newThread \in [Callers -> Threads \cup {NoThread}]
  /\ spawned \in 0 .. MaxThreads
  /\ loopPc \in [Threads -> {"unborn", "check", "pop", "stage", "exited"}]

(* Lifecycle calls exclude each other once past their first step.  Whoever *)
(* won the exchange in start() is alone until it has assigned worker_;     *)
(* before it creates a thread no loop is left, and afterwards the only     *)
(* loop is the one it is about to assign.                                  *)
StartAlone ==
  \A c \in Callers :
    callPc[c] \in {"spawn", "assign"} =>
      /\ running
      /\ handle = NoThread
      /\ \A d \in Callers : d # c => callPc[d] = "idle"
      /\ callPc[c] = "spawn" => \A t \in Threads : ~Active(t)
      /\ callPc[c] = "assign" =>
           /\ newThread[c] \in Threads
           /\ \A t \in Threads : Active(t) <=> t = newThread[c]

StopAlone ==
  \A c \in Callers :
    callPc[c] = "join" =>
      /\ ~running
      /\ \A d \in Callers : d # c => callPc[d] = "idle"

(* Outside start(), worker_ refers to the only loop there can be.          *)
HandleIsLoop ==
  (\A c \in Callers : callPc[c] \notin {"spawn", "assign"}) =>
    /\ \A t \in Threads : Active(t) => t = handle
    /\ running /\ handle # NoThread => Active(handle)
    /\ ~running /\ (\A c \in Callers : callPc[c] = "idle") => handle = NoThread

Unborn == \A t \in Threads : t > spawned => loopPc[t] = "unborn"

LifecycleInv ==
  /\ LifecycleTypes
  /\ StartAlone
  /\ StopAlone
  /\ HandleIsLoop
  /\ Unborn
  /\ ~terminated

LEMMA NoThreadIsNone == NoThread \notin Threads
BY WorkerAssumption DEF NoThread, Threads

LEMMA InitLifecycle == Init => LifecycleInv
<1> SUFFICES ASSUME Init
             PROVE  LifecycleInv
  OBVIOUS
<1>1. LifecycleTypes
  <2>1. running \in BOOLEAN /\ handle \in Threads \cup {NoThread}
    BY DEF Init
  <2>2. /\ callPc \in [Callers -> {"idle", "spawn", "assign", "join"}]
        /\ newThread \in [Callers -> Threads \cup {NoThread}]
        /\ loopPc \in [Threads -> {"unborn", "check", "pop", "stage", "exited"}]
    BY DEF Init
  <2>3. spawned \in 0 .. MaxThreads
    BY WorkerAssumption DEF Init
  <2> QED
    BY <2>1, <2>2, <2>3 DEF LifecycleTypes
<1>2. StartAlone /\ StopAlone
  BY DEF Init, StartAlone, StopAlone
<1>3. HandleIsLoop /\ Unborn
  BY DEF Init, HandleIsLoop, Unborn, Active
<1> QED
  BY <1>1, <1>2, <1>3 DEF Init, LifecycleInv

(* A loop that only moves on inside run(), or leaves it after a stop, does *)
(* not disturb the lifecycle.                                              *)
LEMMA LoopMoves ==
  ASSUME LifecycleInv, NEW t \in Threads, Active(t), UNCHANGED lifecycleVars,
         terminated' = terminated,
         NEW pc \in {"check", "pop", "stage", "exited"},
         pc = "exited" => ~running,
         loopPc' = [loopPc EXCEPT ![t] = pc]
  PROVE  LifecycleInv'
<1> USE NoThreadIsNone DEF lifecycleVars
<1>1. LifecycleTypes'
  BY DEF LifecycleInv, LifecycleTypes
<1>2. \A u \in Threads : Active(u)' => Active(u)
  BY DEF LifecycleInv, LifecycleTypes, Active
<1>3. \A u \in Threads : running => (Active(u)' <=> Active(u))
  BY DEF LifecycleInv, LifecycleTypes, Active
<1>4. StartAlone'
  BY <1>2, <1>3 DEF LifecycleInv, StartAlone
<1>5. StopAlone'
  BY DEF LifecycleInv, StopAlone
<1>6. HandleIsLoop'
  BY <1>2, <1>3 DEF LifecycleInv, LifecycleTypes, HandleIsLoop
<1>7. Unborn'
  BY DEF LifecycleInv, LifecycleTypes, Unborn, Active
<1> QED
  BY <1>1, <1>4, <1>5, <1>6, <1>7 DEF LifecycleInv

LEMMA LifecycleStep == LifecycleInv /\ [Next]_vars => LifecycleInv'
<1> SUFFICES ASSUME LifecycleInv, [Next]_vars
             PROVE  LifecycleInv'
  OBVIOUS
<1>a. /\ LifecycleTypes
      /\ StartAlone
      /\ StopAlone
      /\ HandleIsLoop
      /\ Unborn
      /\ ~terminated
  BY DEF LifecycleInv
(* Steps outside the lifecycle and the loop.                               *)
<1>b. ASSUME UNCHANGED <<lifecycleVars, loopPc, terminated>>
      PROVE  LifecycleInv'
  BY <1>a, <1>b
     DEF lifecycleVars, LifecycleInv, LifecycleTypes, StartAlone, StopAlone,
         HandleIsLoop, Unborn, Active
<1>1. ASSUME NEW index \in 0 .. StageCount, NEW given \in BOOLEAN, SetStage(index, given)
      PROVE  LifecycleInv'
  BY <1>1, <1>b DEF SetStage, loopVars
<1>2. ASSUME NEW given \in BOOLEAN, SetEventBus(given)
      PROVE  LifecycleInv'
  BY <1>2, <1>b DEF SetEventBus, loopVars
<1>3. CASE Submit
  BY <1>3, <1>b DEF Submit, loopVars
<1>4. ASSUME NEW c \in Callers, StartCas(c)
      PROVE  LifecycleInv'
  <2>1. /\ UNCHANGED <<handle, newThread, spawned, loopPc, terminated>>
        /\ ~running /\ running'
        /\ callPc[c] = "idle"
        /\ callPc' = [callPc EXCEPT ![c] = "spawn"]
        /\ \A d \in Callers : callPc[d] # "join"
    BY <1>4 DEF StartCas, loopVars, StopInProgress
  <2>2. \A d \in Callers : callPc[d] = "idle"
    BY <1>a, <2>1 DEF LifecycleTypes, StartAlone
  <2>3. handle = NoThread /\ \A t \in Threads : ~Active(t)
    BY <1>a, <2>1, <2>2, NoThreadIsNone DEF HandleIsLoop
  <2>4. \A t \in Threads : Active(t)' <=> Active(t)
    BY <2>1 DEF Active
  <2>5. callPc' [c] = "spawn" /\ \A d \in Callers : d # c => callPc'[d] = "idle"
    BY <1>a, <2>1, <2>2 DEF LifecycleTypes
  <2>6. LifecycleTypes'
    BY <1>4, <1>a, <2>1 DEF LifecycleTypes, StartCas
  <2>7. StartAlone' /\ StopAlone'
    BY <2>1, <2>3, <2>4, <2>5 DEF StartAlone, StopAlone
  <2>8. HandleIsLoop' /\ Unborn'
    BY <1>a, <2>1, <2>5 DEF HandleIsLoop, Unborn
  <2> QED
    BY <1>a, <2>1, <2>6, <2>7, <2>8 DEF LifecycleInv
<1>5. ASSUME NEW c \in Callers, Spawn(c)
      PROVE  LifecycleInv'
  <2>1. /\ UNCHANGED <<running, handle, terminated>>
        /\ callPc[c] = "spawn"
        /\ spawned < MaxThreads
        /\ spawned' = spawned + 1
        /\ newThread' = [newThread EXCEPT ![c] = spawned']
        /\ loopPc' = [loopPc EXCEPT ![spawned'] = "check"]
        /\ callPc' = [callPc EXCEPT ![c] = "assign"]
    BY <1>5 DEF Spawn
  <2>2. /\ running
        /\ handle = NoThread
        /\ \A d \in Callers : d # c => callPc[d] = "idle"
        /\ \A t \in Threads : ~Active(t)
    BY <1>a, <2>1 DEF StartAlone
  <2>3. spawned' \in Threads /\ spawned' \in 0 .. MaxThreads
    BY <1>a, <2>1, WorkerAssumption DEF LifecycleTypes, Threads
  <2>4. LifecycleTypes'
    BY <1>a, <2>1, <2>3 DEF LifecycleTypes
  <2>5. \A t \in Threads : Active(t)' <=> t = spawned'
    BY <1>a, <2>1, <2>2, <2>3 DEF LifecycleTypes, Active
  <2>6. /\ callPc'[c] = "assign"
        /\ newThread'[c] = spawned'
        /\ \A d \in Callers : d # c => callPc'[d] = "idle"
    BY <1>a, <2>1, <2>2 DEF LifecycleTypes
  <2>7. StartAlone' /\ StopAlone'
    BY <2>1, <2>2, <2>3, <2>5, <2>6 DEF StartAlone, StopAlone
  <2>8. HandleIsLoop'
    BY <2>6 DEF HandleIsLoop
  <2>9. Unborn'
    BY <1>a, <2>1, <2>3 DEF Unborn, LifecycleTypes, Threads
  <2> QED
    BY <1>a, <2>1, <2>4, <2>7, <2>8, <2>9 DEF LifecycleInv
<1>6. ASSUME NEW c \in Callers, SpawnFails(c)
      PROVE  LifecycleInv'
  <2>1. /\ UNCHANGED <<running, handle, newThread, spawned, loopPc, terminated>>
        /\ callPc[c] = "spawn"
        /\ callPc' = [callPc EXCEPT ![c] = "idle"]
    BY <1>6 DEF SpawnFails, loopVars
  <2>2. /\ running
        /\ handle = NoThread
        /\ \A d \in Callers : d # c => callPc[d] = "idle"
        /\ \A t \in Threads : ~Active(t)
    BY <1>a, <2>1 DEF StartAlone
  <2>3. \A d \in Callers : callPc'[d] = "idle"
    BY <1>a, <2>1, <2>2 DEF LifecycleTypes
  <2>4. LifecycleTypes'
    BY <1>a, <2>1 DEF LifecycleTypes
  <2>5. StartAlone' /\ StopAlone' /\ HandleIsLoop' /\ Unborn'
    BY <1>a, <2>1, <2>2, <2>3 DEF StartAlone, StopAlone, HandleIsLoop, Unborn, Active
  <2> QED
    BY <1>a, <2>1, <2>4, <2>5 DEF LifecycleInv
<1>7. ASSUME NEW c \in Callers, AssignHandle(c)
      PROVE  LifecycleInv'
  <2>1. /\ UNCHANGED <<running, spawned, loopPc>>
        /\ callPc[c] = "assign"
        /\ handle' = newThread[c]
        /\ newThread' = [newThread EXCEPT ![c] = NoThread]
        /\ terminated' = (handle # NoThread)
        /\ callPc' = [callPc EXCEPT ![c] = "idle"]
    BY <1>7 DEF AssignHandle, loopVars
  <2>2. /\ running
        /\ handle = NoThread
        /\ \A d \in Callers : d # c => callPc[d] = "idle"
        /\ newThread[c] \in Threads
        /\ \A t \in Threads : Active(t) <=> t = newThread[c]
    BY <1>a, <2>1 DEF StartAlone
  <2>3. \A d \in Callers : callPc'[d] = "idle"
    BY <1>a, <2>1, <2>2 DEF LifecycleTypes
  <2>4. LifecycleTypes'
    BY <1>a, <2>1, <2>2 DEF LifecycleTypes
  <2>5. \A t \in Threads : Active(t)' <=> Active(t)
    BY <2>1 DEF Active
  <2>6. Active(handle)'
    BY <2>1, <2>2 DEF Active
  <2>7. StartAlone' /\ StopAlone' /\ Unborn'
    BY <1>a, <2>1, <2>3 DEF StartAlone, StopAlone, Unborn
  <2>8. HandleIsLoop'
    BY <2>1, <2>2, <2>5, <2>6 DEF HandleIsLoop
  <2> QED
    BY <2>1, <2>2, <2>4, <2>7, <2>8 DEF LifecycleInv
<1>8. ASSUME NEW c \in Callers, StopExchange(c)
      PROVE  LifecycleInv'
  <2>1. /\ UNCHANGED <<handle, newThread, spawned, loopPc, terminated>>
        /\ \A d \in Callers : callPc[d] = "idle"
        /\ ~running'
        /\ running' \in BOOLEAN
        /\ callPc' = [callPc EXCEPT ![c] = IF running THEN "join" ELSE "idle"]
    BY <1>8 DEF StopExchange, loopVars
  <2>2. /\ \A t \in Threads : Active(t) => t = handle
        /\ ~running => handle = NoThread
    BY <1>a, <2>1 DEF HandleIsLoop
  <2>3. LifecycleTypes'
    BY <1>a, <2>1 DEF LifecycleTypes
  <2>4. /\ callPc'[c] = IF running THEN "join" ELSE "idle"
        /\ \A d \in Callers : d # c => callPc'[d] = "idle"
    BY <1>a, <2>1 DEF LifecycleTypes
  <2>5. StartAlone' /\ StopAlone'
    BY <2>1, <2>4 DEF StartAlone, StopAlone
  <2>6. HandleIsLoop' /\ Unborn'
    BY <1>a, <2>1, <2>2, <2>4 DEF HandleIsLoop, Unborn, Active
  <2> QED
    BY <1>a, <2>1, <2>3, <2>5, <2>6 DEF LifecycleInv
<1>9. ASSUME NEW c \in Callers, StopReturns(c)
      PROVE  LifecycleInv'
  <2>1. /\ UNCHANGED <<running, newThread, spawned, loopPc, terminated>>
        /\ callPc[c] = "join"
        /\ handle # NoThread => loopPc[handle] = "exited"
        /\ handle' = NoThread
        /\ callPc' = [callPc EXCEPT ![c] = "idle"]
    BY <1>9 DEF StopReturns, loopVars
  <2>2. ~running /\ \A d \in Callers : d # c => callPc[d] = "idle"
    BY <1>a, <2>1 DEF StopAlone
  <2>3. \A t \in Threads : ~Active(t)
    <3>1. \A d \in Callers : callPc[d] \notin {"spawn", "assign"}
      BY <2>1, <2>2
    <3> QED
      BY <1>a, <2>1, <3>1, NoThreadIsNone DEF HandleIsLoop, Active
  <2>4. LifecycleTypes'
    BY <1>a, <2>1 DEF LifecycleTypes
  <2>5. \A d \in Callers : callPc'[d] = "idle"
    BY <1>a, <2>1, <2>2 DEF LifecycleTypes
  <2>6. StartAlone' /\ StopAlone' /\ HandleIsLoop' /\ Unborn'
    BY <1>a, <2>1, <2>2, <2>3, <2>5
       DEF StartAlone, StopAlone, HandleIsLoop, Unborn, Active
  <2> QED
    BY <1>a, <2>1, <2>4, <2>6 DEF LifecycleInv
<1>10. ASSUME NEW t \in Threads, Loop(t)
       PROVE  LifecycleInv'
  <2> USE DEF Active, lifecycleVars
  <2>1. CASE LoopCheck(t)
    <3>1. CASE running
      BY <1>a, <2>1, <3>1, LoopMoves DEF LoopCheck
    <3>2. CASE ~running
      BY <1>a, <2>1, <3>2, LoopMoves DEF LoopCheck
    <3> QED
      BY <3>1, <3>2
  <2>2. CASE LoopEmpty(t)
    BY <2>2, LoopMoves DEF LoopEmpty
  <2>3. CASE LoopPop(t)
    BY <2>3, LoopMoves DEF LoopPop
  <2>4. CASE LoopStage(t)
    BY <2>4, <1>b DEF LoopStage
  <2>5. CASE LoopPublish(t)
    BY <2>5, LoopMoves DEF LoopPublish
  <2> QED
    BY <1>10, <2>1, <2>2, <2>3, <2>4, <2>5 DEF Loop
<1>11. CASE UNCHANGED vars
  BY <1>11, <1>b DEF vars, loopVars
<1> QED
  BY <1>1, <1>2, <1>3, <1>4, <1>5, <1>6, <1>7, <1>8, <1>9, <1>10, <1>11
     DEF Next, Lifecycle

(* The inductive invariant of the lifecycle holds for any threads.         *)
THEOREM LifecycleHolds == Spec => []LifecycleInv
<1>1. Init => LifecycleInv
  BY InitLifecycle
<1>2. LifecycleInv /\ [Next]_vars => LifecycleInv'
  BY LifecycleStep
<1> QED
  BY <1>1, <1>2, PTL DEF Spec

(* For any number of callers and restarts the ring never has a second      *)
(* consumer.                                                               *)
THEOREM OneConsumer == Spec => []AtMostOneLoop
<1>1. LifecycleInv => AtMostOneLoop
  BY DEF LifecycleInv, StartAlone, HandleIsLoop, AtMostOneLoop, LifecycleTypes
<1> QED
  BY <1>1, LifecycleHolds, PTL

(* Outside lifecycle calls running_ tells whether a thread is in run(),    *)
(* thread creation failing or not: after stop() none is left.              *)
THEOREM FlagTellsTruth == Spec => []FlagMatchesLoop
<1>1. ASSUME LifecycleInv, \A c \in Callers : callPc[c] = "idle"
      PROVE  running /\ handle # NoThread <=> \E t \in Threads : Active(t)
  <2>1. HandleIsLoop /\ LifecycleTypes
    BY <1>1 DEF LifecycleInv
  <2>2. ASSUME running, handle # NoThread
        PROVE  \E t \in Threads : Active(t)
    BY <1>1, <2>1, <2>2 DEF HandleIsLoop, LifecycleTypes
  <2>3. ASSUME NEW t \in Threads, Active(t)
        PROVE  running /\ handle # NoThread
    BY <1>1, <2>1, <2>3, NoThreadIsNone DEF HandleIsLoop, LifecycleTypes
  <2> QED
    BY <2>2, <2>3
<1>2. LifecycleInv => FlagMatchesLoop
  BY <1>1 DEF FlagMatchesLoop
<1> QED
  BY <1>2, LifecycleHolds, PTL

(* start() never assigns onto a joinable thread.                           *)
THEOREM StartNeverTerminates == Spec => []NeverTerminates
<1>1. LifecycleInv => NeverTerminates
  BY DEF LifecycleInv, NeverTerminates
<1> QED
  BY <1>1, LifecycleHolds, PTL

---------------------------------------------------------------------------
(* The ticks.  What makes their order inductive is that there is at most   *)
(* one loop: a tick that is popped is the only one in the stages, and it   *)
(* is still the oldest when it leaves them.                                *)
TickTypes ==
  /\ submitted \in Nat
  /\ loopTick \in [Threads -> Nat]
  /\ ingress \in Seq(Nat) /\ processed \in Seq(Nat)

TickInv == TickTypes /\ TicksConserved

LEMMA NumbersGrow ==
  ASSUME NEW n \in Nat
  PROVE  Numbers(n) \in Seq(Nat) /\ Numbers(n + 1) = Append(Numbers(n), n + 1)
BY DEF Numbers

LEMMA NumbersAssociate ==
  ASSUME NEW s \in Seq(Nat), NEW q \in Seq(Nat), NEW r \in Seq(Nat)
  PROVE  (s \o q) \o r = s \o (q \o r)
BY SMTT(30)

LEMMA TickJoins ==
  ASSUME NEW s \in Seq(Nat), NEW q \in Seq(Nat), NEW k \in Nat
  PROVE  s \o Append(q, k) = Append(s \o q, k)
<1>1. <<k>> \in Seq(Nat) /\ s \o q \in Seq(Nat)
  BY ConcatProperties
<1>2. Append(q, k) = q \o <<k>> /\ Append(s \o q, k) = (s \o q) \o <<k>>
  BY <1>1, AppendIsConcat
<1>3. s \o (q \o <<k>>) = (s \o q) \o <<k>>
  BY <1>1, NumbersAssociate, Zenon
<1> QED
  BY <1>2, <1>3

LEMMA TickRegroups ==
  ASSUME NEW s \in Seq(Nat), NEW k \in Nat, NEW q \in Seq(Nat)
  PROVE  /\ <<k>> \in Seq(Nat) /\ Append(s, k) \in Seq(Nat)
         /\ Append(s, k) = s \o <<k>>
         /\ s \o <<k>> \o q = s \o (<<k>> \o q)
<1>1. <<k>> \in Seq(Nat) /\ Append(s, k) \in Seq(Nat)
  OBVIOUS
<1>2. Append(s, k) = s \o <<k>>
  BY AppendIsConcat, Zenon
<1>3. (s \o <<k>>) \o q = s \o (<<k>> \o q)
  BY <1>1, NumbersAssociate, Zenon
<1> QED
  BY <1>1, <1>2, <1>3

LEMMA TickPops ==
  ASSUME NEW s \in Seq(Nat), NEW q \in Seq(Nat), q # << >>
  PROVE  s \o <<Head(q)>> \o Tail(q) = s \o q
<1>1. Head(q) \in Nat /\ Tail(q) \in Seq(Nat) /\ <<Head(q)>> \in Seq(Nat)
      /\ <<Head(q)>> \o Tail(q) = q
  BY HeadTailProperties
<1>2. (s \o <<Head(q)>>) \o Tail(q) = s \o (<<Head(q)>> \o Tail(q))
  BY <1>1, NumbersAssociate, Zenon
<1> QED
  BY <1>1, <1>2

LEMMA TickStep == LifecycleInv /\ TickInv /\ [Next]_vars => TickInv'
<1> SUFFICES ASSUME LifecycleInv, TickInv, [Next]_vars
             PROVE  TickInv'
  OBVIOUS
<1> USE DEF TickInv, TickTypes, TicksConserved
<1>a. loopPc \in [Threads -> {"unborn", "check", "pop", "stage", "exited"}]
  BY DEF LifecycleInv, LifecycleTypes
<1>b. \A t, u \in Threads : Active(t) /\ Active(u) => t = u
  BY DEF LifecycleInv, StartAlone, HandleIsLoop, LifecycleTypes
<1>c. ASSUME UNCHANGED <<loopTick, processed, feedVars>>, Staging' = Staging
      PROVE  TickInv'
  BY <1>c DEF feedVars
<1>1. CASE UNCHANGED <<loopVars, feedVars>>
  BY <1>c, <1>1 DEF loopVars, Staging
<1>2. CASE Submit
  <2>1. /\ Len(ingress) < Capacity
        /\ submitted' = submitted + 1 /\ ingress' = Append(ingress, submitted + 1)
        /\ UNCHANGED <<processed, loopTick>> /\ Staging' = Staging
    BY <1>2 DEF Submit, loopVars, Staging
  <2>2. /\ submitted' \in Nat /\ ingress' \in Seq(Nat) /\ Len(ingress') <= Capacity
        /\ Numbers(submitted') = Append(Numbers(submitted), submitted + 1)
    <3>1. submitted' \in Nat /\ ingress' \in Seq(Nat) /\ Len(ingress') = Len(ingress) + 1
      BY <2>1
    <3>2. Len(ingress') <= Capacity
      BY <2>1, <3>1, WorkerAssumption
    <3>3. Numbers(submitted') = Append(Numbers(submitted), submitted + 1)
      BY <2>1, NumbersGrow
    <3> QED
      BY <3>1, <3>2, <3>3
  <2>3. CASE Staging = {}
    <3>1. processed \o Append(ingress, submitted + 1)
            = Append(processed \o ingress, submitted + 1)
      <4>1. processed \in Seq(Nat) /\ ingress \in Seq(Nat) /\ submitted + 1 \in Nat
        OBVIOUS
      <4> QED
        BY <4>1, TickJoins, Zenon
    <3> QED
      BY <2>1, <2>2, <2>3, <3>1
  <2>4. ASSUME NEW t \in Staging
        PROVE  processed \o <<loopTick[t]>> \o Append(ingress, submitted + 1)
                 = Numbers(submitted')
    <3>1. loopTick[t] \in Nat
      BY DEF Staging
    <3>2. processed \o <<loopTick[t]>> \in Seq(Nat)
      <4>1. processed \in Seq(Nat) /\ <<loopTick[t]>> \in Seq(Nat)
        BY <3>1
      <4> QED
        BY <4>1, ConcatProperties, Zenon
    <3>3. (processed \o <<loopTick[t]>>) \o Append(ingress, submitted + 1)
            = Append((processed \o <<loopTick[t]>>) \o ingress, submitted + 1)
      <4>1. ingress \in Seq(Nat) /\ submitted + 1 \in Nat
        OBVIOUS
      <4> QED
        BY <3>2, <4>1, TickJoins, Zenon
    <3> QED
      BY <2>2, <3>3
  <2> QED
    BY <2>1, <2>2, <2>3, <2>4
<1>3. ASSUME NEW c \in Callers, Spawn(c)
      PROVE  TickInv'
  <2>1. \A t \in Threads : ~Active(t)
    BY <1>3 DEF LifecycleInv, StartAlone, Spawn
  <2>2. Staging = {} /\ Staging' = {}
    BY <1>a, <1>3, <2>1 DEF Spawn, Staging, Active
  <2> QED
    BY <1>3, <1>c, <2>2 DEF Spawn
<1>4. ASSUME NEW t \in Threads, LoopCheck(t) \/ LoopEmpty(t)
      PROVE  TickInv'
  <2>1. Staging' = Staging
    BY <1>a, <1>4 DEF LoopCheck, LoopEmpty, Staging
  <2> QED
    BY <1>4, <1>c, <2>1 DEF LoopCheck, LoopEmpty
<1>5. ASSUME NEW t \in Threads, LoopPop(t)
      PROVE  TickInv'
  <2>1. /\ loopPc[t] = "pop" /\ ingress # << >> /\ ingress' = Tail(ingress)
        /\ loopTick' = [loopTick EXCEPT ![t] = Head(ingress)]
        /\ loopPc' = [loopPc EXCEPT ![t] = "stage"]
        /\ UNCHANGED <<processed, submitted>>
    BY <1>5 DEF LoopPop
  <2>2. Staging = {} /\ Staging' = {t}
    BY <1>a, <1>b, <2>1 DEF Staging, Active
  <2>3. /\ Head(ingress) \in Nat /\ Tail(ingress) \in Seq(Nat)
        /\ <<Head(ingress)>> \o Tail(ingress) = ingress
        /\ Len(Tail(ingress)) <= Len(ingress)
    BY <2>1, HeadTailProperties
  <2>4. processed \o <<Head(ingress)>> \o Tail(ingress) = processed \o ingress
    BY <2>1, TickPops
  <2>5. loopTick' \in [Threads -> Nat] /\ loopTick'[t] = Head(ingress)
    BY <2>1, <2>3
  <2>6. TickTypes'
    BY <2>1, <2>3, <2>5
  <2>7. Len(ingress') <= Capacity
    <3>1. Len(ingress) \in Nat /\ Len(Tail(ingress)) \in Nat
      BY <2>3, LenProperties
    <3> QED
      BY <2>1, <2>3, <3>1, WorkerAssumption
  <2>8. processed' \o <<loopTick'[t]>> \o ingress' = Numbers(submitted')
    BY <2>1, <2>2, <2>4, <2>5
  <2> QED
    BY <2>2, <2>6, <2>7, <2>8
<1>6. ASSUME NEW t \in Threads, LoopStage(t)
      PROVE  TickInv'
  BY <1>6, <1>c DEF LoopStage, Staging
<1>7. ASSUME NEW t \in Threads, LoopPublish(t)
      PROVE  TickInv'
  <2>1. /\ loopPc[t] = "stage" /\ processed' = Append(processed, loopTick[t])
        /\ loopPc' = [loopPc EXCEPT ![t] = "check"]
        /\ UNCHANGED <<loopTick, ingress, submitted>>
    BY <1>7 DEF LoopPublish, feedVars
  <2>2. t \in Staging /\ Staging' = {}
    BY <1>a, <1>b, <2>1 DEF Staging, Active
  <2>3. processed' \in Seq(Nat) /\ processed' \o ingress = processed \o <<loopTick[t]>> \o ingress
    BY <2>1, TickRegroups
  <2> QED
    BY <2>1, <2>2, <2>3
<1> QED
  BY <1>1, <1>2, <1>3, <1>4, <1>5, <1>6, <1>7
     DEF Next, vars, Lifecycle, Loop, SetStage, SetEventBus, StartCas, SpawnFails,
         AssignHandle, StopExchange, StopReturns

LEMMA TicksHold == Spec => []TickInv
<1>1. Init => TickInv
  <2> SUFFICES ASSUME Init PROVE TickInv
    OBVIOUS
  <2>1. TickTypes /\ Len(ingress) <= Capacity
    BY WorkerAssumption DEF Init, TickTypes
  <2>2. Staging = {} /\ processed \o ingress = << >> /\ Numbers(submitted) = << >>
    BY DEF Init, Staging, Numbers
  <2> QED
    BY <2>1, <2>2 DEF TickInv, TicksConserved
<1> QED
  BY <1>1, LifecycleHolds, TickStep, PTL DEF Spec

(* For any number of callers, ticks, restarts and any capacity: no         *)
(* accepted tick is lost, processed twice or overtaken, and what a stop()  *)
(* leaves in the ring the next loop takes up where the last one ended.     *)
THEOREM NoTickLost == Spec => []TicksConserved
<1>1. TickInv => TicksConserved
  BY DEF TickInv
<1> QED
  BY <1>1, TicksHold, PTL

---------------------------------------------------------------------------
(* The stages.  While a tick is in the stages, the handlers called for it  *)
(* are those of the stages the loop has passed, in order: a handler that   *)
(* is set or removed half-way would break this, and none is, because       *)
(* set_stage() needs a worker without a loop.                              *)
StageTypes ==
  /\ loopStage \in [Threads -> 0 .. StageCount]
  /\ calls \in [Threads -> Seq(Stages)]
  /\ stages \subseteq Stages

Passed(t) == {n \in stages : n < loopStage[t]}

Lists(q, P) ==
  /\ Len(q) = Cardinality(P)
  /\ {q[i] : i \in 1 .. Len(q)} = P
  /\ \A i, j \in 1 .. Len(q) : i < j => q[i] < q[j]

CallsListed == \A t \in Threads : loopPc[t] = "stage" => Lists(calls[t], Passed(t))

StageInv == StageTypes /\ CallsListed

(* Without a loop there is no tick in the stages.                          *)
LEMMA QuiescentIdles ==
  ASSUME LifecycleInv, Quiescent
  PROVE  \A t \in Threads : ~Active(t)
<1>1. handle = NoThread
  BY DEF LifecycleInv, HandleIsLoop, Quiescent
<1> QED
  BY <1>1, NoThreadIsNone DEF LifecycleInv, HandleIsLoop, Quiescent

LEMMA StagesNumbered == StageTypes => \A n \in stages : n \in Int /\ 0 <= n /\ n < StageCount
BY WorkerAssumption DEF StageTypes, Stages

(* The turn of the loop at a stage that has a handler.                     *)
LEMMA CallAppends ==
  ASSUME StageTypes, NEW t \in Threads, loopPc[t] = "stage", CallsListed,
         loopStage[t] \in stages
  PROVE  /\ Append(calls[t], loopStage[t]) \in Seq(Stages)
         /\ Lists(Append(calls[t], loopStage[t]), {n \in stages : n < loopStage[t] + 1})
<1> DEFINE c == calls[t]
           s == loopStage[t]
           q == Append(c, s)
           P == {n \in stages : n < s + 1}
           Q == Passed(t)
<1>1. /\ c \in Seq(Stages) /\ s \in Stages /\ s \in Int /\ s \in stages
      /\ \A n \in stages : n \in Int
  BY WorkerAssumption DEF StageTypes, Stages
<1>2. /\ Len(c) = Cardinality(Q) /\ {c[i] : i \in 1 .. Len(c)} = Q
      /\ \A i, j \in 1 .. Len(c) : i < j => c[i] < c[j]
  BY DEF CallsListed, Lists
<1>3. Q = {n \in stages : n < s}
  BY DEF Passed
<1> HIDE DEF c, Q, s
<1>4. P = Q \cup {s} /\ s \notin Q
  <2>1. \A n \in stages : n < s + 1 <=> n < s \/ n = s
    BY <1>1
  <2>2. s \notin Q
    BY <1>1, <1>3
  <2>3. P = {n \in stages : n < s \/ n = s}
    BY <2>1
  <2> HIDE DEF P
  <2> QED
    BY <1>1, <1>3, <2>2, <2>3
<1> HIDE DEF P
<1>5. IsFiniteSet(Q)
  <2>1. IsFiniteSet(Stages)
    BY FS_Interval, WorkerAssumption DEF Stages
  <2>2. Q \subseteq Stages
    BY <1>3 DEF StageTypes
  <2> QED
    BY <2>1, <2>2, FS_Subset
<1>6. Cardinality(P) = Cardinality(Q) + 1
  BY <1>4, <1>5, FS_AddElement
<1>7. /\ q \in Seq(Stages) /\ Len(q) = Len(c) + 1 /\ Len(c) \in Nat
      /\ \A i \in 1 .. Len(c) : q[i] = c[i] /\ c[i] \in Stages
      /\ q[Len(c) + 1] = s
  BY <1>1, AppendProperties, LenProperties, ElementOfSeq DEF c
<1> HIDE DEF q
<1>8. {q[i] : i \in 1 .. Len(q)} = {c[i] : i \in 1 .. Len(c)} \cup {s}
  BY <1>7
<1>9. ASSUME NEW i \in 1 .. Len(q), NEW j \in 1 .. Len(q), i < j PROVE q[i] < q[j]
  <2>1. CASE j = Len(c) + 1
    <3>1. i \in 1 .. Len(c)
      BY <1>7, <1>9, <2>1
    <3>2. c[i] \in Q
      BY <1>2, <3>1
    <3> QED
      BY <1>3, <1>7, <2>1, <3>1, <3>2
  <2>2. CASE j # Len(c) + 1
    BY <1>2, <1>7, <1>9, <2>2
  <2> QED
    BY <2>1, <2>2
<1>10. q \in Seq(Stages) /\ Lists(q, P)
  BY <1>2, <1>4, <1>6, <1>7, <1>8, <1>9 DEF Lists
<1> QED
  BY <1>10 DEF q, c, s, P

LEMMA StageStep == LifecycleInv /\ StageInv /\ [Next]_vars => StageInv'
<1> SUFFICES ASSUME LifecycleInv, StageInv, [Next]_vars PROVE StageInv'
  OBVIOUS
<1>1. /\ StageTypes /\ CallsListed
      /\ loopPc \in [Threads -> {"unborn", "check", "pop", "stage", "exited"}]
  BY DEF StageInv, LifecycleInv, LifecycleTypes
<1>2. CASE UNCHANGED <<loopVars, stages>>
  BY <1>1, <1>2 DEF loopVars, StageInv, StageTypes, CallsListed, Passed
<1>3. ASSUME UNCHANGED <<loopStage, calls, stages>>,
             \A t \in Threads : loopPc'[t] = "stage" => loopPc[t] = "stage"
      PROVE  StageInv'
  BY <1>1, <1>3 DEF StageInv, StageTypes, CallsListed, Passed
<1>4. ASSUME NEW index \in 0 .. StageCount, NEW given \in BOOLEAN, SetStage(index, given)
      PROVE  StageInv'
  <2>1. \A t \in Threads : loopPc'[t] # "stage"
    BY <1>4, QuiescentIdles DEF SetStage, loopVars, Active
  <2>2. stages' \subseteq Stages /\ UNCHANGED <<loopStage, calls>>
    BY <1>1, <1>4, WorkerAssumption DEF SetStage, loopVars, StageTypes, Stages
  <2> QED
    BY <1>1, <2>1, <2>2 DEF StageInv, StageTypes, CallsListed
<1>5. ASSUME NEW c \in Callers, Spawn(c)
      PROVE  StageInv'
  BY <1>1, <1>3, <1>5 DEF Spawn, configVars
<1>6. ASSUME NEW t \in Threads, LoopCheck(t) \/ LoopEmpty(t) \/ LoopPublish(t)
      PROVE  StageInv'
  BY <1>1, <1>3, <1>6 DEF LoopCheck, LoopEmpty, LoopPublish, configVars
<1>7. ASSUME NEW t \in Threads, LoopPop(t)
      PROVE  StageInv'
  <2>1. /\ loopStage' = [loopStage EXCEPT ![t] = 0] /\ calls' = [calls EXCEPT ![t] = << >>]
        /\ loopPc' = [loopPc EXCEPT ![t] = "stage"] /\ stages' = stages
    BY <1>7 DEF LoopPop, configVars
  <2>2. StageTypes'
    BY <1>1, <2>1, EmptySeq, WorkerAssumption DEF StageTypes
  <2>3. calls'[t] = << >> /\ Len(calls'[t]) = 0 /\ Passed(t)' = {}
    <3>1. calls'[t] = << >> /\ loopStage'[t] = 0
      BY <1>1, <2>1 DEF StageTypes
    <3>2. \A n \in stages : ~(n < 0)
      BY <1>1, StagesNumbered
    <3> QED
      BY <2>1, <3>1, <3>2 DEF Passed
  <2>4. Cardinality({}) = 0
    BY FS_EmptySet
  <2>5. ASSUME NEW u \in Threads, u # t
        PROVE  loopPc'[u] = loopPc[u] /\ calls'[u] = calls[u] /\ Passed(u)' = Passed(u)
    BY <1>1, <2>1, <2>5 DEF StageTypes, Passed
  <2>6. ASSUME NEW u \in Threads, loopPc'[u] = "stage"
        PROVE  Lists(calls'[u], Passed(u)')
    <3>1. CASE u = t
      <4>1. 1 .. Len(calls'[t]) = {}
        BY <2>3
      <4> QED
        BY <2>3, <2>4, <3>1, <4>1 DEF Lists
    <3>2. CASE u # t
      BY <1>1, <2>5, <2>6, <3>2 DEF CallsListed
    <3> QED
      BY <3>1, <3>2
  <2> QED
    BY <2>2, <2>6 DEF StageInv, CallsListed
<1>8. ASSUME NEW t \in Threads, LoopStage(t)
      PROVE  StageInv'
  <2> DEFINE s == loopStage[t]
  <2>1. /\ loopPc[t] = "stage" /\ s < StageCount /\ s \in Nat
        /\ loopStage' = [loopStage EXCEPT ![t] = s + 1]
        /\ calls' = IF s \in stages THEN [calls EXCEPT ![t] = Append(calls[t], s)] ELSE calls
        /\ UNCHANGED <<loopPc, stages>>
    BY <1>1, <1>8 DEF LoopStage, StageBound, configVars, StageTypes
  <2>2. loopStage' \in [Threads -> 0 .. StageCount] /\ loopStage'[t] = s + 1
    BY <1>1, <2>1, WorkerAssumption DEF StageTypes
  <2>3. Passed(t)' = {n \in stages : n < s + 1}
    BY <2>1, <2>2 DEF Passed
  <2>4. ASSUME NEW u \in Threads, u # t
        PROVE  calls'[u] = calls[u] /\ Passed(u)' = Passed(u)
    BY <1>1, <2>1, <2>4 DEF StageTypes, Passed
  <2>5. CASE s \in stages
    <3>1. calls'[t] = Append(calls[t], s)
      BY <1>1, <2>1, <2>5 DEF StageTypes
    <3>2. calls'[t] \in Seq(Stages) /\ Lists(calls'[t], Passed(t)')
      BY <1>1, <2>1, <2>3, <2>5, <3>1, CallAppends
    <3>3. StageTypes'
      BY <1>1, <2>1, <2>2, <2>4, <3>2 DEF StageTypes
    <3> QED
      BY <1>1, <2>1, <2>4, <3>2, <3>3 DEF StageInv, CallsListed
  <2>6. CASE s \notin stages
    <3>1. calls' = calls
      BY <2>1, <2>6
    <3>2. Passed(t)' = Passed(t)
      <4>1. \A n \in stages : n < s + 1 <=> n < s
        BY <1>1, <2>1, <2>6, StagesNumbered
      <4> QED
        BY <2>3, <4>1 DEF Passed
    <3> QED
      BY <1>1, <2>1, <2>2, <2>4, <3>1, <3>2 DEF StageInv, StageTypes, CallsListed
  <2> QED
    BY <2>5, <2>6
<1> QED
  BY <1>2, <1>4, <1>5, <1>6, <1>7, <1>8
     DEF Next, vars, Lifecycle, Loop, SetEventBus, Submit, StartCas, SpawnFails,
         AssignHandle, StopExchange, StopReturns, configVars

(* Whatever handlers are set, for any number of stages, and however the    *)
(* worker is started and stopped: a tick is published only after each      *)
(* stage that has a handler has been called for it once, in order.         *)
THEOREM PublishedAfterAllStages == Spec => PublishedComplete
<1>1. Init => StageInv
  <2> SUFFICES ASSUME Init PROVE StageInv
    OBVIOUS
  <2>1. StageTypes
    BY EmptySeq, WorkerAssumption DEF Init, StageTypes
  <2> QED
    BY <2>1 DEF Init, StageInv, CallsListed
<1>2. Spec => []StageInv
  BY <1>1, LifecycleHolds, StageStep, PTL DEF Spec
<1>3. ASSUME LifecycleInv, StageInv, [Next]_vars, NEW t \in Threads,
             published' # published, loopPc[t] = "stage", loopPc'[t] = "check"
      PROVE  /\ Len(calls[t]) = Cardinality(stages)
             /\ {calls[t][i] : i \in 1 .. Len(calls[t])} = stages
             /\ \A i, j \in 1 .. Len(calls[t]) : i < j => calls[t][i] < calls[t][j]
  <2>1. PICK u \in Threads : LoopPublish(u)
    BY <1>3 DEF Next, vars, loopVars, Lifecycle, Loop, SetStage, SetEventBus, Submit, StartCas,
         Spawn, SpawnFails, AssignHandle, StopExchange, StopReturns, LoopCheck, LoopEmpty,
         LoopPop, LoopStage
  <2>2. /\ \A v, w \in Threads : Active(v) /\ Active(w) => v = w
        /\ Active(u) /\ Active(t)
    BY <1>3, <2>1 DEF LifecycleInv, StartAlone, HandleIsLoop, LifecycleTypes, LoopPublish, Active
  <2>3. loopStage[t] >= StageCount
    BY <2>1, <2>2 DEF LoopPublish, StageBound
  <2>4. Passed(t) = stages
    <3>1. StageTypes /\ loopStage[t] \in Int
      BY <1>3, WorkerAssumption DEF StageInv, StageTypes
    <3>2. \A n \in stages : n < loopStage[t]
      BY <2>3, <3>1, StagesNumbered, WorkerAssumption
    <3> QED
      BY <3>2 DEF Passed
  <2> QED
    BY <1>3, <2>4 DEF StageInv, CallsListed, Lists
<1>4. LifecycleInv /\ StageInv /\ [Next]_vars =>
        [\A t \in Threads :
           published' # published /\ loopPc[t] = "stage" /\ loopPc'[t] = "check" =>
             /\ Len(calls[t]) = Cardinality(stages)
             /\ {calls[t][i] : i \in 1 .. Len(calls[t])} = stages
             /\ \A i, j \in 1 .. Len(calls[t]) : i < j => calls[t][i] < calls[t][j]
        ]_vars
  BY <1>3
<1> QED
  BY <1>2, <1>4, LifecycleHolds, PTL DEF Spec, PublishedComplete

---------------------------------------------------------------------------
(* The worker as a whole.  Seen from submit() and from the end of the      *)
(* pipeline it is one bounded queue, its oldest element the tick in the    *)
(* stages: a loop that pops moves nothing, and a tick leaves when it is    *)
(* through.  Starting, stopping and configuring change nothing of it, and  *)
(* it is never closed: no step of the worker discards a waiting tick.      *)
InStages == IF Staging = {} THEN << >> ELSE <<loopTick[CHOOSE t \in Staging : TRUE]>>
Waiting == InStages \o ingress
LastOut == IF processed = << >> THEN 0 ELSE processed[Len(processed)]

Pipe == INSTANCE BoundedQueue WITH Capacity <- Capacity + 1, Values <- 0 .. MaxTicks,
                                   queue <- Waiting, out <- LastOut, open <- TRUE

LEMMA StagingAlone ==
  ASSUME LifecycleInv, NEW t \in Threads, Active(t)
  PROVE  /\ Staging = IF loopPc[t] = "stage" THEN {t} ELSE {}
         /\ InStages = IF loopPc[t] = "stage" THEN <<loopTick[t]>> ELSE << >>
<1>1. \A u \in Threads : loopPc[u] = "stage" => u = t
  BY DEF LifecycleInv, StartAlone, HandleIsLoop, LifecycleTypes, Active
<1>2. Staging = IF loopPc[t] = "stage" THEN {t} ELSE {}
  BY <1>1 DEF Staging
<1>3. ASSUME loopPc[t] = "stage" PROVE (CHOOSE u \in Staging : TRUE) = t
  BY <1>2, <1>3
<1> QED
  BY <1>2, <1>3 DEF InStages

LEMMA InStagesTyped ==
  ASSUME TickTypes
  PROVE  InStages \in Seq(Nat) /\ Len(InStages) <= 1
<1>1. CASE Staging = {}
  BY <1>1 DEF InStages
<1>2. CASE Staging # {}
  <2>1. PICK t \in Threads : InStages = <<loopTick[t]>>
    BY <1>2 DEF InStages, Staging
  <2>2. loopTick[t] \in Nat
    BY DEF TickTypes
  <2> QED
    BY <2>1, <2>2
<1> QED
  BY <1>1, <1>2

LEMMA FirstLeaves ==
  ASSUME NEW k \in Nat, NEW q \in Seq(Nat)
  PROVE  <<k>> \o q # << >> /\ Head(<<k>> \o q) = k /\ Tail(<<k>> \o q) = q
<1> DEFINE s == <<k>> \o q
<1>1. s \in Seq(Nat) /\ Len(s) = Len(q) + 1 /\ Len(q) \in Nat /\ s[1] = k
  OBVIOUS
<1>2. \A i \in 1 .. Len(q) : s[i + 1] = q[i]
  OBVIOUS
<1> HIDE DEF s
<1>3. s # << >>
  BY <1>1
<1>4. /\ Head(s) = s[1] /\ Tail(s) \in Seq(Nat) /\ Len(Tail(s)) = Len(q)
      /\ \A i \in 1 .. Len(Tail(s)) : Tail(s)[i] = s[i + 1]
  BY <1>1, <1>3, HeadTailProperties
<1>5. Tail(s) = q
  BY <1>2, <1>4, SeqEqual
<1> QED
  BY <1>1, <1>3, <1>4, <1>5 DEF s

LEMMA LastAppended ==
  ASSUME NEW s \in Seq(Nat), NEW k \in Nat
  PROVE  Append(s, k) # << >> /\ Append(s, k)[Len(Append(s, k))] = k
<1>1. Len(Append(s, k)) = Len(s) + 1 /\ Append(s, k)[Len(s) + 1] = k /\ Len(s) \in Nat
  BY AppendProperties, LenProperties
<1>2. Append(s, k) # << >>
  BY <1>1
<1> QED
  BY <1>1, <1>2

LEMMA PipeStutters ==
  ASSUME UNCHANGED <<ingress, processed, loopTick>>, Staging' = Staging
  PROVE  UNCHANGED Pipe!vars
BY DEF Pipe!vars, Waiting, InStages, LastOut

LEMMA PipeStep == LifecycleInv /\ LifecycleInv' /\ TickInv /\ [Next]_vars => [Pipe!Next]_(Pipe!vars)
<1> SUFFICES ASSUME LifecycleInv, LifecycleInv', TickInv, [Next]_vars
             PROVE  [Pipe!Next]_(Pipe!vars)
  OBVIOUS
<1>a. /\ loopPc \in [Threads -> {"unborn", "check", "pop", "stage", "exited"}]
      /\ loopTick \in [Threads -> Nat] /\ ingress \in Seq(Nat) /\ processed \in Seq(Nat)
      /\ submitted \in Nat
  BY DEF LifecycleInv, LifecycleTypes, TickInv, TickTypes
<1>1. CASE UNCHANGED <<loopPc, loopTick, processed, ingress>>
  BY <1>1, PipeStutters DEF Staging
<1>2. CASE Submit
  <2>1. /\ Len(ingress) < Capacity /\ ingress' = Append(ingress, submitted + 1)
        /\ submitted < MaxTicks
        /\ UNCHANGED <<processed, loopTick, loopPc>>
    BY <1>2 DEF Submit, loopVars
  <2>2. InStages' = InStages /\ LastOut' = LastOut
    BY <2>1 DEF InStages, Staging, LastOut
  <2>3. InStages \in Seq(Nat) /\ Len(InStages) <= 1
    BY InStagesTyped DEF TickInv
  <2>4. Waiting' = Append(Waiting, submitted + 1)
    <3>1. InStages \o Append(ingress, submitted + 1) = Append(InStages \o ingress, submitted + 1)
      BY <1>a, <2>3, TickJoins
    <3> QED
      BY <2>1, <2>2, <3>1 DEF Waiting
  <2>5. Len(Waiting) < Capacity + 1
    <3>1. Len(Waiting) = Len(InStages) + Len(ingress)
      BY <1>a, <2>3, ConcatProperties DEF Waiting
    <3>2. Len(ingress) \in Nat /\ Len(InStages) \in Nat
      BY <1>a, <2>3, LenProperties
    <3> QED
      BY <2>1, <2>3, <3>1, <3>2, WorkerAssumption
  <2>6. submitted + 1 \in 0 .. MaxTicks
    BY <1>a, <2>1, WorkerAssumption
  <2>7. Pipe!Push(submitted + 1)
    BY <2>2, <2>4, <2>5 DEF Pipe!Push
  <2> QED
    BY <2>6, <2>7 DEF Pipe!Next
<1>3. ASSUME NEW c \in Callers, Spawn(c)
      PROVE  UNCHANGED Pipe!vars
  <2>1. \A t \in Threads : ~Active(t)
    BY <1>3 DEF LifecycleInv, StartAlone, Spawn
  <2>2. Staging = {} /\ Staging' = {}
    BY <1>a, <1>3, <2>1 DEF Spawn, Staging, Active
  <2>3. UNCHANGED <<ingress, processed, loopTick>>
    BY <1>3 DEF Spawn, feedVars
  <2> QED
    BY <2>2, <2>3, PipeStutters
<1>4. ASSUME NEW t \in Threads, LoopCheck(t) \/ LoopEmpty(t)
      PROVE  UNCHANGED Pipe!vars
  <2>1. Staging' = Staging
    BY <1>a, <1>4 DEF LoopCheck, LoopEmpty, Staging
  <2>2. UNCHANGED <<ingress, processed, loopTick>>
    BY <1>4 DEF LoopCheck, LoopEmpty, feedVars
  <2> QED
    BY <2>1, <2>2, PipeStutters
<1>5. ASSUME NEW t \in Threads, LoopPop(t)
      PROVE  UNCHANGED Pipe!vars
  <2>1. /\ loopPc[t] = "pop" /\ ingress # << >> /\ ingress' = Tail(ingress)
        /\ loopTick'[t] = Head(ingress) /\ loopPc'[t] = "stage"
        /\ processed' = processed
    BY <1>a, <1>5 DEF LoopPop
  <2>2. InStages = << >>
    BY <2>1, StagingAlone DEF Active
  <2>3. InStages' = <<loopTick'[t]>>
    <3>1. Active(t)'
      BY <2>1 DEF Active
    <3>2. (Staging = IF loopPc[t] = "stage" THEN {t} ELSE {})'
      BY <3>1, <2>1 DEF LifecycleInv, StartAlone, HandleIsLoop, LifecycleTypes, Active, Staging
    <3> QED
      BY <2>1, <3>2 DEF InStages
  <2>4. <<Head(ingress)>> \o Tail(ingress) = ingress /\ << >> \o ingress = ingress
    BY <1>a, <2>1, HeadTailProperties, ConcatEmptySeq
  <2>5. Waiting' = Waiting
    BY <2>1, <2>2, <2>3, <2>4 DEF Waiting
  <2> QED
    BY <2>1, <2>5 DEF Pipe!vars, LastOut
<1>6. ASSUME NEW t \in Threads, LoopStage(t)
      PROVE  UNCHANGED Pipe!vars
  BY <1>6, <1>1, PipeStutters DEF LoopStage, Staging, feedVars
<1>7. ASSUME NEW t \in Threads, LoopPublish(t)
      PROVE  Pipe!Pop
  <2>1. /\ loopPc[t] = "stage" /\ processed' = Append(processed, loopTick[t])
        /\ loopPc' = [loopPc EXCEPT ![t] = "check"]
        /\ UNCHANGED <<loopTick, ingress>>
    BY <1>7 DEF LoopPublish, feedVars
  <2>2. InStages = <<loopTick[t]>> /\ Staging = {t}
    BY <2>1, StagingAlone DEF Active
  <2>3. InStages' = << >>
    <3>1. Staging' = {}
      BY <1>a, <2>1, <2>2 DEF Staging
    <3> QED
      BY <3>1 DEF InStages
  <2>4. loopTick[t] \in Nat
    BY <1>a
  <2>5. /\ Waiting # << >> /\ Head(Waiting) = loopTick[t] /\ Tail(Waiting) = ingress
    <3>1. Waiting = <<loopTick[t]>> \o ingress
      BY <2>2 DEF Waiting
    <3> QED
      BY <1>a, <2>4, <3>1, FirstLeaves, Zenon
  <2>6. Waiting' = ingress
    BY <1>a, <2>1, <2>3, ConcatEmptySeq DEF Waiting
  <2>7. LastOut' = loopTick[t]
    <3>1. /\ Append(processed, loopTick[t]) # << >>
          /\ Append(processed, loopTick[t])[Len(Append(processed, loopTick[t]))] = loopTick[t]
      BY <1>a, <2>4, LastAppended
    <3> QED
      BY <2>1, <3>1 DEF LastOut
  <2> QED
    BY <2>5, <2>6, <2>7 DEF Pipe!Pop
<1> QED
  BY <1>1, <1>2, <1>3, <1>4, <1>5, <1>6, <1>7
     DEF Next, vars, loopVars, feedVars, Lifecycle, Loop, SetStage, SetEventBus, StartCas,
         SpawnFails, AssignHandle, StopExchange, StopReturns, Pipe!Next

(* For any number of racing start() calls, restarts and ticks, and any     *)
(* capacity and number of stages: the worker is a queue of one element     *)
(* more than its ring, that hands out each accepted tick once, in order of *)
(* acceptance, and drops none when it is stopped.                          *)
THEOREM WorkerIsAQueue == Spec => Pipe!Spec
<1>1. Init => Pipe!Init
  <2> SUFFICES ASSUME Init PROVE Pipe!Init
    OBVIOUS
  <2>1. Staging = {} /\ ingress = << >> /\ processed = << >>
    BY DEF Init, Staging
  <2>2. Waiting = << >>
    BY <2>1 DEF Waiting, InStages
  <2>3. LastOut \in 0 .. MaxTicks
    BY <2>1, WorkerAssumption DEF LastOut
  <2> QED
    BY <2>2, <2>3 DEF Pipe!Init
<1>2. LifecycleInv /\ LifecycleInv' /\ TickInv /\ [Next]_vars => [Pipe!Next]_(Pipe!vars)
  BY PipeStep
<1> QED
  BY <1>1, <1>2, LifecycleHolds, TicksHold, PTL DEF Spec, Pipe!Spec
===========================================================================
