--------------------------- MODULE SymbolWorker ---------------------------
(***************************************************************************)
(* ofe::core::SymbolWorker (include/ofe/core/symbol_worker.h): one thread  *)
(* that pops ticks from an ingress ring and runs each of them through a    *)
(* pipeline of stage handlers and then to the event bus, while other       *)
(* threads start and stop it and one feed thread submits ticks.            *)
(*                                                                         *)
(* The ingress is the bounded queue that RingBuffer implements: try_push   *)
(* and try_pop are single steps here.  start() and stop() are split at     *)
(* every access to state the threads share: the exchange on running_, the  *)
(* creation of the thread, the assignment of worker_, the join.            *)
(*                                                                         *)
(* The class does not say which lifecycle calls may overlap.  The model    *)
(* takes the widest use it supports: any number of start() calls may race  *)
(* with each other and with submit(), a stop() overlaps no other lifecycle *)
(* call, and handlers and bus are set while no thread runs.                *)
(***************************************************************************)
EXTENDS Integers, Sequences, FiniteSets

CONSTANTS
  Callers,         (* threads that call start() and stop()                 *)
  Capacity,        (* of the ingress ring: 4096 in the code                *)
  StageCount,      (* stage_count: 11 in the code                          *)
  MaxTicks,        (* bound: ticks that are submitted                      *)
  MaxThreads,      (* bound: threads that are ever created                 *)
  ThreadsMayFail   (* whether std::thread's constructor may throw          *)

ASSUME WorkerAssumption ==
  /\ Callers # {}
  /\ Capacity \in Nat \ {0}
  /\ StageCount \in Nat
  /\ MaxTicks \in Nat
  /\ MaxThreads \in Nat
  /\ ThreadsMayFail \in BOOLEAN

Threads == 1 .. MaxThreads
NoThread == 0
Stages == 0 .. StageCount - 1

VARIABLES
  running,      (* running_                                                *)
  handle,       (* worker_: the joinable thread, or NoThread               *)
  callPc,       (* per caller: "idle", "spawn", "assign", "join"           *)
  newThread,    (* per caller: the thread its start() has just created     *)
  spawned,      (* how many threads have been created                      *)
  loopPc,       (* per thread: "unborn", "check", "pop", "stage", "exited" *)
  loopTick,     (* per thread: the local `tick' of run()                   *)
  loopStage,    (* per thread: the local `stage' of run()                  *)
  calls,        (* per thread: the stages called for the current tick      *)
  ingress,      (* ingress_                                                *)
  submitted,    (* ticks accepted by submit(), numbered from 1             *)
  processed,    (* ticks that went through the whole pipeline, in order    *)
  published,    (* ticks handed to the event bus, in order                 *)
  stages,       (* the stages that have a handler                          *)
  bus,          (* event_bus_ is not null                                  *)
  terminated    (* std::terminate has ended the program                    *)

lifecycleVars == <<running, handle, callPc, newThread, spawned>>
loopVars == <<loopPc, loopTick, loopStage, calls, processed, published>>
configVars == <<stages, bus>>
feedVars == <<ingress, submitted>>
vars == <<lifecycleVars, loopVars, configVars, feedVars, terminated>>

Active(t) == loopPc[t] \notin {"unborn", "exited"}
Quiescent == ~running /\ \A c \in Callers : callPc[c] = "idle"

---------------------------------------------------------------------------
Init ==
  /\ running = FALSE
  /\ handle = NoThread
  /\ callPc = [c \in Callers |-> "idle"]
  /\ newThread = [c \in Callers |-> NoThread]
  /\ spawned = 0
  /\ loopPc = [t \in Threads |-> "unborn"]
  /\ loopTick = [t \in Threads |-> 0]
  /\ loopStage = [t \in Threads |-> 0]
  /\ calls = [t \in Threads |-> << >>]
  /\ ingress = << >>
  /\ submitted = 0
  /\ processed = << >>
  /\ published = << >>
  /\ stages = {}
  /\ bus \in BOOLEAN
  /\ terminated = FALSE

---------------------------------------------------------------------------
(* Configuration and feed.                                                 *)

(* set_stage: an index out of range is ignored; an empty handler unsets.   *)
SetStage(index, given) ==
  /\ ~terminated
  /\ Quiescent
  /\ stages' = IF index >= StageCount THEN stages
               ELSE IF given THEN stages \cup {index} ELSE stages \ {index}
  /\ UNCHANGED <<lifecycleVars, loopVars, bus, feedVars, terminated>>

SetEventBus(given) ==
  /\ ~terminated
  /\ Quiescent
  /\ bus' = given
  /\ UNCHANGED <<lifecycleVars, loopVars, stages, feedVars, terminated>>

(* submit() into a ring with room; into a full one it returns false and    *)
(* changes nothing.                                                        *)
Submit ==
  /\ ~terminated
  /\ submitted < MaxTicks
  /\ Len(ingress) < Capacity
  /\ submitted' = submitted + 1
  /\ ingress' = Append(ingress, submitted')
  /\ UNCHANGED <<lifecycleVars, loopVars, configVars, terminated>>

---------------------------------------------------------------------------
(* start().                                                                *)

StopInProgress == \E c \in Callers : callPc[c] = "join"

(* Mutant: running_ is stored without comparing it first.                  *)
StartStore(c) ==
  /\ ~terminated
  /\ callPc[c] = "idle"
  /\ ~StopInProgress
  /\ spawned < MaxThreads
  /\ running' = TRUE
  /\ callPc' = [callPc EXCEPT ![c] = "spawn"]
  /\ UNCHANGED <<handle, newThread, spawned, loopVars, configVars, feedVars,
                 terminated>>

(* The compare-exchange succeeds; on a running worker start() returns at   *)
(* once and changes nothing.                                               *)
StartCas(c) ==
  /\ ~terminated
  /\ callPc[c] = "idle"
  /\ ~StopInProgress
  /\ spawned < MaxThreads
  /\ ~running
  /\ running' = TRUE
  /\ callPc' = [callPc EXCEPT ![c] = "spawn"]
  /\ UNCHANGED <<handle, newThread, spawned, loopVars, configVars, feedVars,
                 terminated>>

(* The thread is created and runs; worker_ does not refer to it yet.       *)
Spawn(c) ==
  /\ ~terminated
  /\ callPc[c] = "spawn"
  /\ spawned < MaxThreads
  /\ spawned' = spawned + 1
  /\ newThread' = [newThread EXCEPT ![c] = spawned']
  /\ loopPc' = [loopPc EXCEPT ![spawned'] = "check"]
  /\ callPc' = [callPc EXCEPT ![c] = "assign"]
  /\ UNCHANGED <<running, handle, loopTick, loopStage, calls, processed,
                 published, configVars, feedVars, terminated>>

(* std::thread's constructor throws out of start(): running_ stays true.   *)
SpawnFails(c) ==
  /\ ThreadsMayFail
  /\ ~terminated
  /\ callPc[c] = "spawn"
  /\ callPc' = [callPc EXCEPT ![c] = "idle"]
  /\ UNCHANGED <<running, handle, newThread, spawned, loopVars, configVars,
                 feedVars, terminated>>

(* Move assignment to worker_: onto a joinable thread it terminates.       *)
AssignHandle(c) ==
  /\ ~terminated
  /\ callPc[c] = "assign"
  /\ handle' = newThread[c]
  /\ newThread' = [newThread EXCEPT ![c] = NoThread]
  /\ terminated' = (handle # NoThread)
  /\ callPc' = [callPc EXCEPT ![c] = "idle"]
  /\ UNCHANGED <<running, spawned, loopVars, configVars, feedVars>>

---------------------------------------------------------------------------
(* stop(), which is also the destructor.                                   *)

StopExchange(c) ==
  /\ ~terminated
  /\ \A d \in Callers : callPc[d] = "idle"
  /\ running' = FALSE
  /\ callPc' = [callPc EXCEPT ![c] = IF running THEN "join" ELSE "idle"]
  /\ UNCHANGED <<handle, newThread, spawned, loopVars, configVars, feedVars,
                 terminated>>

(* Mutant: stop() forgets the join and leaves worker_ joinable.            *)
StopWithoutJoin(c) ==
  /\ ~terminated
  /\ callPc[c] = "join"
  /\ callPc' = [callPc EXCEPT ![c] = "idle"]
  /\ UNCHANGED <<running, handle, newThread, spawned, loopVars, configVars,
                 feedVars, terminated>>

(* Mutant: stop() detaches the thread in place of joining it.              *)
StopDetaches(c) ==
  /\ ~terminated
  /\ callPc[c] = "join"
  /\ handle' = NoThread
  /\ callPc' = [callPc EXCEPT ![c] = "idle"]
  /\ UNCHANGED <<running, newThread, spawned, loopVars, configVars, feedVars,
                 terminated>>

(* join() returns once the thread has left run(); a worker_ that is not    *)
(* joinable is not joined.                                                 *)
StopReturns(c) ==
  /\ ~terminated
  /\ callPc[c] = "join"
  /\ handle # NoThread => loopPc[handle] = "exited"
  /\ handle' = NoThread
  /\ callPc' = [callPc EXCEPT ![c] = "idle"]
  /\ UNCHANGED <<running, newThread, spawned, loopVars, configVars, feedVars,
                 terminated>>

---------------------------------------------------------------------------
(* run(), on thread t.                                                     *)

(* Mutant: the loop never looks at running_.                               *)
LoopForever(t) ==
  /\ ~terminated
  /\ loopPc[t] = "check"
  /\ loopPc' = [loopPc EXCEPT ![t] = "pop"]
  /\ UNCHANGED <<lifecycleVars, loopTick, loopStage, calls, processed,
                 published, configVars, feedVars, terminated>>

LoopCheck(t) ==
  /\ ~terminated
  /\ loopPc[t] = "check"
  /\ loopPc' = [loopPc EXCEPT ![t] = IF running THEN "pop" ELSE "exited"]
  /\ UNCHANGED <<lifecycleVars, loopTick, loopStage, calls, processed,
                 published, configVars, feedVars, terminated>>

(* Mutant: the loop ends when it finds the ring empty.                     *)
LoopEndsWhenEmpty(t) ==
  /\ ~terminated
  /\ loopPc[t] = "pop"
  /\ ingress = << >>
  /\ loopPc' = [loopPc EXCEPT ![t] = "exited"]
  /\ UNCHANGED <<lifecycleVars, loopTick, loopStage, calls, processed,
                 published, configVars, feedVars, terminated>>

LoopEmpty(t) ==
  /\ ~terminated
  /\ loopPc[t] = "pop"
  /\ ingress = << >>
  /\ loopPc' = [loopPc EXCEPT ![t] = "check"]
  /\ UNCHANGED <<lifecycleVars, loopTick, loopStage, calls, processed,
                 published, configVars, feedVars, terminated>>

(* Mutant: the popped tick is dropped if the worker is being stopped.      *)
LoopPopUnlessStopping(t) ==
  /\ ~terminated
  /\ loopPc[t] = "pop"
  /\ ingress # << >>
  /\ ingress' = Tail(ingress)
  /\ loopTick' = [loopTick EXCEPT ![t] = Head(ingress)]
  /\ loopStage' = [loopStage EXCEPT ![t] = 0]
  /\ calls' = [calls EXCEPT ![t] = << >>]
  /\ loopPc' = [loopPc EXCEPT ![t] = IF running THEN "stage" ELSE "exited"]
  /\ UNCHANGED <<lifecycleVars, processed, published, configVars, submitted,
                 terminated>>

LoopPop(t) ==
  /\ ~terminated
  /\ loopPc[t] = "pop"
  /\ ingress # << >>
  /\ ingress' = Tail(ingress)
  /\ loopTick' = [loopTick EXCEPT ![t] = Head(ingress)]
  /\ loopStage' = [loopStage EXCEPT ![t] = 0]
  /\ calls' = [calls EXCEPT ![t] = << >>]
  /\ loopPc' = [loopPc EXCEPT ![t] = "stage"]
  /\ UNCHANGED <<lifecycleVars, processed, published, configVars, submitted,
                 terminated>>

(* Mutant: the last stage is never reached.                                *)
LastStageSkipped == StageCount - 1

StageBound == StageCount

(* One turn of the stage loop: the handler is called if there is one.      *)
LoopStage(t) ==
  /\ ~terminated
  /\ loopPc[t] = "stage"
  /\ loopStage[t] < StageBound
  /\ calls' = IF loopStage[t] \in stages
                THEN [calls EXCEPT ![t] = Append(@, loopStage[t])] ELSE calls
  /\ loopStage' = [loopStage EXCEPT ![t] = @ + 1]
  /\ UNCHANGED <<lifecycleVars, loopPc, loopTick, processed, published,
                 configVars, feedVars, terminated>>

(* After the stages, the tick goes to the bus if there is one.             *)
LoopPublish(t) ==
  /\ ~terminated
  /\ loopPc[t] = "stage"
  /\ loopStage[t] >= StageBound
  /\ processed' = Append(processed, loopTick[t])
  /\ published' = IF bus THEN Append(published, loopTick[t]) ELSE published
  /\ loopPc' = [loopPc EXCEPT ![t] = "check"]
  /\ UNCHANGED <<lifecycleVars, loopTick, loopStage, calls, configVars,
                 feedVars, terminated>>

---------------------------------------------------------------------------
Lifecycle(c) ==
  \/ StartCas(c)
  \/ Spawn(c)
  \/ SpawnFails(c)
  \/ AssignHandle(c)
  \/ StopExchange(c)
  \/ StopReturns(c)

Loop(t) ==
  \/ LoopCheck(t)
  \/ LoopEmpty(t)
  \/ LoopPop(t)
  \/ LoopStage(t)
  \/ LoopPublish(t)

Next ==
  \/ \E index \in 0 .. StageCount, given \in BOOLEAN : SetStage(index, given)
  \/ \E given \in BOOLEAN : SetEventBus(given)
  \/ Submit
  \/ \E c \in Callers : Lifecycle(c)
  \/ \E t \in Threads : Loop(t)

Spec == Init /\ [][Next]_vars

(* The scheduler runs every live thread: a loop keeps taking steps (so a   *)
(* handler returns), and a lifecycle call that has begun goes on.  Nobody  *)
(* is obliged to submit, start or stop.                                    *)
Fairness ==
  /\ \A t \in Threads : WF_vars(Loop(t))
  /\ \A c \in Callers :
       WF_vars(Spawn(c) \/ AssignHandle(c) \/ StopReturns(c))

FairSpec == Spec /\ Fairness

---------------------------------------------------------------------------
(* However start() calls race, and however often the worker is stopped and *)
(* started again, at most one thread is in run(): the ring's one consumer. *)
AtMostOneLoop ==
  \A t, u \in Threads : Active(t) /\ Active(u) => t = u

(* When no lifecycle call is in progress, running_ tells the truth: a      *)
(* started worker has a thread in run(), unless its creation failed and    *)
(* worker_ refers to none, and a stopped worker has none, so that the      *)
(* handlers, the bus and the worker itself may be destroyed.               *)
FlagMatchesLoop ==
  (\A c \in Callers : callPc[c] = "idle") =>
    (running /\ handle # NoThread <=> \E t \in Threads : Active(t))

(* start() never moves a thread onto a joinable worker_, which would end   *)
(* the program.                                                            *)
NeverTerminates == ~terminated

(* Every accepted tick is in exactly one place, and the order of           *)
(* acceptance is kept from the ring through the pipeline, across stops and *)
(* restarts: nothing is lost, processed twice or overtaken, and what a     *)
(* stop() leaves in the ring is where the next run() takes over.           *)
Staging == {t \in Threads : loopPc[t] = "stage"}
Numbers(n) == [i \in 1 .. n |-> i]

TicksConserved ==
  /\ Len(ingress) <= Capacity
  /\ IF Staging = {} THEN processed \o ingress = Numbers(submitted)
     ELSE \A t \in Staging : processed \o <<loopTick[t]>> \o ingress = Numbers(submitted)

(* A tick reaches the bus only after every stage that has a handler has    *)
(* been called for it once, in ascending order.                            *)
PublishedComplete ==
  [][\A t \in Threads :
       published' # published /\ loopPc[t] = "stage" /\ loopPc'[t] = "check" =>
         /\ Len(calls[t]) = Cardinality(stages)
         /\ {calls[t][i] : i \in 1 .. Len(calls[t])} = stages
         /\ \A i, j \in 1 .. Len(calls[t]) : i < j => calls[t][i] < calls[t][j]
    ]_vars

(* Once start() has given the worker its thread, an accepted tick gets     *)
(* through the pipeline unless the worker is stopped.                      *)
AcceptedIsProcessed ==
  \A k \in 1 .. MaxTicks :
    (submitted >= k /\ running /\ handle # NoThread) ~> (Len(processed) >= k \/ ~running)

(* stop() returns: the loop leaves within one tick.                        *)
StopCompletes ==
  \A c \in Callers : (callPc[c] = "join") ~> (callPc[c] = "idle")
===========================================================================
