---------------------------- MODULE RingBuffer ----------------------------
(***************************************************************************)
(* ofe::core::RingBuffer (include/ofe/core/ring_buffer.h), the lock-free   *)
(* single-producer single-consumer ring that carries ticks into a          *)
(* SymbolWorker.  One thread calls emplace/try_push, one thread calls      *)
(* try_pop/clear; either may look at empty()/size_approx().                *)
(*                                                                         *)
(* Every call is split at its atomic accesses, so the two threads          *)
(* interleave between the load of the other thread's index, the access to  *)
(* the slot, and the store of the own index.  An acquire load may return   *)
(* any value the other index has held since this thread last saw it: the   *)
(* C++ memory model orders one atomic's values but lets a load be late.    *)
(*                                                                         *)
(* head_ and tail_ are size_t counters that are never masked when stored:  *)
(* they count modulo IndexModulus (2^64 in the code) and only the slot     *)
(* number is masked.                                                       *)
(***************************************************************************)
EXTENDS Integers, Sequences

CONSTANTS
  Capacity,       (* template parameter Capacity                           *)
  IndexModulus,   (* 2^64, the range of size_t                             *)
  Values,         (* the T objects that are pushed                         *)
  NoObject,       (* a slot whose storage holds no live object             *)
  MovedFrom       (* a slot whose object has been moved out of             *)

(* Capacity is a power of two smaller than 2^64, so it divides 2^64 at     *)
(* least twice; the weaker fact is all that is used.                       *)
ASSUME RingAssumption ==
  /\ Capacity \in Nat \ {0}
  /\ IndexModulus \in Nat \ {0}
  /\ \E laps \in 2 .. IndexModulus : IndexModulus = laps * Capacity
  /\ Values # {}
  /\ NoObject \notin Values
  /\ MovedFrom \notin Values
  /\ NoObject # MovedFrom

VARIABLES
  head,       (* head_                                                     *)
  tail,       (* tail_                                                     *)
  slots,      (* storage_: slot number -> the object living in it          *)
  pushPc,     (* where the producer is: "idle", "construct", "publish"     *)
  pushValue,  (* the argument of the emplace in progress                   *)
  tailSeen,   (* the latest value of tail_ the producer has loaded         *)
  popPc,      (* "idle", "move", "destroy", "publish"                      *)
  headSeen,   (* the latest value of head_ the consumer has loaded         *)
  out,        (* the object try_pop assigns to                             *)
  clearing,   (* the consumer is inside clear()                            *)
  alive       (* the buffer has not been destroyed                         *)

producerVars == <<pushPc, pushValue, tailSeen>>
consumerVars == <<popPc, headSeen, out, clearing>>
vars == <<head, tail, slots, producerVars, consumerVars, alive>>

Indices == 0 .. IndexModulus - 1
SlotNumbers == 0 .. Capacity - 1

Advance(index) == (index + 1) % IndexModulus
Distance(from, to) == (to - from) % IndexModulus
SlotOf(index) == index % Capacity

(* The counter values met on the way from one index to a later one.        *)
Between(from, to) ==
  {i \in Indices : Distance(from, i) <= Distance(from, to)}

---------------------------------------------------------------------------
Init ==
  /\ head = 0
  /\ tail = 0
  /\ slots = [s \in SlotNumbers |-> NoObject]
  /\ pushPc = "idle"
  /\ pushValue \in Values
  /\ tailSeen = 0
  /\ popPc = "idle"
  /\ headSeen = 0
  /\ out \in Values
  /\ clearing = FALSE
  /\ alive = TRUE

---------------------------------------------------------------------------
(* The producer.                                                           *)

ProducerIdle == alive /\ pushPc = "idle"

(* Mutant: the producer keeps a cached tail_ and never reloads it.         *)
NeverReloadedTails == {tailSeen}

LoadableTails == Between(tailSeen, tail)

(* Mutant: the full test is off by one.                                    *)
IsOverfull(seen) == Distance(seen, head) > Capacity

IsFull(seen) == Distance(seen, head) >= Capacity

(* emplace loads both indices and finds no free slot.                      *)
TryPushFull ==
  /\ ProducerIdle
  /\ \E seen \in LoadableTails :
       /\ IsFull(seen)
       /\ tailSeen' = seen
  /\ UNCHANGED <<head, tail, slots, pushPc, pushValue, consumerVars, alive>>

(* emplace loads both indices and goes on to write slot head & mask_.      *)
TryPushRoom(value) ==
  /\ ProducerIdle
  /\ \E seen \in LoadableTails :
       /\ ~IsFull(seen)
       /\ tailSeen' = seen
  /\ pushValue' = value
  /\ pushPc' = "construct"
  /\ UNCHANGED <<head, tail, slots, consumerVars, alive>>

PushConstruct ==
  /\ pushPc = "construct"
  /\ slots' = [slots EXCEPT ![SlotOf(head)] = pushValue]
  /\ pushPc' = "publish"
  /\ UNCHANGED <<head, tail, pushValue, tailSeen, consumerVars, alive>>

PushPublish ==
  /\ pushPc = "publish"
  /\ head' = Advance(head)
  /\ pushPc' = "idle"
  /\ UNCHANGED <<tail, slots, pushValue, tailSeen, consumerVars, alive>>

(* empty() or size_approx() called by the producer.                        *)
ProducerLooks ==
  /\ ProducerIdle
  /\ tailSeen' \in LoadableTails
  /\ UNCHANGED <<head, tail, slots, pushPc, pushValue, consumerVars, alive>>

---------------------------------------------------------------------------
(* The consumer.                                                           *)

ConsumerIdle == alive /\ popPc = "idle"

LoadableHeads == Between(headSeen, head)

(* Mutant: masked indices are compared, so a full ring looks empty.        *)
IsEmptyMasked(seen) == SlotOf(tail) = SlotOf(seen)

IsEmpty(seen) == tail = seen

(* try_pop finds nothing; inside clear() this ends the loop.               *)
TryPopEmpty ==
  /\ ConsumerIdle
  /\ \E seen \in LoadableHeads :
       /\ IsEmpty(seen)
       /\ headSeen' = seen
  /\ clearing' = FALSE
  /\ UNCHANGED <<head, tail, slots, producerVars, popPc, out, alive>>

TryPopReady ==
  /\ ConsumerIdle
  /\ \E seen \in LoadableHeads :
       /\ ~IsEmpty(seen)
       /\ headSeen' = seen
  /\ popPc' = "move"
  /\ UNCHANGED <<head, tail, slots, producerVars, out, clearing, alive>>

PopMove ==
  /\ popPc = "move"
  /\ out' = slots[SlotOf(tail)]
  /\ slots' = [slots EXCEPT ![SlotOf(tail)] = MovedFrom]
  /\ popPc' = "destroy"
  /\ UNCHANGED <<head, tail, producerVars, headSeen, clearing, alive>>

(* Mutant: the moved-from object is not destroyed.                         *)
PopWithoutDestroy ==
  /\ popPc = "destroy"
  /\ popPc' = "publish"
  /\ UNCHANGED <<head, tail, slots, producerVars, headSeen, out, clearing, alive>>

PopDestroy ==
  /\ popPc = "destroy"
  /\ slots' = [slots EXCEPT ![SlotOf(tail)] = NoObject]
  /\ popPc' = "publish"
  /\ UNCHANGED <<head, tail, producerVars, headSeen, out, clearing, alive>>

(* Mutant: tail_ is set to the head_ that was loaded.                      *)
PopPublishSeen ==
  /\ popPc = "publish"
  /\ tail' = headSeen
  /\ popPc' = "idle"
  /\ UNCHANGED <<head, slots, producerVars, headSeen, out, clearing, alive>>

PopPublish ==
  /\ popPc = "publish"
  /\ tail' = Advance(tail)
  /\ popPc' = "idle"
  /\ UNCHANGED <<head, slots, producerVars, headSeen, out, clearing, alive>>

(* clear() enters its loop: try_pop until it returns false.                *)
BeginClear ==
  /\ ConsumerIdle
  /\ ~clearing
  /\ clearing' = TRUE
  /\ UNCHANGED <<head, tail, slots, producerVars, popPc, headSeen, out, alive>>

(* empty() or size_approx() called by the consumer.                        *)
ConsumerLooks ==
  /\ ConsumerIdle
  /\ headSeen' \in LoadableHeads
  /\ UNCHANGED <<head, tail, slots, producerVars, popPc, out, clearing, alive>>

---------------------------------------------------------------------------
(* The destructor, once neither thread is inside a call.                   *)

OccupiedSlots == {SlotOf(i) : i \in Between(tail, head) \ {head}}

Destroy ==
  /\ ProducerIdle
  /\ ConsumerIdle
  /\ ~clearing
  /\ slots' = [s \in SlotNumbers |->
                 IF s \in OccupiedSlots THEN NoObject ELSE slots[s]]
  /\ alive' = FALSE
  /\ UNCHANGED <<head, tail, producerVars, consumerVars>>

---------------------------------------------------------------------------
Producer ==
  \/ TryPushFull
  \/ \E value \in Values : TryPushRoom(value)
  \/ PushConstruct
  \/ PushPublish
  \/ ProducerLooks

Consumer ==
  \/ TryPopEmpty
  \/ TryPopReady
  \/ PopMove
  \/ PopDestroy
  \/ PopPublish
  \/ BeginClear
  \/ ConsumerLooks

Next == Producer \/ Consumer \/ Destroy

Spec == Init /\ [][Next]_vars

(* Both threads keep calling: the worker's loop polls try_pop for as long  *)
(* as it runs, a feed retries a push, and a store becomes visible to the   *)
(* other thread in finite time (the step that loads the fresh index is     *)
(* enabled throughout, so weak fairness takes it).                         *)
Fairness ==
  /\ WF_vars(\E value \in Values : TryPushRoom(value))
  /\ WF_vars(PushConstruct)
  /\ WF_vars(PushPublish)
  /\ WF_vars(TryPopReady)
  /\ WF_vars(PopMove)
  /\ WF_vars(PopDestroy)
  /\ WF_vars(PopPublish)

FairSpec == Spec /\ Fairness

---------------------------------------------------------------------------
(* Every variable stays in its range; in particular the consumer never     *)
(* assigns anything but a pushed value to the caller's object, and no      *)
(* index leaves the counter's range.                                       *)
TypeOK ==
  /\ head \in Indices
  /\ tail \in Indices
  /\ slots \in [SlotNumbers -> Values \cup {NoObject, MovedFrom}]
  /\ pushPc \in {"idle", "construct", "publish"}
  /\ pushValue \in Values
  /\ tailSeen \in Indices
  /\ popPc \in {"idle", "move", "destroy", "publish"}
  /\ headSeen \in Indices
  /\ out \in Values
  /\ clearing \in BOOLEAN
  /\ alive \in BOOLEAN

(* The producer constructs in a slot only while the consumer is not        *)
(* moving from or destroying the object of the same slot: the plain memory *)
(* accesses of emplace and try_pop never race.                             *)
NoSlotRace ==
  ~ /\ pushPc = "construct"
    /\ popPc \in {"move", "destroy"}
    /\ SlotOf(head) = SlotOf(tail)

(* Object lifetimes.  A slot holds an object exactly when its index is     *)
(* between tail_ and head_, plus the one constructed and not yet published *)
(* and minus the one destroyed and not yet published; it is moved-from     *)
(* exactly between the move and the destruction.  So emplace constructs    *)
(* only in raw storage, try_pop moves only from a pushed value, every      *)
(* object is destroyed once, and none outlives the buffer.                 *)
LifetimesExact ==
  \A slot \in SlotNumbers :
    LET popped == popPc = "publish" /\ slot = SlotOf(tail)
        moved  == popPc = "destroy" /\ slot = SlotOf(tail)
        pushed == pushPc = "publish" /\ slot = SlotOf(head)
    IN  /\ slots[slot] # NoObject <=>
              alive /\ (pushed \/ (slot \in OccupiedSlots /\ ~popped))
        /\ slots[slot] = MovedFrom <=> moved

(* What its own thread learns from empty() and size_approx() can be relied *)
(* on, however late the load of the other index is: the size is never      *)
(* above Capacity (the unsigned subtraction does not wrap), a buffer once  *)
(* seen with room still has room, and one seen non-empty is non-empty.     *)
OwnerObservationsHold ==
  /\ \A seen \in LoadableTails :
       /\ Distance(seen, head) <= Capacity
       /\ ~IsFull(tailSeen) => ~IsFull(seen)
  /\ \A seen \in LoadableHeads :
       /\ Distance(tail, seen) <= Capacity
       /\ ~IsEmpty(headSeen) => ~IsEmpty(seen)

(* The elements accepted and not yet handed out, oldest first.             *)
FirstUntaken ==
  IF popPc \in {"destroy", "publish"} THEN Advance(tail) ELSE tail

LiveQueue ==
  IF alive
    THEN [i \in 1 .. Distance(FirstUntaken, head) |->
            slots[SlotOf(FirstUntaken + i - 1)]]
    ELSE << >>

(* The ring implements the bounded FIFO queue: a push takes effect when    *)
(* head_ is stored, a pop when the object is moved out, and nothing        *)
(* leaves the queue in another way before the buffer is destroyed.         *)
Queue == INSTANCE BoundedQueue WITH queue <- LiveQueue, open <- alive
ImplementsBoundedQueue == Queue!Spec

(* While the consumer polls, an element in the buffer does not stay there  *)
(* for ever: tail_ moves past it.                                          *)
EveryElementLeaves ==
  \A index \in Indices :
    (tail = index /\ head # index) ~> (tail # index \/ ~alive)

(* While both threads keep going, a producer that retries is accepted      *)
(* again and again, even from a full buffer and with late loads.           *)
RetriedPushAccepted ==
  []<>(pushPc = "construct" \/ ~alive)
===========================================================================
