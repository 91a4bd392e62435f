--------------------------- MODULE RingBufferS1 ---------------------------
(***************************************************************************)
(* SPSCRingBuffer of the first-session code                                *)
(* (ofe_session1_code/ofe/src/core/ring_buffer.cpp): indices are stored    *)
(* already wrapped, the producer advances tail_, the consumer head_, and   *)
(* one slot always stays free to tell full from empty, so a ring of Slots  *)
(* slots holds Slots - 1 items.                                            *)
(*                                                                         *)
(* Any thread of Producers may push into any ring of Buffers: whether only *)
(* one does is up to the caller, and TickRouterS1 composes these steps     *)
(* into route().  try_push is split at the load of head_, the slot write   *)
(* and the store of tail_; try_pop likewise.  Loads return the latest      *)
(* value (RingBuffer studies late ones), and peek, size_approx, empty and  *)
(* full, which only look, are left out.                                    *)
(***************************************************************************)
EXTENDS Integers, Sequences

CONSTANTS
  Buffers,      (* the rings                                               *)
  Producers,    (* threads that call try_push                              *)
  Slots,        (* template parameter Capacity: a power of two             *)
  MaxTicks,     (* bound: ticks are numbered 1 .. MaxTicks as they arrive  *)
  NoTick        (* what a slot holds before it is first written            *)

ASSUME RingS1Assumption ==
  /\ Producers # {}
  /\ Slots \in Nat \ {0, 1}
  /\ \E k \in 1 .. Slots : Slots = 2^k
  /\ MaxTicks \in Nat
  /\ NoTick \notin 1 .. MaxTicks

Ticks == 1 .. MaxTicks
Positions == 0 .. Slots - 1
Idle == [pc |-> "idle"]

VARIABLES
  head,         (* per ring: head_, the next position to read              *)
  tail,         (* per ring: tail_, the next position to write             *)
  slots,        (* per ring: slots_                                        *)
  dropped,      (* per ring: dropped_                                      *)
  push,         (* per producer: its try_push in progress, or Idle         *)
  popPc,        (* per ring: its consumer, "idle", "move", "publish"       *)
  popped,       (* per ring: what try_pop has returned, oldest first       *)
  accepted,     (* per ring: what try_push returned true for, in order     *)
  arrived       (* how many ticks have arrived                             *)

ringVars == <<head, tail, slots, dropped, push, popPc, popped, accepted>>

After(position) == (position + 1) % Slots

---------------------------------------------------------------------------
RingInit ==
  /\ head = [b \in Buffers |-> 0]
  /\ tail = [b \in Buffers |-> 0]
  /\ slots = [b \in Buffers |-> [i \in Positions |-> NoTick]]
  /\ dropped = [b \in Buffers |-> 0]
  /\ push = [p \in Producers |-> Idle]
  /\ popPc = [b \in Buffers |-> "idle"]
  /\ popped = [b \in Buffers |-> << >>]
  /\ accepted = [b \in Buffers |-> << >>]

(* Mutant: full is one item too late.                                      *)
FullIgnoringTheFreeSlot(b) == FALSE

Full(b) == After(tail[b]) = head[b]

(* try_push begins: tail_ is loaded, and head_ for the full test.  at is   *)
(* the local current_tail.                                                 *)
PushBegin(p, b, tick) ==
  /\ push[p] = Idle
  /\ IF Full(b)
       THEN /\ dropped' = [dropped EXCEPT ![b] = @ + 1]
            /\ push' = [push EXCEPT ![p] = [pc |-> "refused", ring |-> b]]
       ELSE /\ push' = [push EXCEPT ![p] =
                          [pc |-> "write", ring |-> b, tick |-> tick, at |-> tail[b]]]
            /\ UNCHANGED dropped
  /\ UNCHANGED <<head, tail, slots, popPc, popped, accepted>>

PushWrite(p) ==
  /\ push[p].pc = "write"
  /\ slots' = [slots EXCEPT ![push[p].ring][push[p].at] = push[p].tick]
  /\ push' = [push EXCEPT ![p].pc = "publish"]
  /\ UNCHANGED <<head, tail, dropped, popPc, popped, accepted>>

PushPublish(p) ==
  /\ push[p].pc = "publish"
  /\ tail' = [tail EXCEPT ![push[p].ring] = After(push[p].at)]
  /\ accepted' = [accepted EXCEPT ![push[p].ring] = Append(@, push[p].tick)]
  /\ push' = [push EXCEPT ![p].pc = "accepted"]
  /\ UNCHANGED <<head, slots, dropped, popPc, popped>>

(* try_push has returned to its caller.                                    *)
PushReturned(p) == push[p].pc \in {"accepted", "refused"}

PushReturn(p) ==
  /\ PushReturned(p)
  /\ push' = [push EXCEPT ![p] = Idle]
  /\ UNCHANGED <<head, tail, slots, dropped, popPc, popped, accepted>>

(* Mutant: head_ moves on before the item is moved out.                    *)
PopMoveLate(b) ==
  /\ popPc[b] = "move"
  /\ head' = [head EXCEPT ![b] = After(@)]
  /\ popped' = [popped EXCEPT ![b] = Append(@, slots[b][head'[b]])]
  /\ popPc' = [popPc EXCEPT ![b] = "idle"]
  /\ UNCHANGED <<tail, slots, dropped, push, accepted>>

(* try_pop with something to pop; on an empty ring it changes nothing.     *)
PopBegin(b) ==
  /\ popPc[b] = "idle"
  /\ head[b] # tail[b]
  /\ popPc' = [popPc EXCEPT ![b] = "move"]
  /\ UNCHANGED <<head, tail, slots, dropped, push, popped, accepted>>

PopMove(b) ==
  /\ popPc[b] = "move"
  /\ popped' = [popped EXCEPT ![b] = Append(@, slots[b][head[b]])]
  /\ popPc' = [popPc EXCEPT ![b] = "publish"]
  /\ UNCHANGED <<head, tail, slots, dropped, push, accepted>>

PopPublish(b) ==
  /\ popPc[b] = "publish"
  /\ head' = [head EXCEPT ![b] = After(@)]
  /\ popPc' = [popPc EXCEPT ![b] = "idle"]
  /\ UNCHANGED <<tail, slots, dropped, push, popped, accepted>>

Consume(b) == PopBegin(b) \/ PopMove(b) \/ PopPublish(b)

---------------------------------------------------------------------------
(* The ticks between head_ and tail_ that are not yet moved out, and the   *)
(* last one that was.                                                      *)
First(b) == IF popPc[b] = "publish" THEN After(head[b]) ELSE head[b]

Waiting(b) ==
  [i \in 1 .. (tail[b] - First(b)) % Slots |-> slots[b][(First(b) + (i - 1)) % Slots]]

(* What try_push accepted is what has been popped followed by what waits:  *)
(* in order, once each.  It is this that two producers on one ring break.  *)
DeliveryExact ==
  \A b \in Buffers : popped[b] \o Waiting(b) = accepted[b]

(* The ring never holds more than Slots - 1 ticks, and never writes the    *)
(* slot the consumer is moving from.                                       *)
NoSlotConflict ==
  \A p \in Producers : push[p].pc = "write" =>
    LET b == push[p].ring
    IN  /\ popPc[b] = "move" => push[p].at # head[b]
        /\ Len(Waiting(b)) < Slots - 1
===========================================================================
