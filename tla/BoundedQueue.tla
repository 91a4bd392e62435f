--------------------------- MODULE BoundedQueue ---------------------------
(***************************************************************************)
(* What ofe::core::RingBuffer<T, Capacity> promises its one producer and   *)
(* its one consumer: a first-in first-out queue of at most Capacity        *)
(* elements.  An accepted push appends exactly one element, a successful   *)
(* pop hands out and removes the oldest one, and nothing is lost,          *)
(* duplicated, reordered or invented while the buffer lives.  Only its     *)
(* destruction discards what is left, and nothing happens after that.      *)
(***************************************************************************)
EXTENDS Naturals, Sequences

CONSTANTS
  Capacity,     (* the most elements the queue holds     *)
  Values        (* the elements                          *)

VARIABLES
  queue,        (* accepted and not yet handed out, oldest first           *)
  out,          (* the object the last successful pop assigned to          *)
  open          (* the buffer has not been destroyed                       *)

vars == <<queue, out, open>>

Init ==
  /\ queue = << >>
  /\ out \in Values
  /\ open = TRUE

Push(v) ==
  /\ open
  /\ Len(queue) < Capacity
  /\ queue' = Append(queue, v)
  /\ UNCHANGED <<out, open>>

Pop ==
  /\ open
  /\ queue # << >>
  /\ out' = Head(queue)
  /\ queue' = Tail(queue)
  /\ UNCHANGED open

Close ==
  /\ open
  /\ open' = FALSE
  /\ queue' = << >>
  /\ UNCHANGED out

Next == (\E v \in Values : Push(v)) \/ Pop \/ Close

Spec == Init /\ [][Next]_vars
===========================================================================
