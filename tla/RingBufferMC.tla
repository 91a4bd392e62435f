--------------------------- MODULE RingBufferMC ---------------------------
(* Values for RingBuffer's constants.  Two pushed values are enough to     *)
(* tell an element from its neighbour; the cfgs choose a ring of a few     *)
(* slots and counters that wrap after a few laps, so that every slot is    *)
(* reused under different counter values.                                  *)
EXTENDS RingBuffer

CONSTANTS v1, v2

MCValues == {v1, v2}
===========================================================================
