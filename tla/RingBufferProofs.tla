------------------------- MODULE RingBufferProofs -------------------------
(***************************************************************************)
(* Proofs about RingBuffer for every capacity, counter range and set of    *)
(* values: its indices, its object lifetimes, the absence of slot races,   *)
(* and that it implements BoundedQueue.                                    *)
(***************************************************************************)
EXTENDS RingBuffer, SequenceTheorems, TLAPS

---------------------------------------------------------------------------
(* Counter arithmetic.                                                     *)

(* Counter subtraction, unfolded: it wraps exactly when the later index    *)
(* is numerically the smaller one.                                         *)
LEMMA DistanceCases ==
  \A a, b \in Indices :
    Distance(a, b) = IF b >= a THEN b - a ELSE b - a + IndexModulus
BY RingAssumption DEF Distance, Indices

DistanceIs(a, b) ==
  Distance(a, b) = IF b >= a THEN b - a ELSE b - a + IndexModulus

(* Counter increment, unfolded.                                            *)
LEMMA AdvanceCases ==
  \A a \in Indices :
    Advance(a) = IF a = IndexModulus - 1 THEN 0 ELSE a + 1
BY RingAssumption DEF Advance, Indices

(* The counters can count more elements than the ring has slots.           *)
LEMMA ModulusAboveCapacity ==
  /\ Capacity \in Nat
  /\ Capacity > 0
  /\ IndexModulus \in Nat
  /\ IndexModulus > Capacity
<1>1. PICK laps \in 2 .. IndexModulus : IndexModulus = laps * Capacity
  BY RingAssumption
<1>2. laps \in Nat /\ laps >= 2 /\ Capacity \in Nat /\ Capacity > 0
  BY <1>1, RingAssumption
<1>3. laps * Capacity >= 2 * Capacity
  BY <1>2
<1> QED
  BY <1>1, <1>2, <1>3

(* Division with remainder, for the mask.                                  *)
LEMMA MaskDivision ==
  \A a \in Int : /\ a = Capacity * (a \div Capacity) + (a % Capacity)
                 /\ a \div Capacity \in Int
                 /\ a % Capacity \in SlotNumbers
BY RingAssumption DEF SlotNumbers

(* Quotient and remainder are unique.                                      *)
LEMMA RemainderUnique ==
  \A p, q \in Int, r, s \in SlotNumbers :
    Capacity * p + r = Capacity * q + s => r = s
BY RingAssumption DEF SlotNumbers

LEMMA MaskUnique ==
  \A a, q \in Int, r \in SlotNumbers :
    a = Capacity * q + r => a % Capacity = r
<1> TAKE a, q \in Int, r \in SlotNumbers
<1> HAVE a = Capacity * q + r
<1> DEFINE p == a \div Capacity
           s == a % Capacity
<1>1. a = Capacity * p + s /\ p \in Int /\ s \in SlotNumbers
  BY MaskDivision
<1> HIDE DEF p, s
<1>2. s = r
  BY <1>1, RemainderUnique
<1> QED
  BY <1>2 DEF s

(* Masking forgets the laps: the wrap of a counter moves no slot.          *)
LEMMA WrapKeepsSlot ==
  \A a \in Nat : SlotOf(a + IndexModulus) = SlotOf(a)
<1> TAKE a \in Nat
<1>1. PICK laps \in 2 .. IndexModulus : IndexModulus = laps * Capacity
  BY RingAssumption
<1>2. /\ a = Capacity * (a \div Capacity) + (a % Capacity)
      /\ a \div Capacity \in Int
      /\ a % Capacity \in SlotNumbers
  BY MaskDivision
<1>3. laps \in Int /\ Capacity \in Int /\ IndexModulus \in Int
  BY <1>1, RingAssumption
<1>4. a + IndexModulus = Capacity * ((a \div Capacity) + laps) + (a % Capacity)
  BY <1>1, <1>2, <1>3
<1>5. a + IndexModulus \in Int /\ (a \div Capacity) + laps \in Int
  BY <1>2, <1>3
<1> QED
  BY <1>2, <1>4, <1>5, MaskUnique DEF SlotOf

(* A lap of the ring comes back to the same slot.                          *)
LEMMA LapKeepsSlot ==
  \A a \in Nat : SlotOf(a + Capacity) = SlotOf(a)
<1> TAKE a \in Nat
<1> DEFINE p == a \div Capacity
           s == a % Capacity
<1>1. a = Capacity * p + s /\ p \in Int /\ s \in SlotNumbers
  BY MaskDivision
<1> HIDE DEF p, s
<1>2. Capacity \in Int /\ s \in Int
  BY <1>1, RingAssumption DEF SlotNumbers
<1>3. a + Capacity = Capacity * (p + 1) + s
  BY <1>1, <1>2
<1>4. a + Capacity \in Int /\ p + 1 \in Int
  BY <1>1, <1>2
<1>5. (a + Capacity) % Capacity = s
  BY <1>1, <1>3, <1>4, MaskUnique
<1> QED
  BY <1>5 DEF SlotOf, s

(* Two different offsets below the capacity name different slots.          *)
LEMMA OffsetsDistinct ==
  \A a \in Nat, j, k \in SlotNumbers :
    SlotOf(a + j) = SlotOf(a + k) => j = k
<1> TAKE a \in Nat, j, k \in SlotNumbers
<1> HAVE SlotOf(a + j) = SlotOf(a + k)
<1> DEFINE p == (a + j) \div Capacity
           q == (a + k) \div Capacity
           s == (a + j) % Capacity
<1>1. j \in Int /\ k \in Int /\ Capacity \in Int
  BY RingAssumption DEF SlotNumbers
<1>a. a + j \in Int /\ a + k \in Int
  BY <1>1
<1>b. \A i \in Int : /\ i = Capacity * (i \div Capacity) + (i % Capacity)
                    /\ i \div Capacity \in Int /\ i % Capacity \in SlotNumbers
  BY MaskDivision, Zenon
<1>2. a + j = Capacity * p + s /\ p \in Int /\ s \in SlotNumbers
  BY <1>a, <1>b, Zenon
<1>c. (a + k) % Capacity = s
  BY DEF SlotOf
<1>3. a + k = Capacity * q + s /\ q \in Int
  BY <1>a, <1>b, <1>c, Zenon
<1> HIDE DEF p, q, s
<1>4. s \in Int
  BY <1>2 DEF SlotNumbers
<1>5. Capacity * (p - q) + k = Capacity * 0 + j
  BY <1>1, <1>2, <1>3, <1>4
<1>6. p - q \in Int /\ 0 \in Int
  BY <1>2, <1>3
<1> QED
  BY <1>5, <1>6, RemainderUnique

(* The offsets below the capacity reach every slot.                        *)
LEMMA OffsetsCover ==
  \A a \in Nat, slot \in SlotNumbers :
    \E k \in SlotNumbers : slot = SlotOf(a + k)
<1> TAKE a \in Nat, slot \in SlotNumbers
<1> DEFINE k == (slot - a) % Capacity
           q == (slot - a) \div Capacity
<1>1. slot \in Int /\ Capacity \in Int
  BY RingAssumption DEF SlotNumbers
<1>2. slot - a = Capacity * q + k /\ q \in Int /\ k \in SlotNumbers
  BY SMTT(30), <1>1, MaskDivision
<1> HIDE DEF k, q
<1>3. k \in Int
  BY <1>2 DEF SlotNumbers
<1>4. a + k = Capacity * (0 - q) + slot /\ 0 - q \in Int /\ a + k \in Int
  BY <1>1, <1>2, <1>3
<1>5. (a + k) % Capacity = slot
  BY <1>4, MaskUnique
<1> QED
  BY <1>2, <1>5 DEF SlotOf

(* The slot of a later index is reached from an earlier one by counting.   *)
LEMMA SlotAtDistance ==
  \A a, b \in Indices : SlotOf(b) = SlotOf(a + Distance(a, b))
<1> TAKE a, b \in Indices
<1>1. a \in Nat /\ b \in Nat /\ IndexModulus \in Nat
  BY RingAssumption DEF Indices
<1>2. a + Distance(a, b) = b \/ a + Distance(a, b) = b + IndexModulus
  BY <1>1, DistanceCases
<1> QED
  BY <1>1, <1>2, WrapKeepsSlot

LEMMA SlotAfterAdvance ==
  \A a \in Indices, k \in Nat : SlotOf(Advance(a) + k) = SlotOf(a + 1 + k)
<1> TAKE a \in Indices, k \in Nat
<1>1. a \in Nat /\ IndexModulus \in Nat
  BY RingAssumption DEF Indices
<1>2. CASE a = IndexModulus - 1
  <2>1. Advance(a) + k = k /\ a + 1 + k = k + IndexModulus
    BY <1>1, <1>2, AdvanceCases
  <2> QED
    BY <2>1, WrapKeepsSlot
<1>3. CASE a # IndexModulus - 1
  BY <1>1, <1>3, AdvanceCases
<1> QED
  BY <1>2, <1>3

LEMMA SlotInRange == \A a \in Nat : SlotOf(a) \in SlotNumbers
BY RingAssumption DEF SlotOf, SlotNumbers

---------------------------------------------------------------------------
(* The inductive invariant.                                                *)

(* The indices, as every thread last saw them: tail_ is between what the   *)
(* producer saw of it and head_, head_ is at most Capacity ahead of what   *)
(* the producer saw, what the consumer saw of head_ is between tail_ and   *)
(* head_; a producer past its test has seen room, a consumer past its test *)
(* has seen an element, and a destroyed buffer has nobody inside.          *)
IndexTypes ==
  /\ head \in Indices
  /\ tail \in Indices
  /\ tailSeen \in Indices
  /\ headSeen \in Indices
  /\ pushPc \in {"idle", "construct", "publish"}
  /\ popPc \in {"idle", "move", "destroy", "publish"}
  /\ clearing \in BOOLEAN
  /\ alive \in BOOLEAN

IndexOrder ==
  /\ Distance(tailSeen, head) <= Capacity
  /\ Distance(tail, head) <= Distance(tailSeen, head)
  /\ Distance(tail, headSeen) <= Distance(tail, head)
  /\ pushPc # "idle" => ~IsFull(tailSeen)
  /\ popPc # "idle" => ~IsEmpty(headSeen)
  /\ ~alive => pushPc = "idle" /\ popPc = "idle"

IndexInv == IndexTypes /\ IndexOrder

(* What the slot at each offset from tail_ may hold.                       *)
Expected(k) ==
  IF ~alive \/ (k = 0 /\ popPc = "publish") THEN {NoObject}
  ELSE IF k = 0 /\ popPc = "destroy" THEN {MovedFrom}
  ELSE IF k < Distance(tail, head) THEN Values
  ELSE IF k = Distance(tail, head) /\ pushPc = "publish" THEN {pushValue}
  ELSE {NoObject}

SlotInv ==
  /\ slots \in [SlotNumbers -> Values \cup {NoObject, MovedFrom}]
  /\ pushValue \in Values
  /\ out \in Values
  /\ \A k \in SlotNumbers : slots[SlotOf(tail + k)] \in Expected(k)

IInv == IndexInv /\ SlotInv

---------------------------------------------------------------------------
(* The indices.                                                            *)

LEMMA InitIndex == Init => IndexInv
<1>1. 0 \in Indices
  BY ModulusAboveCapacity DEF Indices
<1>2. Distance(0, 0) = 0
  BY <1>1, DistanceCases
<1>3. Init => IndexTypes
  BY <1>1 DEF Init, IndexTypes
<1>4. ASSUME Init PROVE IndexOrder
  <2>1. head = 0 /\ tail = 0 /\ tailSeen = 0 /\ headSeen = 0
    BY <1>4 DEF Init
  <2>2. /\ Distance(tailSeen, head) = 0
        /\ Distance(tail, head) = 0
        /\ Distance(tail, headSeen) = 0
    BY <1>2, <2>1
  <2>3. pushPc = "idle" /\ popPc = "idle" /\ alive
    BY <1>4 DEF Init
  <2> QED
    BY <2>2, <2>3, ModulusAboveCapacity DEF IndexOrder
<1> QED
  BY <1>3, <1>4 DEF IndexInv

(* A load of the other thread's index, however late, keeps the order.      *)
LEMMA LateTail ==
  ASSUME IndexInv, NEW seen \in LoadableTails
  PROVE  /\ seen \in Indices
         /\ Distance(seen, head) <= Capacity
         /\ Distance(tail, head) <= Distance(seen, head)
         /\ Distance(seen, head) <= Distance(tailSeen, head)
<1>1. seen \in Indices /\ Distance(tailSeen, seen) <= Distance(tailSeen, tail)
  BY DEF LoadableTails, Between
<1>2. head \in Indices /\ tail \in Indices /\ tailSeen \in Indices
  BY DEF IndexInv, IndexTypes
<1>3. /\ DistanceIs(tailSeen, seen)
      /\ DistanceIs(tailSeen, tail)
      /\ DistanceIs(tailSeen, head)
      /\ DistanceIs(tail, head)
      /\ DistanceIs(seen, head)
  BY <1>1, <1>2, DistanceCases DEF DistanceIs
<1> QED
  BY <1>1, <1>2, <1>3, ModulusAboveCapacity
     DEF DistanceIs, IndexInv, IndexOrder, Indices

LEMMA LateHead ==
  ASSUME IndexInv, NEW seen \in LoadableHeads
  PROVE  /\ seen \in Indices
         /\ Distance(tail, seen) <= Distance(tail, head)
         /\ Distance(tail, headSeen) <= Distance(tail, seen)
<1>1. seen \in Indices /\ Distance(headSeen, seen) <= Distance(headSeen, head)
  BY DEF LoadableHeads, Between
<1>2. head \in Indices /\ tail \in Indices /\ headSeen \in Indices
  BY DEF IndexInv, IndexTypes
<1>3. /\ DistanceIs(headSeen, seen)
      /\ DistanceIs(headSeen, head)
      /\ DistanceIs(tail, headSeen)
      /\ DistanceIs(tail, head)
      /\ DistanceIs(tail, seen)
  BY <1>1, <1>2, DistanceCases DEF DistanceIs
<1> QED
  BY <1>1, <1>2, <1>3, ModulusAboveCapacity
     DEF DistanceIs, IndexInv, IndexOrder, Indices

(* Every step keeps the order of the indices.                              *)
LEMMA IndexStep == IndexInv /\ [Next]_vars => IndexInv'
<1> SUFFICES ASSUME IndexInv, [Next]_vars
             PROVE  IndexInv'
  OBVIOUS
<1> USE DEF IndexInv, IndexTypes, IndexOrder, IsFull, IsEmpty, ProducerIdle,
            ConsumerIdle, producerVars, consumerVars
<1>1. CASE TryPushFull
  BY <1>1, LateTail DEF TryPushFull
<1>2. ASSUME NEW value \in Values, TryPushRoom(value)
      PROVE  IndexInv'
  BY <1>2, LateTail DEF TryPushRoom
<1>3. CASE PushConstruct
  BY <1>3 DEF PushConstruct
<1>4. CASE PushPublish
  <2>1. head' = Advance(head) /\ tail' = tail /\ tailSeen' = tailSeen
    BY <1>4 DEF PushPublish
  <2>2. head' \in Indices /\ head' = IF head = IndexModulus - 1 THEN 0 ELSE head + 1
    BY <2>1, AdvanceCases, ModulusAboveCapacity DEF Indices
  <2>3. /\ DistanceIs(tailSeen, head) /\ DistanceIs(tailSeen, head')
        /\ DistanceIs(tail, head) /\ DistanceIs(tail, head')
        /\ DistanceIs(tail, headSeen)
    BY <2>2, DistanceCases DEF DistanceIs
  <2>4. Distance(tailSeen, head) < Capacity
    BY <1>4, <2>3, ModulusAboveCapacity DEF PushPublish, DistanceIs, Indices
  <2>5. /\ Distance(tailSeen, head') = Distance(tailSeen, head) + 1
        /\ Distance(tail, head') = Distance(tail, head) + 1
    BY <2>2, <2>3, <2>4, ModulusAboveCapacity DEF DistanceIs, Indices
  <2>6. /\ Distance(tailSeen, head) \in Nat
        /\ Distance(tail, head) \in Nat
        /\ Distance(tail, headSeen) \in Nat
    BY <2>3, ModulusAboveCapacity DEF DistanceIs, Indices
  <2> QED
    BY <1>4, <2>1, <2>2, <2>4, <2>5, <2>6, ModulusAboveCapacity DEF PushPublish
<1>5. CASE ProducerLooks
  BY <1>5, LateTail DEF ProducerLooks
<1>6. CASE TryPopEmpty
  BY <1>6, LateHead DEF TryPopEmpty
<1>7. CASE TryPopReady
  BY <1>7, LateHead DEF TryPopReady
<1>8. CASE PopMove
  BY <1>8 DEF PopMove
<1>9. CASE PopDestroy
  BY <1>9 DEF PopDestroy
<1>10. CASE PopPublish
  <2>1. /\ tail' = Advance(tail) /\ head' = head
        /\ tailSeen' = tailSeen /\ headSeen' = headSeen
    BY <1>10 DEF PopPublish
  <2>2. tail' \in Indices /\ tail' = IF tail = IndexModulus - 1 THEN 0 ELSE tail + 1
    BY <2>1, AdvanceCases, ModulusAboveCapacity DEF Indices
  <2>3. /\ DistanceIs(tailSeen, head)
        /\ DistanceIs(tail, head) /\ DistanceIs(tail', head)
        /\ DistanceIs(tail, headSeen) /\ DistanceIs(tail', headSeen)
    BY <2>2, DistanceCases DEF DistanceIs
  <2>4. tail # headSeen
    BY <1>10 DEF PopPublish
  <2>5. /\ Distance(tail', head) = Distance(tail, head) - 1
        /\ Distance(tail', headSeen) = Distance(tail, headSeen) - 1
    BY <2>2, <2>3, <2>4, ModulusAboveCapacity DEF DistanceIs, Indices
  <2>6. /\ Distance(tailSeen, head) \in Nat
        /\ Distance(tail, head) \in Nat
        /\ Distance(tail, headSeen) \in Nat
    BY <2>3, ModulusAboveCapacity DEF DistanceIs, Indices
  <2> QED
    BY <1>10, <2>1, <2>2, <2>5, <2>6, ModulusAboveCapacity DEF PopPublish
<1>11. CASE BeginClear
  BY <1>11 DEF BeginClear
<1>12. CASE ConsumerLooks
  BY <1>12, LateHead DEF ConsumerLooks
<1>13. CASE Destroy
  BY <1>13 DEF Destroy
<1>14. CASE UNCHANGED vars
  BY <1>14 DEF vars
<1> QED
  BY <1>1, <1>2, <1>3, <1>4, <1>5, <1>6, <1>7, <1>8, <1>9, <1>10, <1>11,
     <1>12, <1>13, <1>14 DEF Next, Producer, Consumer

---------------------------------------------------------------------------
(* The slots.                                                              *)

LEMMA InitSlots == Init => SlotInv
<1> SUFFICES ASSUME Init
             PROVE  SlotInv
  OBVIOUS
<1>1. 0 \in Indices /\ Distance(0, 0) = 0
  BY ModulusAboveCapacity, DistanceCases DEF Indices
<1>2. slots \in [SlotNumbers -> Values \cup {NoObject, MovedFrom}]
  BY DEF Init
<1>3. ASSUME NEW k \in SlotNumbers
      PROVE  slots[SlotOf(tail + k)] \in Expected(k)
  <2>1. k \in Nat /\ SlotOf(tail + k) \in SlotNumbers
    BY SlotInRange DEF Init, SlotNumbers
  <2>2. slots[SlotOf(tail + k)] = NoObject
    BY <2>1 DEF Init
  <2>3. Expected(k) = {NoObject}
    BY <1>1, <2>1 DEF Expected, Init
  <2> QED
    BY <2>2, <2>3
<1> QED
  BY <1>2, <1>3 DEF SlotInv, Init

(* How many elements there are, and where tail_ and head_ point.           *)
LEMMA Occupancy ==
  ASSUME IndexInv
  PROVE  /\ tail \in Nat
         /\ head \in Nat
         /\ Distance(tail, head) \in 0 .. Capacity
         /\ SlotOf(tail) = SlotOf(tail + 0)
         /\ SlotOf(head) = SlotOf(tail + Distance(tail, head))
         /\ pushPc # "idle" => Distance(tail, head) \in SlotNumbers
         /\ popPc # "idle" => Distance(tail, head) > 0
         /\ 0 \in SlotNumbers
<1>1. tail \in Indices /\ head \in Indices /\ headSeen \in Indices /\ tailSeen \in Indices
  BY DEF IndexInv, IndexTypes
<1>2. tail \in Nat /\ head \in Nat /\ tail = tail + 0
  BY <1>1, ModulusAboveCapacity DEF Indices
<1>3. DistanceIs(tail, head) /\ DistanceIs(tail, headSeen) /\ DistanceIs(tailSeen, head)
  BY <1>1, DistanceCases DEF DistanceIs
<1>4. Distance(tail, head) \in Nat /\ Distance(tail, headSeen) \in Nat
      /\ Distance(tailSeen, head) \in Nat
  BY <1>1, <1>3, ModulusAboveCapacity DEF DistanceIs, Indices
<1>5. popPc # "idle" => Distance(tail, headSeen) > 0
  BY <1>1, <1>3, ModulusAboveCapacity
     DEF DistanceIs, Indices, IndexInv, IndexOrder, IsEmpty
<1>6. SlotOf(head) = SlotOf(tail + Distance(tail, head))
  BY <1>1, SlotAtDistance
<1> QED
  BY <1>2, <1>4, <1>5, <1>6, ModulusAboveCapacity
     DEF IndexInv, IndexOrder, IsFull, SlotNumbers

(* The slots between tail_ and head_ are those at the offsets below the    *)
(* number of elements.                                                     *)
LEMMA OccupiedOffsets ==
  ASSUME IndexInv, NEW k \in SlotNumbers
  PROVE  SlotOf(tail + k) \in OccupiedSlots <=> k < Distance(tail, head)
<1>1. /\ tail \in Indices /\ head \in Indices /\ tail \in Nat /\ k \in Nat
      /\ Distance(tail, head) \in 0 .. Capacity
  BY Occupancy, ModulusAboveCapacity DEF IndexInv, IndexTypes, SlotNumbers
<1>2. ASSUME SlotOf(tail + k) \in OccupiedSlots
      PROVE  k < Distance(tail, head)
  <2>1. PICK i \in Between(tail, head) \ {head} : SlotOf(i) = SlotOf(tail + k)
    BY <1>2 DEF OccupiedSlots
  <2>2. i \in Indices /\ Distance(tail, i) <= Distance(tail, head) /\ i # head
    BY <2>1 DEF Between
  <2>3. DistanceIs(tail, i) /\ DistanceIs(tail, head)
    BY <1>1, <2>2, DistanceCases DEF DistanceIs
  <2>4. Distance(tail, i) < Distance(tail, head) /\ Distance(tail, i) \in SlotNumbers
    BY <1>1, <2>2, <2>3, ModulusAboveCapacity DEF DistanceIs, Indices, SlotNumbers
  <2>5. SlotOf(tail + Distance(tail, i)) = SlotOf(tail + k)
    BY <1>1, <2>1, <2>2, SlotAtDistance
  <2>6. Distance(tail, i) = k
    BY <1>1, <2>4, <2>5, OffsetsDistinct
  <2> QED
    BY <2>4, <2>6
<1>3. ASSUME k < Distance(tail, head)
      PROVE  SlotOf(tail + k) \in OccupiedSlots
  <2> DEFINE i == IF tail + k >= IndexModulus THEN tail + k - IndexModulus ELSE tail + k
  <2>1. i \in Indices
    BY <1>1, <1>3, ModulusAboveCapacity DEF Indices
  <2>2. DistanceIs(tail, i) /\ DistanceIs(tail, head)
    BY <1>1, <2>1, DistanceCases DEF DistanceIs
  <2>3. Distance(tail, i) = k
    BY <1>1, <1>3, <2>1, <2>2, ModulusAboveCapacity DEF DistanceIs, Indices
  <2>4. i \in Between(tail, head) \ {head}
    BY <1>1, <1>3, <2>1, <2>3 DEF Between
  <2>5. SlotOf(i) = SlotOf(tail + k)
    BY <1>1, <2>1, <2>3, SlotAtDistance
  <2> QED
    BY <2>4, <2>5 DEF OccupiedSlots
<1> QED
  BY <1>2, <1>3

(* Writing one slot of the ring leaves every other offset alone.           *)
LEMMA WriteAtOffset ==
  ASSUME tail \in Nat, NEW j \in SlotNumbers, NEW object,
         slots \in [SlotNumbers -> Values \cup {NoObject, MovedFrom}],
         object \in Values \cup {NoObject, MovedFrom},
         slots' = [slots EXCEPT ![SlotOf(tail + j)] = object]
  PROVE  /\ slots' \in [SlotNumbers -> Values \cup {NoObject, MovedFrom}]
         /\ slots'[SlotOf(tail + j)] = object
         /\ \A k \in SlotNumbers :
              k # j => slots'[SlotOf(tail + k)] = slots[SlotOf(tail + k)]
<1>1. \A k \in SlotNumbers : SlotOf(tail + k) \in SlotNumbers
  BY SMTT(30), SlotInRange, ModulusAboveCapacity DEF SlotNumbers
<1>2. \A k \in SlotNumbers : k # j => SlotOf(tail + k) # SlotOf(tail + j)
  BY OffsetsDistinct
<1> QED
  BY <1>1, <1>2

(* Every step keeps what each slot may hold.                               *)
LEMMA SlotStep == IInv /\ [Next]_vars => SlotInv'
<1> SUFFICES ASSUME IInv, [Next]_vars
             PROVE  SlotInv'
  OBVIOUS
<1> DEFINE count == Distance(tail, head)
<1>a. /\ IndexInv
      /\ slots \in [SlotNumbers -> Values \cup {NoObject, MovedFrom}]
      /\ pushValue \in Values
      /\ out \in Values
      /\ \A k \in SlotNumbers : slots[SlotOf(tail + k)] \in Expected(k)
  BY DEF IInv, SlotInv
<1>b. /\ tail \in Nat
      /\ head \in Nat
      /\ count \in 0 .. Capacity
      /\ SlotOf(tail) = SlotOf(tail + 0)
      /\ SlotOf(head) = SlotOf(tail + count)
      /\ pushPc # "idle" => count \in SlotNumbers
      /\ popPc # "idle" => count > 0
      /\ 0 \in SlotNumbers
  BY <1>a, Occupancy
<1>c. pushPc # "idle" \/ popPc # "idle" => alive
  BY <1>a DEF IndexInv, IndexOrder
<1> USE DEF producerVars, consumerVars
(* Steps that change neither a slot nor what the slots may hold.           *)
<1>d. ASSUME UNCHANGED <<head, tail, slots, alive, out>>,
             pushValue' \in Values,
             pushPc = "publish" <=> pushPc' = "publish",
             pushPc = "publish" => pushValue' = pushValue,
             popPc = "destroy" <=> popPc' = "destroy",
             popPc = "publish" <=> popPc' = "publish"
      PROVE  SlotInv'
  <2>1. \A k \in SlotNumbers : Expected(k)' = Expected(k)
    BY <1>d DEF Expected
  <2> QED
    BY <1>a, <1>d, <2>1 DEF SlotInv
<1>1. CASE TryPushFull
  BY <1>1, <1>a, <1>d DEF TryPushFull
<1>2. ASSUME NEW value \in Values, TryPushRoom(value)
      PROVE  SlotInv'
  BY <1>2, <1>a, <1>d DEF TryPushRoom, ProducerIdle
<1>3. CASE PushConstruct
  <2>1. count \in SlotNumbers /\ alive
    BY <1>3, <1>b, <1>c DEF PushConstruct
  <2>2. slots' = [slots EXCEPT ![SlotOf(tail + count)] = pushValue]
    BY <1>3, <1>b DEF PushConstruct
  <2>3. /\ slots' \in [SlotNumbers -> Values \cup {NoObject, MovedFrom}]
        /\ slots'[SlotOf(tail + count)] = pushValue
        /\ \A k \in SlotNumbers :
             k # count => slots'[SlotOf(tail + k)] = slots[SlotOf(tail + k)]
    BY <1>a, <1>b, <2>1, <2>2, WriteAtOffset
  <2>4. ASSUME NEW k \in SlotNumbers
        PROVE  slots'[SlotOf(tail + k)] \in Expected(k)'
    <3>1. CASE k = count
      <4>1. ~(k = 0 /\ popPc' \in {"destroy", "publish"})
        BY <1>3, <1>b, <3>1 DEF PushConstruct
      <4>2. Expected(k)' = {pushValue}
        BY <1>3, <1>b, <2>1, <3>1, <4>1 DEF PushConstruct, Expected
      <4> QED
        BY <2>3, <3>1, <4>2
    <3>2. CASE k # count
      <4>1. Expected(k)' = Expected(k)
        BY <1>3, <3>2 DEF PushConstruct, Expected
      <4> QED
        BY <1>a, <2>3, <3>2, <4>1
    <3> QED
      BY <3>1, <3>2
  <2> QED
    BY <1>3, <1>a, <2>3, <2>4 DEF PushConstruct, SlotInv
<1>4. CASE PushPublish
  <2>1. count \in SlotNumbers /\ alive
    BY <1>4, <1>b, <1>c DEF PushPublish
  <2>2. Distance(tail, head)' = count + 1
    <3>1. tail \in Indices /\ head \in Indices /\ head' \in Indices
          /\ head' = IF head = IndexModulus - 1 THEN 0 ELSE head + 1
      BY <1>4, <1>a, AdvanceCases, ModulusAboveCapacity
         DEF PushPublish, IndexInv, IndexTypes, Indices
    <3>2. DistanceIs(tail, head) /\ DistanceIs(tail, head')
      BY <3>1, DistanceCases DEF DistanceIs
    <3>3. tail' = tail
      BY <1>4 DEF PushPublish
    <3> QED
      BY <1>b, <2>1, <3>1, <3>2, <3>3, ModulusAboveCapacity
         DEF DistanceIs, Indices, SlotNumbers
  <2>3. ASSUME NEW k \in SlotNumbers
        PROVE  Expected(k) \subseteq Expected(k)'
    BY <1>4, <1>a, <1>b, <2>1, <2>2 DEF PushPublish, Expected, SlotNumbers
  <2> QED
    BY <1>4, <1>a, <2>3 DEF PushPublish, SlotInv
<1>5. CASE ProducerLooks
  BY <1>5, <1>a, <1>d DEF ProducerLooks
<1>6. CASE TryPopEmpty
  BY <1>6, <1>a, <1>d DEF TryPopEmpty
<1>7. CASE TryPopReady
  BY <1>7, <1>a, <1>d DEF TryPopReady, ConsumerIdle
<1>8. CASE PopMove
  <2>1. count > 0 /\ alive
    BY <1>8, <1>b, <1>c DEF PopMove
  <2>2. out' \in Values
    BY <1>8, <1>a, <1>b, <2>1 DEF PopMove, Expected
  <2>3. slots' = [slots EXCEPT ![SlotOf(tail + 0)] = MovedFrom]
    BY <1>8, <1>b DEF PopMove
  <2>4. /\ slots' \in [SlotNumbers -> Values \cup {NoObject, MovedFrom}]
        /\ slots'[SlotOf(tail + 0)] = MovedFrom
        /\ \A k \in SlotNumbers :
             k # 0 => slots'[SlotOf(tail + k)] = slots[SlotOf(tail + k)]
    BY <1>a, <1>b, <2>3, WriteAtOffset
  <2>5. ASSUME NEW k \in SlotNumbers
        PROVE  slots'[SlotOf(tail + k)] \in Expected(k)'
    BY <1>8, <1>a, <2>1, <2>4 DEF PopMove, Expected
  <2> QED
    BY <1>8, <1>a, <2>2, <2>4, <2>5 DEF PopMove, SlotInv
<1>9. CASE PopDestroy
  <2>1. count > 0 /\ alive
    BY <1>9, <1>b, <1>c DEF PopDestroy
  <2>2. slots' = [slots EXCEPT ![SlotOf(tail + 0)] = NoObject]
    BY <1>9, <1>b DEF PopDestroy
  <2>3. /\ slots' \in [SlotNumbers -> Values \cup {NoObject, MovedFrom}]
        /\ slots'[SlotOf(tail + 0)] = NoObject
        /\ \A k \in SlotNumbers :
             k # 0 => slots'[SlotOf(tail + k)] = slots[SlotOf(tail + k)]
    BY <1>a, <1>b, <2>2, WriteAtOffset
  <2>4. ASSUME NEW k \in SlotNumbers
        PROVE  slots'[SlotOf(tail + k)] \in Expected(k)'
    <3>1. CASE k = 0
      BY <1>9, <2>3, <3>1 DEF PopDestroy, Expected
    <3>2. CASE k # 0
      <4>1. Expected(k)' = Expected(k)
        BY <1>9, <3>2 DEF PopDestroy, Expected
      <4> QED
        BY <1>a, <2>3, <3>2, <4>1
    <3> QED
      BY <3>1, <3>2
  <2> QED
    BY <1>9, <1>a, <2>3, <2>4 DEF PopDestroy, SlotInv
<1>10. CASE PopPublish
  <2>1. count > 0 /\ alive
    BY <1>10, <1>b, <1>c DEF PopPublish
  <2>2. tail \in Indices /\ head \in Indices /\ tail' \in Indices /\ tail' = Advance(tail)
        /\ tail' = IF tail = IndexModulus - 1 THEN 0 ELSE tail + 1
    BY <1>10, <1>a, AdvanceCases, ModulusAboveCapacity
       DEF PopPublish, IndexInv, IndexTypes, Indices
  <2>3. Distance(tail', head) = count - 1 /\ head' = head
    <3>1. DistanceIs(tail, head) /\ DistanceIs(tail', head)
      BY <2>2, DistanceCases DEF DistanceIs
    <3> QED
      BY <1>10, <2>1, <2>2, <3>1, ModulusAboveCapacity
         DEF DistanceIs, Indices, PopPublish
  <2>4. ASSUME NEW k \in SlotNumbers
        PROVE  slots'[SlotOf(tail' + k)] \in Expected(k)'
    <3>1. k \in Nat /\ k < Capacity /\ slots' = slots
      BY <1>10, ModulusAboveCapacity DEF SlotNumbers, PopPublish
    <3>2. SlotOf(tail' + k) = SlotOf(tail + 1 + k)
      BY <2>2, <3>1, SlotAfterAdvance
    <3>3. CASE k + 1 < Capacity
      <4>1. k + 1 \in SlotNumbers /\ tail + 1 + k = tail + (k + 1)
        BY <1>b, <3>1, <3>3, ModulusAboveCapacity DEF SlotNumbers
      <4>2. slots[SlotOf(tail + (k + 1))] \in Expected(k + 1)
        BY <1>a, <4>1
      <4>3. Expected(k + 1) = Expected(k)'
        BY <1>10, <1>b, <2>1, <2>3, <3>1 DEF PopPublish, Expected
      <4> QED
        BY <3>1, <3>2, <4>1, <4>2, <4>3
    <3>4. CASE k + 1 = Capacity
      <4>1. tail + 1 + k = (tail + 0) + Capacity /\ tail + 0 \in Nat
        BY <1>b, <3>1, <3>4, ModulusAboveCapacity
      <4>2. SlotOf(tail' + k) = SlotOf(tail + 0)
        BY <3>2, <4>1, LapKeepsSlot
      <4>3. slots[SlotOf(tail + 0)] = NoObject
        BY <1>10, <1>a, <1>b, <2>1 DEF PopPublish, Expected
      <4>4. Expected(k)' = {NoObject}
        BY <1>10, <1>b, <2>1, <2>3, <3>1, <3>4 DEF PopPublish, Expected, SlotNumbers
      <4> QED
        BY <3>1, <4>2, <4>3, <4>4
    <3> QED
      BY <3>1, <3>3, <3>4, ModulusAboveCapacity
  <2> QED
    BY <1>10, <1>a, <2>4 DEF PopPublish, SlotInv
<1>11. CASE BeginClear
  BY <1>11, <1>a, <1>d DEF BeginClear
<1>12. CASE ConsumerLooks
  BY <1>12, <1>a, <1>d DEF ConsumerLooks
<1>13. CASE Destroy
  <2>1. slots' \in [SlotNumbers -> Values \cup {NoObject, MovedFrom}]
    BY <1>13, <1>a DEF Destroy
  <2>2. ASSUME NEW k \in SlotNumbers
        PROVE  slots'[SlotOf(tail' + k)] \in Expected(k)'
    <3>1. k \in Nat /\ SlotOf(tail + k) \in SlotNumbers /\ tail' = tail
      <4>1. k \in Nat
        BY ModulusAboveCapacity DEF SlotNumbers
      <4> QED
        BY <1>13, <1>b, <4>1, SlotInRange DEF Destroy
    <3>2. slots'[SlotOf(tail + k)] = NoObject
      <4>1. CASE k < count
        BY <1>13, <1>a, <3>1, <4>1, OccupiedOffsets DEF Destroy
      <4>2. CASE ~(k < count)
        <5>1. slots[SlotOf(tail + k)] = NoObject
          BY <1>13, <1>a, <4>2 DEF Destroy, ProducerIdle, ConsumerIdle, Expected
        <5> QED
          BY <1>13, <3>1, <5>1 DEF Destroy
      <4> QED
        BY <4>1, <4>2
    <3>3. Expected(k)' = {NoObject}
      BY <1>13 DEF Destroy, Expected
    <3> QED
      BY <3>1, <3>2, <3>3
  <2> QED
    BY <1>13, <1>a, <2>1, <2>2 DEF Destroy, SlotInv
<1>14. CASE UNCHANGED vars
  BY <1>14, <1>a, <1>d DEF vars
<1> QED
  BY <1>1, <1>2, <1>3, <1>4, <1>5, <1>6, <1>7, <1>8, <1>9, <1>10, <1>11,
     <1>12, <1>13, <1>14 DEF Next, Producer, Consumer

(* The inductive invariant holds in every reachable state.                 *)
THEOREM InvariantHolds == Spec => []IInv
<1>1. Init => IInv
  BY InitIndex, InitSlots DEF IInv
<1>2. IInv /\ [Next]_vars => IInv'
  BY IndexStep, SlotStep DEF IInv
<1> QED
  BY <1>1, <1>2, PTL DEF Spec

---------------------------------------------------------------------------
(* The properties.                                                         *)

(* Every variable stays in its range, whatever the capacity, the counter   *)
(* range and the values: try_pop only ever hands out pushed values.        *)
THEOREM TypeCorrect == Spec => []TypeOK
<1>1. IInv => TypeOK
  BY DEF IInv, IndexInv, IndexTypes, SlotInv, TypeOK
<1> QED
  BY <1>1, InvariantHolds, PTL

(* emplace and try_pop never touch the same slot at the same time.         *)
THEOREM SlotRaceFree == Spec => []NoSlotRace
<1>1. IInv => NoSlotRace
  <2> SUFFICES ASSUME IInv, pushPc = "construct", popPc \in {"move", "destroy"}
               PROVE  SlotOf(head) # SlotOf(tail)
    BY DEF NoSlotRace
  <2>1. /\ tail \in Nat
        /\ SlotOf(tail) = SlotOf(tail + 0)
        /\ SlotOf(head) = SlotOf(tail + Distance(tail, head))
        /\ Distance(tail, head) \in SlotNumbers
        /\ Distance(tail, head) > 0
        /\ 0 \in SlotNumbers
    BY Occupancy DEF IInv
  <2> QED
    BY <2>1, OffsetsDistinct
<1> QED
  BY <1>1, InvariantHolds, PTL

(* What a thread learned from empty() or size_approx() about its own ring  *)
(* stays true until it acts on it, and its sizes never exceed Capacity.    *)
THEOREM ObservationsCorrect == Spec => []OwnerObservationsHold
<1>1. IInv => OwnerObservationsHold
  <2> SUFFICES ASSUME IInv
               PROVE  OwnerObservationsHold
    OBVIOUS
  <2>1. /\ IndexInv /\ tail \in Indices /\ head \in Indices
        /\ headSeen \in Indices /\ tailSeen \in Indices
    BY DEF IInv, IndexInv, IndexTypes
  <2>2. ASSUME NEW seen \in LoadableTails
        PROVE  /\ Distance(seen, head) <= Capacity
               /\ ~IsFull(tailSeen) => ~IsFull(seen)
    <3>1. /\ seen \in Indices
          /\ Distance(seen, head) <= Capacity
          /\ Distance(seen, head) <= Distance(tailSeen, head)
      BY <2>1, LateTail
    <3>2. DistanceIs(seen, head) /\ DistanceIs(tailSeen, head)
      BY <2>1, <3>1, DistanceCases DEF DistanceIs
    <3> QED
      BY <2>1, <3>1, <3>2, ModulusAboveCapacity DEF DistanceIs, Indices, IsFull
  <2>3. ASSUME NEW seen \in LoadableHeads
        PROVE  /\ Distance(tail, seen) <= Capacity
               /\ ~IsEmpty(headSeen) => ~IsEmpty(seen)
    <3>1. /\ seen \in Indices
          /\ Distance(tail, seen) <= Distance(tail, head)
          /\ Distance(tail, headSeen) <= Distance(tail, seen)
      BY <2>1, LateHead
    <3>2. /\ DistanceIs(tail, seen) /\ DistanceIs(tail, headSeen)
          /\ DistanceIs(tail, head)
      BY <2>1, <3>1, DistanceCases DEF DistanceIs
    <3>3. Distance(tail, head) \in 0 .. Capacity
      BY <2>1, Occupancy
    <3> QED
      BY <2>1, <3>1, <3>2, <3>3, ModulusAboveCapacity DEF DistanceIs, Indices, IsEmpty
  <2> QED
    BY <2>2, <2>3 DEF OwnerObservationsHold
<1> QED
  BY <1>1, InvariantHolds, PTL

(* A slot holds an object exactly while it should.                         *)
THEOREM LifetimesCorrect == Spec => []LifetimesExact
<1>1. IInv => LifetimesExact
  <2> SUFFICES ASSUME IInv, NEW slot \in SlotNumbers
               PROVE  /\ slots[slot] # NoObject <=>
                           /\ alive
                           /\ \/ pushPc = "publish" /\ slot = SlotOf(head)
                              \/ /\ slot \in OccupiedSlots
                                 /\ ~(popPc = "publish" /\ slot = SlotOf(tail))
                      /\ slots[slot] = MovedFrom <=>
                           popPc = "destroy" /\ slot = SlotOf(tail)
    BY DEF LifetimesExact
  <2>1. /\ IndexInv
        /\ pushValue \in Values
        /\ \A k \in SlotNumbers : slots[SlotOf(tail + k)] \in Expected(k)
    BY DEF IInv, SlotInv
  <2>2. /\ tail \in Nat
        /\ Distance(tail, head) \in 0 .. Capacity
        /\ SlotOf(tail) = SlotOf(tail + 0)
        /\ SlotOf(head) = SlotOf(tail + Distance(tail, head))
        /\ pushPc # "idle" => Distance(tail, head) \in SlotNumbers
        /\ popPc # "idle" => Distance(tail, head) > 0
        /\ 0 \in SlotNumbers
    BY <2>1, Occupancy
  <2>3. PICK k \in SlotNumbers : slot = SlotOf(tail + k)
    BY <2>2, OffsetsCover
  <2>4. slot = SlotOf(tail) <=> k = 0
    BY <2>2, <2>3, OffsetsDistinct
  <2>5. pushPc = "publish" => (slot = SlotOf(head) <=> k = Distance(tail, head))
    BY <2>2, <2>3, OffsetsDistinct
  <2>6. slot \in OccupiedSlots <=> k < Distance(tail, head)
    BY <2>1, <2>3, OccupiedOffsets
  <2>7. slots[slot] \in Expected(k)
    BY <2>1, <2>3
  <2>8. (pushPc # "idle" \/ popPc # "idle") => alive
    BY <2>1 DEF IndexInv, IndexOrder
  <2>9. k \in Nat
    BY ModulusAboveCapacity DEF SlotNumbers
  <2>10. /\ \A v \in Values : v # NoObject /\ v # MovedFrom
         /\ NoObject # MovedFrom
    BY RingAssumption
  <2> QED
    BY <2>1, <2>2, <2>4, <2>5, <2>6, <2>7, <2>8, <2>9, <2>10 DEF Expected
<1> QED
  BY <1>1, InvariantHolds, PTL

---------------------------------------------------------------------------
(* The refinement.                                                         *)

Taken == IF popPc \in {"destroy", "publish"} THEN 1 ELSE 0

LiveCount == IF alive THEN Distance(tail, head) - Taken ELSE 0

(* The mapped queue is a sequence of values, and its elements are in the   *)
(* slots at consecutive offsets from tail_.                                *)
QueueView ==
  /\ LiveQueue \in Seq(Values)
  /\ Len(LiveQueue) = LiveCount
  /\ LiveCount \in 0 .. Capacity
  /\ \A i \in 1 .. LiveCount :
       LiveQueue[i] = slots[SlotOf(tail + (Taken + i - 1))]

LEMMA QueueViewHolds == IInv => QueueView
<1> SUFFICES ASSUME IInv
             PROVE  QueueView
  OBVIOUS
<1>1. /\ IndexInv
      /\ tail \in Indices
      /\ head \in Indices
      /\ \A k \in SlotNumbers : slots[SlotOf(tail + k)] \in Expected(k)
  BY DEF IInv, IndexInv, IndexTypes, SlotInv
<1>2. /\ tail \in Nat
      /\ Distance(tail, head) \in 0 .. Capacity
      /\ popPc # "idle" => Distance(tail, head) > 0
  BY <1>1, Occupancy
<1>3. CASE alive
  <2>1. LiveCount \in 0 .. Capacity /\ LiveCount = Distance(tail, head) - Taken
    BY <1>2, <1>3, ModulusAboveCapacity DEF LiveCount, Taken
  <2>2. Distance(FirstUntaken, head) = LiveCount
    <3>1. CASE popPc \in {"destroy", "publish"}
      <4>1. /\ FirstUntaken \in Indices
            /\ FirstUntaken = IF tail = IndexModulus - 1 THEN 0 ELSE tail + 1
        BY <1>1, <3>1, AdvanceCases, ModulusAboveCapacity DEF FirstUntaken, Indices
      <4>2. DistanceIs(tail, head) /\ DistanceIs(FirstUntaken, head)
        BY <1>1, <4>1, DistanceCases DEF DistanceIs
      <4> QED
        BY <1>1, <1>2, <1>3, <3>1, <4>1, <4>2, ModulusAboveCapacity
           DEF DistanceIs, LiveCount, Taken, Indices
    <3>2. CASE popPc \notin {"destroy", "publish"}
      BY <1>2, <1>3, <3>2 DEF FirstUntaken, LiveCount, Taken
    <3> QED
      BY <3>1, <3>2
  <2> DEFINE element(i) == slots[SlotOf(FirstUntaken + i - 1)]
  <2>3. LiveQueue = [i \in 1 .. LiveCount |-> element(i)]
    BY <1>3, <2>2 DEF LiveQueue
  <2>4. ASSUME NEW i \in 1 .. LiveCount
        PROVE  /\ element(i) = slots[SlotOf(tail + (Taken + i - 1))]
               /\ element(i) \in Values
    <3>1. SlotOf(FirstUntaken + i - 1) = SlotOf(tail + (Taken + i - 1))
      <4>1. CASE popPc \in {"destroy", "publish"}
        <5>1. i - 1 \in Nat /\ Advance(tail) + (i - 1) = FirstUntaken + i - 1
              /\ tail + 1 + (i - 1) = tail + (Taken + i - 1)
          BY <1>1, <1>2, <2>1, <4>1, AdvanceCases, ModulusAboveCapacity
             DEF FirstUntaken, Taken, Indices
        <5> QED
          BY <1>1, <5>1, SlotAfterAdvance
      <4>2. CASE popPc \notin {"destroy", "publish"}
        <5>1. FirstUntaken + i - 1 = tail + (Taken + i - 1)
          BY <1>2, <2>1, <4>2 DEF FirstUntaken, Taken
        <5> QED
          BY <5>1
      <4> QED
        BY <4>1, <4>2
    <3>2. /\ Taken + i - 1 \in SlotNumbers
          /\ Taken + i - 1 < Distance(tail, head)
          /\ Taken + i - 1 = 0 => popPc \notin {"destroy", "publish"}
      BY <1>2, <2>1, ModulusAboveCapacity DEF Taken, SlotNumbers
    <3>3. Expected(Taken + i - 1) = Values
      BY <1>3, <3>2 DEF Expected
    <3> QED
      BY <1>1, <3>1, <3>2, <3>3
  <2> HIDE DEF element
  <2>5. LiveCount \in Nat
    BY <2>1, ModulusAboveCapacity
  <2>6. LiveQueue \in [1 .. LiveCount -> Values]
    BY <2>3, <2>4
  <2>7. LiveQueue \in Seq(Values) /\ Len(LiveQueue) = LiveCount
    BY <2>5, <2>6
  <2> QED
    BY <2>1, <2>3, <2>4, <2>7 DEF QueueView
<1>4. CASE ~alive
  <2>1. LiveQueue = << >> /\ LiveCount = 0
    BY <1>4 DEF LiveQueue, LiveCount
  <2> QED
    BY <2>1, EmptySeq, ModulusAboveCapacity DEF QueueView
<1> QED
  BY <1>3, <1>4

LEMMA InitQueue == Init => Queue!Init
<1> SUFFICES ASSUME Init
             PROVE  Queue!Init
  OBVIOUS
<1>1. QueueView
  BY InitIndex, InitSlots, QueueViewHolds DEF IInv
<1>2. 0 \in Indices /\ Distance(0, 0) = 0
  BY ModulusAboveCapacity, DistanceCases DEF Indices
<1>3. LiveCount = 0
  BY <1>2 DEF Init, LiveCount, Taken
<1>4. LiveQueue = << >>
  BY <1>1, <1>3, EmptySeq DEF QueueView
<1> QED
  BY <1>4 DEF Init, Queue!Init

(* A step that neither publishes an object nor moves one out nor destroys  *)
(* the buffer leaves the mapped queue alone.                               *)
LEMMA QueueStutters ==
  ASSUME IInv, IInv', UNCHANGED <<head, tail, out, alive>>, Taken' = Taken,
         \A k \in SlotNumbers :
           Taken <= k /\ k < Distance(tail, head) =>
             slots'[SlotOf(tail + k)] = slots[SlotOf(tail + k)]
  PROVE  UNCHANGED Queue!vars
<1>1. QueueView /\ QueueView'
  BY QueueViewHolds, PTL
<1>2. LiveCount' = LiveCount
  BY DEF LiveCount
<1>3. ASSUME NEW i \in 1 .. LiveCount
      PROVE  LiveQueue'[i] = LiveQueue[i]
  <2>1. /\ Taken + i - 1 \in SlotNumbers
        /\ Taken <= Taken + i - 1
        /\ Taken + i - 1 < Distance(tail, head)
    <3>1. LiveCount \in 0 .. Capacity /\ LiveCount > 0
      BY <1>1, ModulusAboveCapacity DEF QueueView
    <3>2. Distance(tail, head) \in 0 .. Capacity /\ LiveCount = Distance(tail, head) - Taken
      BY <3>1, Occupancy DEF LiveCount, IInv
    <3> QED
      BY <3>1, <3>2, ModulusAboveCapacity DEF Taken, SlotNumbers
  <2> QED
    BY <1>1, <1>2, <2>1 DEF QueueView
<1>4. LiveQueue' = LiveQueue
  BY <1>1, <1>2, <1>3, SeqEqual DEF QueueView
<1> QED
  BY <1>4 DEF Queue!vars

LEMMA QueueStep == IInv /\ IInv' /\ [Next]_vars => [Queue!Next]_(Queue!vars)
<1> SUFFICES ASSUME IInv, IInv', [Next]_vars
             PROVE  Queue!Next \/ UNCHANGED Queue!vars
  OBVIOUS
<1>a. QueueView /\ QueueView'
  BY QueueViewHolds, PTL
<1>b. /\ IndexInv
      /\ tail \in Nat
      /\ Distance(tail, head) \in 0 .. Capacity
      /\ SlotOf(tail) = SlotOf(tail + 0)
      /\ SlotOf(head) = SlotOf(tail + Distance(tail, head))
      /\ pushPc # "idle" => Distance(tail, head) \in SlotNumbers
      /\ popPc # "idle" => Distance(tail, head) > 0
      /\ 0 \in SlotNumbers
  BY Occupancy DEF IInv
<1>c. (pushPc # "idle" \/ popPc # "idle") => alive
  BY <1>b DEF IndexInv, IndexOrder
<1>d. /\ slots \in [SlotNumbers -> Values \cup {NoObject, MovedFrom}]
      /\ pushValue \in Values
      /\ \A k \in SlotNumbers : slots[SlotOf(tail + k)] \in Expected(k)
  BY DEF IInv, SlotInv
<1> USE DEF producerVars, consumerVars
<1>e. ASSUME UNCHANGED <<head, tail, slots, out, alive>>, Taken' = Taken
      PROVE  UNCHANGED Queue!vars
  BY <1>e, QueueStutters
<1>1. CASE TryPushFull
  BY <1>1, <1>e DEF TryPushFull, Taken
<1>2. ASSUME NEW value \in Values, TryPushRoom(value)
      PROVE  UNCHANGED Queue!vars
  BY <1>2, <1>e DEF TryPushRoom, Taken
<1>3. CASE PushConstruct
  <2>1. slots' = [slots EXCEPT ![SlotOf(tail + Distance(tail, head))] = pushValue]
    BY <1>3, <1>b DEF PushConstruct
  <2>2. \A k \in SlotNumbers :
          k # Distance(tail, head) => slots'[SlotOf(tail + k)] = slots[SlotOf(tail + k)]
    BY <1>3, <1>b, <1>d, <2>1, WriteAtOffset DEF PushConstruct
  <2>3. \A k \in SlotNumbers :
          Taken <= k /\ k < Distance(tail, head) =>
            slots'[SlotOf(tail + k)] = slots[SlotOf(tail + k)]
    BY <1>b, <2>2 DEF SlotNumbers
  <2>4. UNCHANGED <<head, tail, out, alive>> /\ Taken' = Taken
    BY <1>3 DEF PushConstruct, Taken
  <2> QED
    BY <2>3, <2>4, QueueStutters
<1>4. CASE PushPublish
  <2>1. /\ Distance(tail, head) \in SlotNumbers
        /\ alive /\ alive'
        /\ UNCHANGED <<tail, slots, out, popPc, pushValue>>
        /\ Taken' = Taken
    BY <1>4, <1>b, <1>c DEF PushPublish, Taken
  <2>2. Distance(tail, head)' = Distance(tail, head) + 1
    <3>1. tail \in Indices /\ head \in Indices /\ head' \in Indices
          /\ head' = IF head = IndexModulus - 1 THEN 0 ELSE head + 1
      BY <1>4, <1>b, AdvanceCases, ModulusAboveCapacity
         DEF PushPublish, IndexInv, IndexTypes, Indices
    <3>2. DistanceIs(tail, head) /\ DistanceIs(tail, head')
      BY <3>1, DistanceCases DEF DistanceIs
    <3> QED
      BY <1>b, <2>1, <3>1, <3>2, ModulusAboveCapacity
         DEF DistanceIs, Indices, SlotNumbers
  <2>3. /\ LiveCount = Distance(tail, head) - Taken
        /\ LiveCount' = LiveCount + 1
        /\ LiveCount \in Nat
        /\ LiveCount < Capacity
    BY SMTT(30), <1>a, <1>b, <2>1, <2>2, ModulusAboveCapacity
       DEF LiveCount, Taken, QueueView, SlotNumbers
  <2> DEFINE longer == Append(LiveQueue, pushValue)
  <2>4. /\ longer \in Seq(Values)
        /\ Len(longer) = LiveCount + 1
        /\ \A i \in 1 .. LiveCount : longer[i] = LiveQueue[i]
        /\ longer[LiveCount + 1] = pushValue
    BY <1>a, <1>d, AppendProperties DEF QueueView
  <2>5. ASSUME NEW i \in 1 .. LiveCount + 1
        PROVE  LiveQueue'[i] = longer[i]
    <3>1. LiveQueue'[i] = slots[SlotOf(tail + (Taken + i - 1))]
      BY <1>a, <2>1, <2>3 DEF QueueView
    <3>2. CASE i <= LiveCount
      BY <1>a, <2>3, <2>4, <3>1, <3>2 DEF QueueView
    <3>3. CASE i = LiveCount + 1
      <4>1. Taken + i - 1 = Distance(tail, head)
        BY <1>b, <2>3, <3>3 DEF Taken
      <4>2. ~(Distance(tail, head) = 0 /\ popPc \in {"destroy", "publish"})
        BY <1>b
      <4>3. Expected(Distance(tail, head)) = {pushValue}
        BY <1>4, <1>b, <2>1, <4>2 DEF PushPublish, Expected
      <4> QED
        BY <1>d, <2>1, <2>4, <3>1, <3>3, <4>1, <4>3
    <3>4. i <= LiveCount \/ i = LiveCount + 1
      BY <2>3
    <3> QED
      BY <3>2, <3>3, <3>4
  <2>6. LiveQueue' = longer
    <3> HIDE DEF longer
    <3>1. LiveQueue' \in Seq(Values) /\ Len(LiveQueue') = LiveCount + 1
      BY <1>a, <2>3 DEF QueueView
    <3> QED
      BY <2>4, <2>5, <3>1, SeqEqual
  <2>7. Queue!Push(pushValue)
    BY <1>a, <2>1, <2>3, <2>6 DEF Queue!Push, QueueView
  <2> QED
    BY <1>d, <2>7 DEF Queue!Next
<1>5. CASE ProducerLooks
  BY <1>5, <1>e DEF ProducerLooks, Taken
<1>6. CASE TryPopEmpty
  BY <1>6, <1>e DEF TryPopEmpty, Taken
<1>7. CASE TryPopReady
  BY <1>7, <1>e DEF TryPopReady, Taken, ConsumerIdle
<1>8. CASE PopMove
  <2>1. /\ alive /\ alive'
        /\ Taken = 0 /\ Taken' = 1
        /\ UNCHANGED <<head, tail>>
        /\ Distance(tail, head) > 0
        /\ out' = slots[SlotOf(tail + 0)]
    BY <1>8, <1>b, <1>c DEF PopMove, Taken
  <2>2. \A k \in SlotNumbers :
          k # 0 => slots'[SlotOf(tail + k)] = slots[SlotOf(tail + k)]
    <3>1. slots' = [slots EXCEPT ![SlotOf(tail + 0)] = MovedFrom]
      BY <1>8, <1>b DEF PopMove
    <3> QED
      BY <1>b, <1>d, <3>1, WriteAtOffset
  <2>3. /\ LiveCount = Distance(tail, head)
        /\ LiveCount' = LiveCount - 1
        /\ LiveCount \in 1 .. Capacity
    BY <1>b, <2>1, ModulusAboveCapacity DEF LiveCount
  <2>4. LiveQueue # << >> /\ LiveQueue[1] = slots[SlotOf(tail + 0)]
    <3>1. 1 \in 1 .. LiveCount /\ tail + (Taken + 1 - 1) = tail + 0
      BY <1>b, <2>1, <2>3, ModulusAboveCapacity
    <3>2. Len(LiveQueue) # 0
      BY <1>a, <2>3, ModulusAboveCapacity DEF QueueView
    <3> QED
      BY <1>a, <3>1, <3>2, EmptySeq DEF QueueView
  <2>5. out' = Head(LiveQueue)
    BY <1>a, <2>1, <2>4 DEF QueueView
  <2>6. /\ Tail(LiveQueue) \in Seq(Values)
        /\ Len(Tail(LiveQueue)) = LiveCount - 1
        /\ \A i \in 1 .. LiveCount - 1 : Tail(LiveQueue)[i] = LiveQueue[i + 1]
    BY <1>a, <2>4, HeadTailProperties DEF QueueView
  <2>7. ASSUME NEW i \in 1 .. LiveCount - 1
        PROVE  LiveQueue'[i] = Tail(LiveQueue)[i]
    <3>1. /\ i + 1 \in 1 .. LiveCount
          /\ Taken + (i + 1) - 1 = i
          /\ Taken' + i - 1 = i
          /\ i \in SlotNumbers
          /\ i # 0
      BY <2>1, <2>3, ModulusAboveCapacity DEF SlotNumbers
    <3>2. LiveQueue[i + 1] = slots[SlotOf(tail + i)]
      BY <1>a, <3>1 DEF QueueView
    <3>3. LiveQueue'[i] = slots'[SlotOf(tail + i)]
      BY <1>a, <2>1, <2>3, <3>1 DEF QueueView
    <3> QED
      BY <2>2, <2>6, <3>1, <3>2, <3>3
  <2>8. LiveQueue' = Tail(LiveQueue)
    <3>1. LiveQueue' \in Seq(Values) /\ Len(LiveQueue') = LiveCount - 1
      BY <1>a, <2>3 DEF QueueView
    <3> QED
      BY <2>6, <2>7, <3>1, SeqEqual
  <2>9. Queue!Pop
    BY <2>1, <2>4, <2>5, <2>8 DEF Queue!Pop
  <2> QED
    BY <2>9 DEF Queue!Next
<1>9. CASE PopDestroy
  <2>1. UNCHANGED <<head, tail, out, alive>> /\ Taken' = Taken /\ Taken = 1
    BY <1>9 DEF PopDestroy, Taken
  <2>2. slots' = [slots EXCEPT ![SlotOf(tail + 0)] = NoObject]
    BY <1>9, <1>b DEF PopDestroy
  <2>3. \A k \in SlotNumbers :
          k # 0 => slots'[SlotOf(tail + k)] = slots[SlotOf(tail + k)]
    BY <1>b, <1>d, <2>2, WriteAtOffset
  <2> QED
    BY <2>1, <2>3, QueueStutters
<1>10. CASE PopPublish
  <2>1. /\ FirstUntaken' = FirstUntaken
        /\ UNCHANGED <<head, slots, out, alive>>
    BY <1>10 DEF PopPublish, FirstUntaken
  <2>2. LiveQueue' = LiveQueue
    BY <2>1 DEF LiveQueue
  <2> QED
    BY <2>1, <2>2 DEF Queue!vars
<1>11. CASE BeginClear
  BY <1>11, <1>e DEF BeginClear, Taken
<1>12. CASE ConsumerLooks
  BY <1>12, <1>e DEF ConsumerLooks, Taken
<1>13. CASE Destroy
  <2>1. /\ LiveQueue' = << >>
        /\ out' = out
        /\ alive /\ alive' = FALSE
    BY <1>13 DEF Destroy, ProducerIdle, LiveQueue
  <2> QED
    BY <2>1 DEF Queue!Close, Queue!Next
<1>14. CASE UNCHANGED vars
  BY <1>14, <1>e DEF vars, Taken
<1> QED
  BY <1>1, <1>2, <1>3, <1>4, <1>5, <1>6, <1>7, <1>8, <1>9, <1>10, <1>11,
     <1>12, <1>13, <1>14 DEF Next, Producer, Consumer

(* The ring implements the bounded first-in first-out queue for every      *)
(* capacity: nothing accepted is lost, duplicated, reordered or invented,  *)
(* across any number of wraps of the ring and of the counters.             *)
THEOREM RingImplementsQueue == Spec => ImplementsBoundedQueue
<1>1. Init => Queue!Init
  BY InitQueue
<1>2. IInv /\ IInv' /\ [Next]_vars => [Queue!Next]_(Queue!vars)
  BY QueueStep
<1> QED
  BY <1>1, <1>2, InvariantHolds, PTL DEF Spec, Queue!Spec, ImplementsBoundedQueue

===========================================================================
