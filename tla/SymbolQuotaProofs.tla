-------------------------- MODULE SymbolQuotaProofs --------------------------
(***************************************************************************)
(* How far racing registrations can overshoot a quota, for any number of   *)
(* threads, tiers and files.  A registration may still add a symbol under  *)
(* a limit L as long as the count it has read is below L.  For every L no  *)
(* lower than the limits in force so far, the symbols that are there and   *)
(* those that may still be added under L are at most L + |Threads| - 1:    *)
(* a thread can join them only while the count itself is below L.          *)
(***************************************************************************)
EXTENDS SymbolQuota, FiniteSetTheorems, TLAPS

Registration == [tier : Tiers, seen : Nat, allowed : BOOLEAN]

Counters ==
  /\ \A tier \in Tiers : config[tier] \in Nat
  /\ limits \in [Tiers -> Nat]
  /\ peak \in [Tiers -> Nat]
  /\ count \in [Tiers -> Nat]
  /\ call \in [Threads -> Registration \cup {Idle}]

(* A limit in force was one of the limits so far, and what can_allocate    *)
(* allowed was below one of them.                                          *)
UnderPeak ==
  /\ \A tier \in Tiers : limits[tier] <= peak[tier]
  /\ \A t \in Threads :
       call[t] # Idle /\ call[t].allowed => call[t].seen < peak[call[t].tier]

Pending(tier, L) ==
  {t \in Threads : call[t] # Idle /\ call[t].tier = tier /\ call[t].seen < L}

RoomFor(tier, L) ==
  count[tier] + Cardinality(Pending(tier, L)) <= L + Cardinality(Threads) - 1

Headroom ==
  \A tier \in Tiers, L \in Nat : L >= peak[tier] => RoomFor(tier, L)

QuotaInvariant == Counters /\ UnderPeak /\ Headroom

LEMMA ThreadsAreCounted ==
  /\ Cardinality(Threads) \in Nat \ {0}
  /\ \A tier, L : /\ IsFiniteSet(Pending(tier, L))
                  /\ Cardinality(Pending(tier, L)) \in Nat
                  /\ Cardinality(Pending(tier, L)) <= Cardinality(Threads)
<1>1. Cardinality(Threads) \in Nat \ {0}
  BY QuotaAssumption, FS_CardinalityType, FS_EmptySet
<1>2. ASSUME NEW tier, NEW L
      PROVE  /\ IsFiniteSet(Pending(tier, L))
             /\ Cardinality(Pending(tier, L)) \in Nat
             /\ Cardinality(Pending(tier, L)) <= Cardinality(Threads)
  <2>1. Pending(tier, L) \in SUBSET Threads
    BY DEF Pending
  <2> QED
    BY <2>1, QuotaAssumption, FS_Subset, FS_CardinalityType
<1> QED
  BY <1>1, <1>2

(* A file that converts has a number for every tier.                       *)
LEMMA QuotasAreNumbers ==
  ASSUME NEW file \in Files, Converts(file), NEW tier \in Tiers
  PROVE  FromYaml(file)[tier] \in Nat
BY QuotaAssumption DEF Converts, FromYaml, ReadValue

LEMMA StartsUnderQuota == Init => QuotaInvariant
<1> SUFFICES ASSUME Init PROVE QuotaInvariant
  OBVIOUS
<1>1. Counters /\ UnderPeak
  BY QuotaAssumption DEF Init, Counters, UnderPeak, Quotas
<1>2. ASSUME NEW tier \in Tiers, NEW L \in Nat PROVE RoomFor(tier, L)
  <2>1. Pending(tier, L) = {}
    BY DEF Init, Pending
  <2> QED
    BY <2>1, ThreadsAreCounted, FS_EmptySet DEF Init, RoomFor
<1> QED
  BY <1>1, <1>2 DEF QuotaInvariant, Headroom

(* A step that lets no thread join the pending ones and adds no symbol     *)
(* leaves the headroom as it was.                                          *)
LEMMA HeadroomKept ==
  ASSUME QuotaInvariant, Counters',
         \A tier \in Tiers : count'[tier] <= count[tier] /\ peak[tier] <= peak'[tier],
         \A t \in Threads :
           call'[t] # Idle => /\ call[t] # Idle
                              /\ call'[t].tier = call[t].tier
                              /\ call'[t].seen = call[t].seen
  PROVE  Headroom'
<1> SUFFICES ASSUME NEW tier \in Tiers, NEW L \in Nat, L >= peak'[tier]
             PROVE  RoomFor(tier, L)'
  BY DEF Headroom
<1>1. Pending(tier, L)' \in SUBSET Pending(tier, L)
  BY DEF Pending
<1>2. /\ Cardinality(Pending(tier, L)') \in Nat
      /\ Cardinality(Pending(tier, L)') <= Cardinality(Pending(tier, L))
  BY <1>1, ThreadsAreCounted, FS_Subset, FS_CardinalityType
<1>3. L >= peak[tier]
  BY DEF QuotaInvariant, Counters
<1>4. RoomFor(tier, L)
  BY <1>3 DEF QuotaInvariant, Headroom
<1> QED
  BY <1>2, <1>4, ThreadsAreCounted DEF RoomFor, QuotaInvariant, Counters

LEMMA CountKeepsQuota ==
  ASSUME QuotaInvariant, NEW t \in Threads, NEW tier \in Tiers, Count(t, tier)
  PROVE  QuotaInvariant'
<1> DEFINE new == [tier |-> tier, seen |-> count[tier], allowed |-> FALSE]
<1>1. call[t] = Idle /\ call' = [call EXCEPT ![t] = new]
  BY DEF Count
<1>2. new \in Registration /\ new # Idle
  <2>1. count[tier] \in Nat
    BY DEF QuotaInvariant, Counters
  <2>2. new \in Registration
    BY <2>1 DEF Registration
  <2> QED
    BY <2>2, QuotaAssumption DEF Registration
<1>3. Counters' /\ UnderPeak'
  BY <1>1, <1>2 DEF Count, QuotaInvariant, Counters, UnderPeak
<1>4. ASSUME NEW other \in Tiers, NEW L \in Nat, L >= peak[other]
      PROVE  RoomFor(other, L)'
  <2>1. CASE other = tier /\ count[tier] < L
    (* The thread joins, but the count itself is below L.                  *)
    <3>1. Cardinality(Pending(other, L)') \in Nat
          /\ Cardinality(Pending(other, L)') <= Cardinality(Threads)
      <4>1. Pending(other, L)' \in SUBSET Threads
        BY DEF Pending
      <4> QED
        BY <4>1, QuotaAssumption, FS_Subset, FS_CardinalityType
    <3> QED
      BY <2>1, <3>1, ThreadsAreCounted DEF RoomFor, Count, QuotaInvariant, Counters
  <2>2. CASE ~(other = tier /\ count[tier] < L)
    <3>1. Pending(other, L)' = Pending(other, L)
      <4>1. call'[t] = new
        BY <1>1 DEF QuotaInvariant, Counters
      <4>2. \A u \in Threads : u # t => call'[u] = call[u]
        BY <1>1 DEF QuotaInvariant, Counters
      <4> QED
        BY <1>1, <1>2, <2>2, <4>1, <4>2 DEF Pending
    <3> QED
      BY <3>1, <1>4 DEF RoomFor, Count, QuotaInvariant, Headroom
  <2> QED
    BY <2>1, <2>2
<1> QED
  BY <1>3, <1>4 DEF QuotaInvariant, Headroom, Count

(* The symbol that is added was already counted as pending.                *)
LEMMA AddKeepsQuota ==
  ASSUME QuotaInvariant, NEW t \in Threads, Add(t)
  PROVE  QuotaInvariant'
<1>1. call[t] \in Registration /\ call[t] # Idle /\ call[t].allowed
  BY DEF Add, QuotaInvariant, Counters
<1>2. call[t].tier \in Tiers /\ call[t].seen < peak[call[t].tier]
  BY <1>1 DEF Registration, QuotaInvariant, UnderPeak
<1>3. Counters' /\ UnderPeak'
  BY <1>2 DEF Add, QuotaInvariant, Counters, UnderPeak
<1>4. ASSUME NEW tier \in Tiers, NEW L \in Nat, L >= peak[tier]
      PROVE  RoomFor(tier, L)'
  <2>1. Pending(tier, L)' = Pending(tier, L) \ {t}
    BY DEF Pending, Add, QuotaInvariant, Counters
  <2>2. RoomFor(tier, L)
    BY <1>4 DEF QuotaInvariant, Headroom
  <2>3. CASE tier = call[t].tier
    <3>1. t \in Pending(tier, L)
      <4>1. call[t] # Idle /\ call[t].allowed /\ call[t].tier = tier /\ call[t].seen < L
        <5>1. call[t].seen \in Nat /\ peak[tier] \in Nat /\ call[t].seen < peak[tier]
          BY <1>1, <1>2, <2>3 DEF Registration, QuotaInvariant, Counters
        <5> QED
          BY <1>1, <1>4, <2>3, <5>1
      <4> QED
        BY <4>1 DEF Pending
    <3>2. Cardinality(Pending(tier, L)') = Cardinality(Pending(tier, L)) - 1
      BY <2>1, <3>1, ThreadsAreCounted, FS_RemoveElement
    <3>3. count'[tier] = count[tier] + 1
      BY <2>3 DEF Add, QuotaInvariant, Counters
    <3> QED
      BY <2>2, <3>2, <3>3, ThreadsAreCounted DEF RoomFor, QuotaInvariant, Counters
  <2>4. CASE tier # call[t].tier
    <3>1. Pending(tier, L)' = Pending(tier, L)
      BY <2>1, <2>4 DEF Pending
    <3>2. count'[tier] = count[tier]
      BY <2>4 DEF Add, QuotaInvariant, Counters
    <3> QED
      BY <2>2, <3>1, <3>2 DEF RoomFor
  <2> QED
    BY <2>3, <2>4
<1> QED
  BY <1>3, <1>4 DEF QuotaInvariant, Headroom, Add

LEMMA CanAllocateKeepsQuota ==
  ASSUME QuotaInvariant, NEW t \in Threads, CanAllocate(t)
  PROVE  QuotaInvariant'
<1>1. call[t] \in Registration /\ call[t] # Idle
  BY DEF CanAllocate, QuotaInvariant, Counters
<1> DEFINE granted == [call[t] EXCEPT !.allowed = TRUE]
<1>2. /\ granted \in Registration
      /\ granted.tier = call[t].tier /\ granted.seen = call[t].seen
  BY <1>1 DEF Registration
<1>3. \/ call' = [call EXCEPT ![t] = Idle]
      \/ call' = [call EXCEPT ![t] = granted] /\ call[t].seen < limits[call[t].tier]
  BY DEF CanAllocate, Allowed
<1>4. Counters'
  BY <1>2, <1>3 DEF CanAllocate, QuotaInvariant, Counters
<1>5. UnderPeak'
  <2>1. call[t].tier \in Tiers /\ call[t].seen \in Nat
    BY <1>1 DEF Registration
  <2>2. limits[call[t].tier] <= peak[call[t].tier]
    BY <2>1 DEF QuotaInvariant, UnderPeak
  <2>3. limits[call[t].tier] \in Nat /\ peak[call[t].tier] \in Nat
    BY <2>1 DEF QuotaInvariant, Counters
  <2>4. ASSUME NEW u \in Threads, call'[u] # Idle, call'[u].allowed
        PROVE  call'[u].seen < peak[call'[u].tier]
    <3>1. CASE u = t
      <4>1. call'[t] = Idle \/ (call'[t] = granted /\ call[t].seen < limits[call[t].tier])
        BY <1>3 DEF QuotaInvariant, Counters
      <4>2. call'[t] = granted /\ call[t].seen < limits[call[t].tier]
        BY <4>1, <3>1, <2>4
      <4>3. call[t].seen < peak[call[t].tier] /\ peak' = peak
        BY <4>2, <2>1, <2>2, <2>3 DEF CanAllocate
      <4> QED
        BY <3>1, <4>2, <4>3, <1>2
    <3>2. CASE u # t
      BY <3>2, <2>4, <1>3 DEF QuotaInvariant, Counters, UnderPeak
    <3> QED
      BY <3>1, <3>2
  <2> QED
    BY <2>4 DEF CanAllocate, QuotaInvariant, UnderPeak
<1>6. \A u \in Threads :
        call'[u] # Idle => /\ call[u] # Idle
                           /\ call'[u].tier = call[u].tier
                           /\ call'[u].seen = call[u].seen
  BY <1>1, <1>2, <1>3 DEF QuotaInvariant, Counters
<1>7. Headroom'
  BY <1>4, <1>6, HeadroomKept DEF CanAllocate, QuotaInvariant, Counters
<1> QED
  BY <1>4, <1>5, <1>7 DEF QuotaInvariant

LEMMA StepKeepsQuota == QuotaInvariant /\ [Next]_vars => QuotaInvariant'
<1> SUFFICES ASSUME QuotaInvariant, [Next]_vars PROVE QuotaInvariant'
  OBVIOUS
<1>1. ASSUME NEW file \in Files, LoadConfig(file) PROVE QuotaInvariant'
  <2>1. Counters' /\ UnderPeak'
    BY <1>1, QuotasAreNumbers DEF LoadConfig, QuotaInvariant, Counters, UnderPeak
  <2> QED
    BY <1>1, <2>1, HeadroomKept DEF LoadConfig, QuotaInvariant, Counters
<1>2. CASE SetLimits
  <2>1. Counters' /\ \A tier \in Tiers : peak[tier] <= peak'[tier] /\ limits'[tier] <= peak'[tier]
    BY <1>2 DEF SetLimits, Quotas, QuotaInvariant, Counters
  <2>2. UnderPeak'
    <3>1. ASSUME NEW t \in Threads, call[t] # Idle, call[t].allowed
          PROVE  call[t].seen < peak'[call[t].tier]
      <4>1. call[t].tier \in Tiers /\ call[t].seen \in Nat
        BY <3>1 DEF QuotaInvariant, Counters, Registration
      <4>2. call[t].seen < peak[call[t].tier]
        BY <3>1 DEF QuotaInvariant, UnderPeak
      <4> QED
        BY <4>1, <4>2, <2>1 DEF QuotaInvariant, Counters
    <3> QED
      BY <1>2, <2>1, <3>1 DEF SetLimits, UnderPeak
  <2> QED
    BY <1>2, <2>1, <2>2, HeadroomKept DEF SetLimits, QuotaInvariant, Counters
<1>3. ASSUME NEW tier \in Tiers, Remove(tier) PROVE QuotaInvariant'
  <2>1. Counters' /\ UnderPeak' /\ \A other \in Tiers : count'[other] <= count[other]
    BY <1>3 DEF Remove, QuotaInvariant, Counters, UnderPeak
  <2> QED
    BY <1>3, <2>1, HeadroomKept DEF Remove, QuotaInvariant, Counters
<1>4. CASE UNCHANGED vars
  BY <1>4 DEF vars, QuotaInvariant, Counters, UnderPeak, Headroom, RoomFor, Pending
<1> QED
  BY <1>1, <1>2, <1>3, <1>4, CountKeepsQuota, CanAllocateKeepsQuota, AddKeepsQuota
     DEF Next

(* The inductive invariant holds for any number of threads and files.      *)
THEOREM QuotaHolds == Spec => []QuotaInvariant
BY StartsUnderQuota, StepKeepsQuota, PTL DEF Spec

(* Racing registrations overshoot a tier's limit by less than the number   *)
(* of threads, whatever set_limits does meanwhile.                         *)
THEOREM OvershootIsBounded == Spec => []OvershootBounded
<1>1. QuotaInvariant => OvershootBounded
  <2> SUFFICES ASSUME QuotaInvariant, NEW tier \in Tiers
               PROVE  count[tier] <= peak[tier] + Cardinality(Threads) - 1
    BY DEF OvershootBounded
  <2>1. RoomFor(tier, peak[tier])
    BY DEF QuotaInvariant, Headroom, Counters
  <2> QED
    BY <2>1, ThreadsAreCounted DEF RoomFor, QuotaInvariant, Counters
<1> QED
  BY <1>1, QuotaHolds, PTL
=============================================================================
