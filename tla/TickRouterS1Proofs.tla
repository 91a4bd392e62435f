------------------------- MODULE TickRouterS1Proofs -------------------------
(***************************************************************************)
(* Proofs about the first-session router and its rings, for any number of  *)
(* adapters, symbols, rings, slots and registry changes: a released ring   *)
(* is not touched, the counters account for every tick, and where no two   *)
(* adapters reach the same ring, every ring delivers exactly what was      *)
(* routed into it and implements a bounded queue.                          *)
(***************************************************************************)
EXTENDS TickRouterS1, SequenceTheorems, FiniteSetTheorems, WellFoundedInduction, TLAPS

---------------------------------------------------------------------------
(* Wrapped positions.                                                      *)

LEMMA SlotsTyped == Slots \in Nat /\ Slots >= 2
BY RingS1Assumption

LEMMA AfterCases ==
  \A x \in Positions :
    After(x) \in Positions /\ After(x) = IF x = Slots - 1 THEN 0 ELSE x + 1
BY SlotsTyped DEF After, Positions

Distance(x, y) == (y - x) % Slots

LEMMA DistanceCases ==
  \A x, y \in Positions :
    /\ Distance(x, y) \in 0 .. Slots - 1
    /\ Distance(x, y) = IF y >= x THEN y - x ELSE y - x + Slots
BY SlotsTyped DEF Distance, Positions

(* The position at an offset from another one.                             *)
LEMMA OffsetCases ==
  \A x \in Positions, k \in 0 .. Slots - 1 :
    /\ (x + k) % Slots \in Positions
    /\ (x + k) % Slots = IF x + k < Slots THEN x + k ELSE x + k - Slots
BY SlotsTyped DEF Positions

LEMMA PositionsAre == \A x \in Positions : x \in Int /\ 0 <= x /\ x < Slots
BY SlotsTyped DEF Positions

(* One step on from the first position is one less to go.                  *)
LEMMA DistanceShrinks ==
  \A x, y \in Positions : x # y => Distance(After(x), y) = Distance(x, y) - 1
<1> TAKE x, y \in Positions
<1>1. After(x) \in Positions /\ After(x) = IF x = Slots - 1 THEN 0 ELSE x + 1
  BY AfterCases
<1>2. Distance(x, y) = IF y >= x THEN y - x ELSE y - x + Slots
  BY DistanceCases
<1>3. Distance(After(x), y) = IF y >= After(x) THEN y - After(x) ELSE y - After(x) + Slots
  BY <1>1, DistanceCases
<1> QED
  BY <1>1, <1>2, <1>3, PositionsAre, SlotsTyped

(* One step on from the second is one more, while it is not the first.     *)
LEMMA DistanceGrows ==
  \A x, y \in Positions : After(y) # x => Distance(x, After(y)) = Distance(x, y) + 1
<1> TAKE x, y \in Positions
<1>1. After(y) \in Positions /\ After(y) = IF y = Slots - 1 THEN 0 ELSE y + 1
  BY AfterCases
<1>2. Distance(x, y) = IF y >= x THEN y - x ELSE y - x + Slots
  BY DistanceCases
<1>3. Distance(x, After(y)) = IF After(y) >= x THEN After(y) - x ELSE After(y) - x + Slots
  BY <1>1, DistanceCases
<1> QED
  BY <1>1, <1>2, <1>3, PositionsAre, SlotsTyped

LEMMA OffsetReaches ==
  \A x, y \in Positions :
    /\ (x + Distance(x, y)) % Slots = y
    /\ \A k \in 0 .. Slots - 1 : k < Distance(x, y) => (x + k) % Slots # y
    /\ (x + 0) % Slots = x
<1> TAKE x, y \in Positions
<1>1. /\ Distance(x, y) \in 0 .. Slots - 1
      /\ Distance(x, y) = IF y >= x THEN y - x ELSE y - x + Slots
  BY DistanceCases
<1>2. (x + Distance(x, y)) % Slots =
        IF x + Distance(x, y) < Slots THEN x + Distance(x, y) ELSE x + Distance(x, y) - Slots
  BY <1>1, OffsetCases
<1>3. (x + Distance(x, y)) % Slots = y
  BY <1>1, <1>2, PositionsAre, SlotsTyped
<1>4. ASSUME NEW k \in 0 .. Slots - 1, k < Distance(x, y)
      PROVE  (x + k) % Slots # y
  <2>1. (x + k) % Slots = IF x + k < Slots THEN x + k ELSE x + k - Slots
    BY OffsetCases
  <2> QED
    BY <1>1, <1>4, <2>1, PositionsAre, SlotsTyped
<1>5. (x + 0) % Slots = x
  <2>1. 0 \in 0 .. Slots - 1
    BY SlotsTyped
  <2>2. (x + 0) % Slots = IF x + 0 < Slots THEN x + 0 ELSE x + 0 - Slots
    BY <2>1, OffsetCases
  <2> QED
    BY <2>2, PositionsAre, SlotsTyped
<1> QED
  BY <1>3, <1>4, <1>5

LEMMA OffsetAfter ==
  \A x \in Positions, k \in 0 .. Slots - 1 :
    k + 1 < Slots => (After(x) + k) % Slots = (x + (k + 1)) % Slots
<1> TAKE x \in Positions, k \in 0 .. Slots - 1
<1> HAVE k + 1 < Slots
<1>1. After(x) \in Positions /\ After(x) = IF x = Slots - 1 THEN 0 ELSE x + 1
  BY AfterCases
<1>2. (After(x) + k) % Slots = IF After(x) + k < Slots THEN After(x) + k ELSE After(x) + k - Slots
  BY <1>1, OffsetCases
<1>3. k + 1 \in 0 .. Slots - 1
  BY SlotsTyped
<1>4. (x + (k + 1)) % Slots =
        IF x + (k + 1) < Slots THEN x + (k + 1) ELSE x + (k + 1) - Slots
  BY <1>3, OffsetCases
<1> QED
  BY <1>1, <1>2, <1>4, PositionsAre, SlotsTyped

---------------------------------------------------------------------------
(* The registry and the calls of route().                                  *)
Items == Ticks \cup {NoTick}

PushStates ==
  {Idle} \cup [pc : {"refused"}, ring : Buffers]
         \cup [pc : {"write", "publish", "accepted"}, ring : Buffers, tick : Ticks, at : Positions]

RouteStates ==
  {Idle} \cup [pc : {"push"}, overload : Overloads]
         \cup [pc : {"warn", "return"}, why : {"unknown", "dropped"}] \cup [pc : {"return"}]

RingTypes ==
  /\ head \in [Buffers -> Positions] /\ tail \in [Buffers -> Positions]
  /\ slots \in [Buffers -> [Positions -> Items]]
  /\ push \in [Producers -> PushStates]
  /\ popPc \in [Buffers -> {"idle", "move", "publish"}]
  /\ popped \in [Buffers -> Seq(Items)] /\ accepted \in [Buffers -> Seq(Items)]

RouterTypes ==
  /\ arrived \in 0 .. MaxTicks
  /\ symbolMap \in [Symbols -> Buffers \cup {NoBuffer}]
  /\ \A s \in Symbols : symbolMap[s] # NoBuffer => symbolMap[s] \in RingsOf[s]
  /\ route \in [Producers -> RouteStates]
  /\ released \subseteq Buffers

(* A push is in progress inside route() only, on a ring of a symbol that   *)
(* is registered for as long; no symbol is registered with a released ring. *)
PushInRoute ==
  \A p \in Producers :
    /\ push[p] # Idle <=> route[p].pc = "push"
    /\ push[p] # Idle => \E s \in Feeds[p] : symbolMap[s] = push[p].ring

ReleasedUnmapped == \A s \in Symbols : symbolMap[s] \notin released

RegistryInvariant == RingTypes /\ RouterTypes /\ PushInRoute /\ ReleasedUnmapped

LEMMA PushStatesDiffer ==
  \A x \in PushStates :
    /\ x = Idle <=> x.pc = "idle"
    /\ x # Idle => x.ring \in Buffers
    /\ x.pc \in {"write", "publish"} => x.tick \in Ticks /\ x.at \in Positions
BY DEF PushStates, Idle

LEMMA EndOfCall ==
  /\ [pc |-> "return"] \in RouteStates
  /\ \A w \in {"unknown", "dropped"}, c \in {"warn", "return"} :
       [pc |-> c, why |-> w] \in RouteStates
BY DEF RouteStates

LEMMA BeginsRegistered == Init => RegistryInvariant
<1> SUFFICES ASSUME Init PROVE RegistryInvariant
  OBVIOUS
<1>1. RingTypes
  BY SlotsTyped DEF Init, RingInit, RingTypes, Positions, Items, PushStates
<1>2. RouterTypes
  BY RingS1Assumption DEF Init, RouterTypes, RouteStates
<1>3. PushInRoute
  BY DEF Init, RingInit, PushInRoute, Idle
<1>4. ReleasedUnmapped
  BY DEF Init, ReleasedUnmapped
<1> QED
  BY <1>1, <1>2, <1>3, <1>4 DEF RegistryInvariant

(* The steps of a push that has begun: what they leave of a push state.    *)
LEMMA PushGoesOn ==
  ASSUME RegistryInvariant, NEW p \in Producers,
         push[p].pc \in {"write", "publish"}, NEW c \in {"publish", "accepted"},
         push' = [push EXCEPT ![p] = [push[p] EXCEPT !.pc = c]],
         UNCHANGED <<arrived, routerVars>>
  PROVE  /\ push' \in [Producers -> PushStates]
         /\ RouterTypes' /\ PushInRoute' /\ ReleasedUnmapped'
<1> USE DEF RegistryInvariant, routerVars
<1>1. push[p] \in [pc : {"write", "publish", "accepted"}, ring : Buffers, tick : Ticks, at : Positions]
  BY DEF RingTypes, PushStates, Idle
<1>2. /\ [push[p] EXCEPT !.pc = c] \in
           [pc : {"write", "publish", "accepted"}, ring : Buffers, tick : Ticks, at : Positions]
      /\ [push[p] EXCEPT !.pc = c].ring = push[p].ring
      /\ [push[p] EXCEPT !.pc = c].pc = c
  BY <1>1
<1>3. push' \in [Producers -> PushStates]
  BY <1>2 DEF RingTypes, PushStates
<1>4. [push[p] EXCEPT !.pc = c] # Idle /\ push[p] # Idle
  BY <1>2 DEF Idle
<1>5. PushInRoute'
  BY <1>2, <1>4 DEF RingTypes, PushInRoute
<1> QED
  BY <1>3, <1>5 DEF RouterTypes, ReleasedUnmapped

LEMMA StepRegistered == RegistryInvariant /\ [Next]_vars => RegistryInvariant'
<1> SUFFICES ASSUME RegistryInvariant, [Next]_vars PROVE RegistryInvariant'
  OBVIOUS
<1> USE DEF RegistryInvariant
<1>1. ASSUME NEW s \in Symbols, NEW b \in RingsOf[s] \cup {NoBuffer},
             inRoute = {}, UNCHANGED <<ringVars, arrived, route>>,
             Replace(s, b) \/ UNCHANGED <<symbolMap, released>>
      PROVE  RegistryInvariant'
  <2>1. \A p \in Producers : push[p] = Idle
    BY <1>1 DEF inRoute, PushInRoute, Idle
  <2>2. RingTypes' /\ PushInRoute'
    BY <1>1, <2>1 DEF ringVars, RingTypes, PushInRoute
  <2>3. CASE Replace(s, b)
    <3>1. RingsOf[s] \subseteq Buffers
      BY RouterS1Assumption
    <3>2. /\ symbolMap' = [symbolMap EXCEPT ![s] = b]
          /\ released' = {r \in Buffers : /\ \A t \in Symbols : symbolMap'[t] # r
                                          /\ r \in released \/ symbolMap[s] = r}
      BY <2>3 DEF Replace
    <3>3. RouterTypes'
      BY <1>1, <3>1, <3>2 DEF RouterTypes
    <3>4. ReleasedUnmapped'
      BY <3>2 DEF ReleasedUnmapped
    <3> QED
      BY <2>2, <3>3, <3>4
  <2>4. CASE UNCHANGED <<symbolMap, released>>
    BY <1>1, <2>2, <2>4 DEF RouterTypes, ReleasedUnmapped
  <2> QED
    BY <1>1, <2>3, <2>4
<1>2. ASSUME NEW s \in Symbols, NEW b \in RingsOf[s], Register(s, b)
      PROVE  RegistryInvariant'
  BY <1>1, <1>2 DEF Register
<1>3. ASSUME NEW s \in Symbols, Unregister(s)
      PROVE  RegistryInvariant'
  BY <1>1, <1>3 DEF Unregister
<1>4. ASSUME NEW p \in Producers, NEW s \in Symbols, NEW o \in Overloads, RouteUnknown(p, s, o)
      PROVE  RegistryInvariant'
  <2>1. /\ route[p] = Idle /\ UNCHANGED <<ringVars, symbolMap, released>>
        /\ arrived < MaxTicks /\ arrived' = arrived + 1
    BY <1>4 DEF RouteUnknown, Arrive
  <2>2. PICK c \in RouteStates : route' = [route EXCEPT ![p] = c] /\ c.pc # "push"
    <3>1. PICK c \in {"warn", "return"} :
            route' = [route EXCEPT ![p] = [pc |-> c, why |-> "unknown"]]
      BY <1>4 DEF RouteUnknown
    <3> QED
      BY <3>1, EndOfCall
  <2>3. push[p] = Idle
    BY <2>1 DEF PushInRoute, Idle
  <2>4. RingTypes' /\ ReleasedUnmapped'
    BY <2>1 DEF ringVars, RingTypes, ReleasedUnmapped
  <2>5. RouterTypes' /\ PushInRoute'
    BY <2>1, <2>2, <2>3, RingS1Assumption DEF ringVars, RouterTypes, PushInRoute
  <2> QED
    BY <2>4, <2>5
<1>5. ASSUME NEW p \in Producers, NEW s \in Symbols, NEW o \in Overloads, RouteKnown(p, s, o)
      PROVE  RegistryInvariant'
  <2>1. /\ s \in Feeds[p] /\ symbolMap[s] # NoBuffer /\ PushBegin(p, symbolMap[s], arrived + 1)
        /\ route' = [route EXCEPT ![p] = [pc |-> "push", overload |-> o]]
        /\ arrived < MaxTicks /\ arrived' = arrived + 1 /\ UNCHANGED <<symbolMap, released>>
    BY <1>5 DEF RouteKnown, Arrive
  <2>2. symbolMap[s] \in Buffers /\ arrived + 1 \in Ticks
    BY <2>1, RingS1Assumption DEF RouterTypes, Ticks
  <2>3. PICK c \in PushStates : /\ push' = [push EXCEPT ![p] = c]
                                /\ c # Idle /\ c.ring = symbolMap[s]
    BY <2>1, <2>2 DEF PushBegin, PushStates, Idle, RingTypes
  <2>4. RingTypes'
    BY <2>1, <2>3 DEF PushBegin, RingTypes
  <2>5. RouterTypes' /\ ReleasedUnmapped'
    BY <2>1, RingS1Assumption DEF RouterTypes, RouteStates, ReleasedUnmapped
  <2>6. PushInRoute'
    BY <2>1, <2>3 DEF PushInRoute, RingTypes, RouterTypes
  <2> QED
    BY <2>4, <2>5, <2>6
<1>6. ASSUME NEW p \in Producers, RoutePush(p)
      PROVE  RegistryInvariant'
  <2>1. push[p] \in PushStates /\ UNCHANGED <<arrived, routerVars>>
    BY <1>6 DEF RingTypes, RoutePush
  <2>2. CASE PushWrite(p)
    <3>1. /\ push[p].ring \in Buffers /\ push[p].at \in Positions /\ push[p].tick \in Items
      BY <2>1, <2>2, PushStatesDiffer DEF PushWrite, Items, Idle
    <3>2. slots' \in [Buffers -> [Positions -> Items]]
      BY <2>2, <3>1 DEF PushWrite, RingTypes
    <3>3. push' \in [Producers -> PushStates] /\ RouterTypes' /\ PushInRoute' /\ ReleasedUnmapped'
      BY <2>1, <2>2, PushGoesOn DEF PushWrite
    <3> QED
      BY <2>2, <3>2, <3>3 DEF PushWrite, RingTypes
  <2>3. CASE PushPublish(p)
    <3>1. /\ push[p].ring \in Buffers /\ push[p].at \in Positions /\ push[p].tick \in Items
      BY <2>1, <2>3, PushStatesDiffer DEF PushPublish, Items, Idle
    <3>2. tail' \in [Buffers -> Positions]
      BY <2>3, <3>1, AfterCases DEF PushPublish, RingTypes
    <3>3. accepted' \in [Buffers -> Seq(Items)]
      BY <2>3, <3>1, AppendProperties DEF PushPublish, RingTypes
    <3>4. push' \in [Producers -> PushStates] /\ RouterTypes' /\ PushInRoute' /\ ReleasedUnmapped'
      BY <2>1, <2>3, PushGoesOn DEF PushPublish
    <3> QED
      BY <2>3, <3>2, <3>3, <3>4 DEF PushPublish, RingTypes
  <2> QED
    BY <1>6, <2>2, <2>3 DEF RoutePush
<1>7. ASSUME NEW p \in Producers, RouteCount(p)
      PROVE  RegistryInvariant'
  <2>1. /\ push' = [push EXCEPT ![p] = Idle]
        /\ UNCHANGED <<head, tail, slots, popPc, popped, accepted, arrived, symbolMap, released>>
    BY <1>7 DEF RouteCount, PushReturn
  <2>2. PICK c \in RouteStates : route' = [route EXCEPT ![p] = c] /\ c.pc # "push"
    <3>1. \/ route' = [route EXCEPT ![p] = [pc |-> "return"]]
          \/ route' = [route EXCEPT ![p] = [pc |-> "warn", why |-> "dropped"]]
      BY <1>7 DEF RouteCount
    <3> QED
      BY <3>1, EndOfCall
  <2>3. RingTypes' /\ RouterTypes' /\ ReleasedUnmapped'
    BY <2>1, <2>2 DEF RingTypes, RouterTypes, ReleasedUnmapped, PushStates
  <2>4. PushInRoute'
    BY <2>1, <2>2 DEF PushInRoute, RingTypes, RouterTypes
  <2> QED
    BY <2>3, <2>4
<1>8. ASSUME NEW p \in Producers, RouteWarn(p) \/ RouteReturn(p)
      PROVE  RegistryInvariant'
  <2>1. /\ UNCHANGED <<ringVars, arrived, symbolMap, released>>
        /\ route[p].pc # "push"
    BY <1>8 DEF RouteWarn, RouteReturn
  <2>2. PICK c \in RouteStates : route' = [route EXCEPT ![p] = c] /\ c.pc # "push"
    BY <1>8 DEF RouteWarn, RouteReturn, RouteStates, Idle
  <2>3. RingTypes' /\ RouterTypes' /\ ReleasedUnmapped'
    BY <2>1, <2>2 DEF ringVars, RingTypes, RouterTypes, ReleasedUnmapped
  <2>4. PushInRoute'
    BY <2>1, <2>2 DEF ringVars, PushInRoute, RouterTypes
  <2> QED
    BY <2>3, <2>4
<1>9. ASSUME NEW b \in Buffers, Pop(b)
      PROVE  RegistryInvariant'
  <2>1. UNCHANGED <<tail, slots, push, accepted, arrived, routerVars>>
    BY <1>9 DEF Pop, Consume, PopBegin, PopMove, PopPublish
  <2>2. slots[b][head[b]] \in Items
    BY DEF RingTypes
  <2>3. /\ head' \in [Buffers -> Positions] /\ popped' \in [Buffers -> Seq(Items)]
        /\ popPc' \in [Buffers -> {"idle", "move", "publish"}]
    <3>1. CASE PopBegin(b)
      BY <3>1 DEF PopBegin, RingTypes
    <3>2. CASE PopMove(b)
      <4>1. Append(popped[b], slots[b][head[b]]) \in Seq(Items)
        BY <2>2, AppendProperties DEF RingTypes
      <4> QED
        BY <3>2, <4>1 DEF PopMove, RingTypes
    <3>3. CASE PopPublish(b)
      <4>1. After(head[b]) \in Positions
        BY AfterCases DEF RingTypes
      <4> QED
        BY <3>3, <4>1 DEF PopPublish, RingTypes
    <3> QED
      BY <1>9, <3>1, <3>2, <3>3 DEF Pop, Consume
  <2> QED
    BY <2>1, <2>3 DEF routerVars, RingTypes, RouterTypes, PushInRoute, ReleasedUnmapped
<1>10. CASE UNCHANGED vars
  BY <1>10 DEF vars, ringVars, routerVars, RingTypes, RouterTypes, PushInRoute, ReleasedUnmapped
<1> QED
  BY <1>2, <1>3, <1>4, <1>5, <1>6, <1>7, <1>8, <1>9, <1>10 DEF Next

(* A push under way goes to a ring that is still registered: adapters and  *)
(* the watchlist exclude each other through the shared mutex.              *)
THEOREM RegistryHolds == Spec => []RegistryInvariant
BY BeginsRegistered, StepRegistered, PTL DEF Spec

(* A ring whose last symbol was unregistered, or moved to another ring, is *)
(* pushed into by no adapter, whatever the adapters and the registry do.   *)
THEOREM ReleasedRingsAreFree == Spec => []ReleasedRingUntouched
<1>1. RegistryInvariant => ReleasedRingUntouched
  BY RouterS1Assumption
     DEF RegistryInvariant, PushInRoute, ReleasedUnmapped, ReleasedRingUntouched
<1> QED
  BY <1>1, RegistryHolds, PTL

---------------------------------------------------------------------------
(* Warnings.  Between two warnings of one adapter lies its own count of    *)
(* another tick, so the second load returns a larger count than the first; *)
(* and the counts that are warned at are a period or more apart.           *)
Reasons == {"dropped", "unknown"}
AboutToWarn(p, why) == route[p].pc = "warn" /\ route[p].why = why

CounterTypes == stats \in [{"routed", "dropped", "unknown"} -> Nat]

WarnedTypes == warned \in [Producers -> [Reasons -> Seq(Nat)]]

WarnedBefore ==
  \A p \in Producers, why \in Reasons :
    /\ \A i \in DOMAIN warned[p][why] :
         /\ warned[p][why][i] % Period(why) = 1
         /\ warned[p][why][i] <= stats[why]
         /\ AboutToWarn(p, why) => warned[p][why][i] < stats[why]
    /\ \A i, j \in DOMAIN warned[p][why] : i < j => warned[p][why][i] < warned[p][why][j]

WarningInvariant == RegistryInvariant /\ CounterTypes /\ WarnedTypes /\ WarnedBefore

LEMMA PeriodsTyped == \A why : Period(why) \in Nat /\ Period(why) >= 2
BY RouterS1Assumption DEF Period

LEMMA Division ==
  ASSUME NEW period \in Nat, period >= 2, NEW q \in Nat, NEW r \in 0 .. period - 1
  PROVE  (period * q + r) \div period = q /\ (period * q + r) % period = r
OBVIOUS

(* Two counts that are warned at fall in different periods.                *)
LEMMA PeriodsDiffer ==
  ASSUME NEW P \in Nat, P >= 2, NEW a \in Nat, NEW b \in Nat,
         a % P = 1, b % P = 1, a < b
  PROVE  (a - 1) \div P < (b - 1) \div P
<1> DEFINE q == a \div P
           r == b \div P
<1>1. q \in Nat /\ r \in Nat /\ a = P * q + 1 /\ b = P * r + 1
  OBVIOUS
<1> HIDE DEF q, r
<1>2. (P * q + 0) \div P = q /\ (P * r + 0) \div P = r
  <2>1. 0 \in 0 .. P - 1
    OBVIOUS
  <2> QED
    BY <1>1, <2>1, Division
<1>3. q < r
  <2>1. CASE r <= q
    <3>1. P * r <= P * q
      BY <1>1, <2>1
    <3> QED
      BY <1>1, <3>1
  <2> QED
    BY <1>1, <2>1
<1>4. a - 1 = P * q + 0 /\ b - 1 = P * r + 0
  BY <1>1
<1> QED
  BY <1>2, <1>3, <1>4

LEMMA CountAppended ==
  ASSUME NEW s \in Seq(Nat), NEW k \in Nat, NEW P \in Nat, k % P = 1,
         \A i \in DOMAIN s : s[i] % P = 1 /\ s[i] < k,
         \A i, j \in DOMAIN s : i < j => s[i] < s[j]
  PROVE  LET longer == Append(s, k)
         IN  /\ \A i \in DOMAIN longer : longer[i] % P = 1 /\ longer[i] <= k
             /\ \A i, j \in DOMAIN longer : i < j => longer[i] < longer[j]
<1> DEFINE longer == Append(s, k)
<1>1. /\ Len(s) \in Nat /\ DOMAIN s = 1 .. Len(s)
      /\ DOMAIN longer = 1 .. Len(s) + 1 /\ longer[Len(s) + 1] = k
      /\ \A i \in 1 .. Len(s) : longer[i] = s[i] /\ s[i] \in Nat
  BY AppendProperties, LenProperties
<1> HIDE DEF longer
<1>2. \A i \in DOMAIN longer : i \in 1 .. Len(s) \/ i = Len(s) + 1
  BY <1>1
<1>3. \A i \in DOMAIN longer : longer[i] % P = 1 /\ longer[i] <= k
  BY <1>1, <1>2
<1>4. ASSUME NEW i \in DOMAIN longer, NEW j \in DOMAIN longer, i < j
      PROVE  longer[i] < longer[j]
  <2>1. i \in 1 .. Len(s)
    BY <1>1, <1>4
  <2> QED
    BY <1>1, <1>2, <1>4, <2>1
<1> QED
  BY <1>3, <1>4 DEF longer

(* A step that gives no warning, and leads an adapter towards one only     *)
(* when it counts a tick.                                                  *)
LEMMA WarnedKept ==
  ASSUME WarningInvariant, RegistryInvariant', CounterTypes', UNCHANGED warned,
         \A why \in Reasons :
           /\ stats'[why] >= stats[why]
           /\ \A p \in Producers :
                AboutToWarn(p, why)' => AboutToWarn(p, why) \/ stats'[why] > stats[why]
  PROVE  WarningInvariant'
<1>1. ASSUME NEW p \in Producers, NEW why \in Reasons, NEW i \in DOMAIN warned[p][why]
      PROVE  /\ warned[p][why][i] <= stats'[why]
             /\ AboutToWarn(p, why)' => warned[p][why][i] < stats'[why]
  <2>1. warned[p][why][i] \in Nat /\ stats[why] \in Nat /\ stats'[why] \in Nat
    BY DEF WarningInvariant, WarnedTypes, CounterTypes, Reasons
  <2>2. /\ warned[p][why][i] <= stats[why]
        /\ AboutToWarn(p, why) => warned[p][why][i] < stats[why]
    BY DEF WarningInvariant, WarnedBefore
  <2>3. stats'[why] >= stats[why]
    OBVIOUS
  <2>4. AboutToWarn(p, why)' => AboutToWarn(p, why) \/ stats'[why] > stats[why]
    OBVIOUS
  <2> QED
    BY <2>1, <2>2, <2>3, <2>4
<1>2. WarnedBefore'
  BY <1>1 DEF WarningInvariant, WarnedBefore, Period
<1> QED
  BY <1>2 DEF WarningInvariant, WarnedTypes

LEMMA BeginsQuiet == Init => WarningInvariant
<1> SUFFICES ASSUME Init PROVE WarningInvariant
  OBVIOUS
<1>1. CounterTypes /\ WarnedTypes /\ WarnedBefore
  BY DEF Init, CounterTypes, WarnedTypes, WarnedBefore, Reasons
<1> QED
  BY <1>1, BeginsRegistered DEF WarningInvariant

LEMMA WarnKeepsRare ==
  ASSUME WarningInvariant, RegistryInvariant', NEW p \in Producers, RouteWarn(p)
  PROVE  WarningInvariant'
<1> DEFINE why == route[p].why
           w == warned[p][why]
<1>1. /\ route[p].pc = "warn" /\ route' = [route EXCEPT ![p] = [pc |-> "return"]]
      /\ route \in [Producers -> RouteStates] /\ stats' = stats
  BY DEF RouteWarn, WarningInvariant, RegistryInvariant, RouterTypes
<1>2. why \in Reasons
  BY <1>1 DEF RouteStates, Idle, Reasons
<1>3. CounterTypes'
  BY <1>1 DEF WarningInvariant, CounterTypes
<1>4. \A q \in Producers, y \in Reasons :
        AboutToWarn(q, y)' => AboutToWarn(q, y) /\ q # p
  BY <1>1 DEF AboutToWarn
<1>5. CASE stats[why] % Period(why) = 1
  <2>1. warned' = [warned EXCEPT ![p][why] = Append(@, stats[why])]
    BY <1>5 DEF RouteWarn
  <2>2. stats[why] \in Nat /\ w \in Seq(Nat) /\ Len(w) \in Nat /\ DOMAIN w = 1 .. Len(w)
    BY <1>2 DEF WarningInvariant, CounterTypes, WarnedTypes, Reasons
  <2>3. \A i \in DOMAIN w : w[i] < stats[why]
    BY <1>1, <1>2 DEF WarningInvariant, WarnedBefore, AboutToWarn
  <2>4. /\ warned'[p][why] = Append(w, stats[why])
        /\ WarnedTypes'
    BY <1>2, <2>1, <2>2 DEF WarningInvariant, WarnedTypes
  <2>5. ASSUME NEW q \in Producers, NEW y \in Reasons, q # p \/ y # why
        PROVE  warned'[q][y] = warned[q][y]
    BY <1>2, <2>1, <2>5 DEF WarningInvariant, WarnedTypes
  <2>6. ASSUME NEW q \in Producers, NEW y \in Reasons
        PROVE  /\ \A i \in DOMAIN warned'[q][y] :
                    /\ warned'[q][y][i] % Period(y) = 1
                    /\ warned'[q][y][i] <= stats'[y]
                    /\ AboutToWarn(q, y)' => warned'[q][y][i] < stats'[y]
               /\ \A i, j \in DOMAIN warned'[q][y] : i < j => warned'[q][y][i] < warned'[q][y][j]
    <3>1. CASE q # p \/ y # why
      <4>1. warned'[q][y] = warned[q][y]
        BY <2>5, <3>1
      <4> QED
        BY <1>1, <1>4, <4>1 DEF WarningInvariant, WarnedBefore
    <3>2. CASE q = p /\ y = why
      <4>1. /\ \A i \in DOMAIN w : w[i] % Period(why) = 1 /\ w[i] < stats[why]
            /\ \A i, j \in DOMAIN w : i < j => w[i] < w[j]
        BY <1>2, <2>3 DEF WarningInvariant, WarnedBefore
      <4>2. Period(why) \in Nat /\ stats[why] \in Nat /\ w \in Seq(Nat)
        BY <2>2, PeriodsTyped
      <4>3. warned'[q][y] = Append(w, stats[why]) /\ ~AboutToWarn(q, y)'
        BY <1>2, <1>4, <2>4, <3>2
      <4>4. y = why
        BY <3>2
      <4> HIDE DEF w, why
      <4>5. LET longer == Append(w, stats[why])
            IN  /\ \A i \in DOMAIN longer : longer[i] % Period(why) = 1 /\ longer[i] <= stats[why]
                /\ \A i, j \in DOMAIN longer : i < j => longer[i] < longer[j]
        BY <1>5, <4>1, <4>2, CountAppended
      <4> QED
        BY <1>1, <4>3, <4>4, <4>5
    <3> QED
      BY <3>1, <3>2
  <2>7. WarnedBefore'
    BY <2>6 DEF WarnedBefore, Period
  <2> QED
    BY <1>3, <2>4, <2>7 DEF WarningInvariant
<1>6. CASE stats[why] % Period(why) # 1
  <2>1. warned' = warned
    BY <1>6 DEF RouteWarn
  <2>2. \A y \in Reasons : stats[y] \in Nat
    BY DEF WarningInvariant, CounterTypes, Reasons
  <2> QED
    BY <1>1, <1>3, <1>4, <2>1, <2>2, WarnedKept
<1> QED
  BY <1>5, <1>6

LEMMA StepStaysQuiet == WarningInvariant /\ [Next]_vars => WarningInvariant'
<1> SUFFICES ASSUME WarningInvariant, [Next]_vars PROVE WarningInvariant'
  OBVIOUS
<1>1. RegistryInvariant'
  BY StepRegistered DEF WarningInvariant
<1>a. /\ route \in [Producers -> RouteStates]
      /\ stats \in [{"routed", "dropped", "unknown"} -> Nat]
      /\ \A y \in Reasons : stats[y] \in Nat
  BY DEF WarningInvariant, CounterTypes, Reasons, RegistryInvariant, RouterTypes
<1>2. CASE UNCHANGED <<route, stats, warned>>
  <2>1. CounterTypes' /\ \A p \in Producers, y \in Reasons : AboutToWarn(p, y)' => AboutToWarn(p, y)
    BY <1>2 DEF WarningInvariant, CounterTypes, AboutToWarn
  <2> QED
    BY <1>1, <1>a, <1>2, <2>1, WarnedKept
<1>3. ASSUME NEW p \in Producers, NEW s \in Symbols, NEW o \in Overloads, RouteKnown(p, s, o)
      PROVE  WarningInvariant'
  <2>1. UNCHANGED <<stats, warned>> /\ CounterTypes'
    BY <1>3 DEF RouteKnown, WarningInvariant, CounterTypes
  <2>2. \A q \in Producers, y \in Reasons : AboutToWarn(q, y)' => AboutToWarn(q, y)
    BY <1>3, <1>a DEF RouteKnown, AboutToWarn
  <2> QED
    BY <1>1, <1>a, <2>1, <2>2, WarnedKept
<1>4. ASSUME NEW p \in Producers, RouteCount(p)
      PROVE  WarningInvariant'
  <2> DEFINE name == IF push[p].pc = "accepted" THEN "routed" ELSE "dropped"
             next == IF push[p].pc = "refused" /\ route[p].overload = "copy"
                       THEN [pc |-> "warn", why |-> "dropped"]
                       ELSE [pc |-> "return"]
  <2>1. /\ stats' = [stats EXCEPT ![name] = @ + 1]
        /\ route' = [route EXCEPT ![p] = next]
        /\ warned' = warned
    BY <1>4 DEF RouteCount, CountStat
  <2>2. CounterTypes' /\ \A y \in Reasons : stats'[y] >= stats[y]
    BY <1>a, <2>1 DEF CounterTypes, Reasons
  <2>3. ASSUME NEW q \in Producers, NEW y \in Reasons, AboutToWarn(q, y)'
        PROVE  AboutToWarn(q, y) \/ stats'[y] > stats[y]
    <3>1. CASE q # p
      BY <1>a, <2>1, <2>3, <3>1 DEF AboutToWarn
    <3>2. CASE q = p
      <4>1. route'[p] = next /\ next.pc = "warn" /\ next.why = y
        BY <1>a, <2>1, <2>3, <3>2 DEF AboutToWarn
      <4>2. push[p].pc = "refused" /\ y = "dropped" /\ name = "dropped"
        BY <4>1
      <4> QED
        BY <1>a, <2>1, <4>2
    <3> QED
      BY <3>1, <3>2
  <2> HIDE DEF name, next
  <2> QED
    BY <1>1, <2>1, <2>2, <2>3, WarnedKept
<1>5. ASSUME NEW p \in Producers, RouteReturn(p)
      PROVE  WarningInvariant'
  <2>1. UNCHANGED <<stats, warned>> /\ CounterTypes'
    BY <1>5 DEF RouteReturn, WarningInvariant, CounterTypes
  <2>2. \A q \in Producers, y \in Reasons : AboutToWarn(q, y)' => AboutToWarn(q, y)
    BY <1>5, <1>a DEF RouteReturn, Idle, AboutToWarn
  <2> QED
    BY <1>1, <1>a, <2>1, <2>2, WarnedKept
<1>6. ASSUME NEW p \in Producers, NEW s \in Symbols, NEW o \in Overloads, RouteUnknown(p, s, o)
      PROVE  WarningInvariant'
  <2>1. /\ stats' = [stats EXCEPT !["unknown"] = @ + 1] /\ warned' = warned
        /\ route' = [route EXCEPT ![p] =
             [pc |-> IF o = "copy" THEN "warn" ELSE "return", why |-> "unknown"]]
    BY <1>6 DEF RouteUnknown, CountStat
  <2>2. CounterTypes' /\ \A y \in Reasons : stats'[y] >= stats[y]
    BY <1>a, <2>1 DEF CounterTypes, Reasons
  <2>3. \A q \in Producers, y \in Reasons :
          AboutToWarn(q, y)' => AboutToWarn(q, y) \/ stats'[y] > stats[y]
    BY <1>a, <2>1 DEF AboutToWarn, Reasons
  <2> QED
    BY <1>1, <2>1, <2>2, <2>3, WarnedKept
<1> QED
  BY <1>1, <1>2, <1>3, <1>4, <1>5, <1>6, WarnKeepsRare
     DEF Next, Register, Unregister, RoutePush, Pop, routerVars, vars

THEOREM WarningsHold == Spec => []WarningInvariant
BY BeginsQuiet, StepStaysQuiet, PTL DEF Spec

(* However adapters interleave between counting a tick and loading the     *)
(* counter again, no adapter warns twice in one period.                    *)
THEOREM WarningsStayRare == Spec => []WarningsRare
<1>1. ASSUME WarningInvariant PROVE WarningsRare
  <2> SUFFICES ASSUME NEW p \in Producers, NEW why \in Reasons,
                      NEW i \in DOMAIN warned[p][why], NEW j \in DOMAIN warned[p][why], i < j
               PROVE  (warned[p][why][i] - 1) \div Period(why) <
                        (warned[p][why][j] - 1) \div Period(why)
    BY DEF WarningsRare, Reasons
  <2> DEFINE a == warned[p][why][i]
             b == warned[p][why][j]
             P == Period(why)
  <2>1. a \in Nat /\ b \in Nat
    BY <1>1 DEF WarningInvariant, WarnedTypes
  <2>2. a % P = 1 /\ b % P = 1 /\ a < b
    BY <1>1 DEF WarningInvariant, WarnedBefore
  <2>3. P \in Nat /\ P >= 2
    BY PeriodsTyped
  <2> HIDE DEF a, b, P
  <2>4. (a - 1) \div P < (b - 1) \div P
    BY <2>1, <2>2, <2>3, PeriodsDiffer
  <2> QED
    BY <2>4 DEF a, b, P
<1> QED
  BY <1>1, WarningsHold, PTL

---------------------------------------------------------------------------
(* Sums over the rings.  A fold over a finite set is the value at that set *)
(* of a function of its subsets; that the function exists, and how the sum *)
(* follows its summands, are inductions on the number of elements, from    *)
(* the least counterexample.                                               *)
LEMMA LeastElement ==
  ASSUME NEW T \in SUBSET Nat, T # {}
  PROVE  \E n \in T : \A m \in T : n <= m
<1>1. PICK n \in T : \A m \in T : ~(<<m, n>> \in OpToRel(<, Nat))
  BY NatLessThanWellFounded, WFMin
<1>2. ASSUME NEW m \in T PROVE n <= m
  <2>1. ~(m < n)
    BY <1>1 DEF OpToRel
  <2> QED
    BY <2>1
<1> QED
  BY <1>2

LEMMA Induction ==
  ASSUME NEW T, 0 \in T, \A n \in Nat : n \in T => n + 1 \in T
  PROVE  \A n \in Nat : n \in T
<1> SUFFICES ASSUME Nat \ T # {} PROVE FALSE
  OBVIOUS
<1>1. PICK n \in Nat \ T : \A m \in Nat \ T : n <= m
  BY LeastElement
<1>2. n # 0 /\ n - 1 \in Nat /\ n - 1 \in T
  BY <1>1
<1> QED
  BY <1>1, <1>2

LEMMA SubsetInduction ==
  ASSUME NEW S, IsFiniteSet(S), NEW T, {} \in T,
         \A s \in SUBSET S : (\A x \in s : s \ {x} \in T) => s \in T
  PROVE  \A s \in SUBSET S : s \in T
<1> DEFINE N == {n \in Nat : \A s \in SUBSET S : Cardinality(s) = n => s \in T}
<1>1. \A s \in SUBSET S : IsFiniteSet(s) /\ Cardinality(s) \in Nat
  BY FS_Subset, FS_CardinalityType
<1>2. 0 \in N
  BY <1>1, FS_EmptySet
<1>3. ASSUME NEW n \in Nat, n \in N PROVE n + 1 \in N
  <2>1. ASSUME NEW s \in SUBSET S, Cardinality(s) = n + 1 PROVE s \in T
    <3>1. ASSUME NEW x \in s PROVE s \ {x} \in T
      <4>1. Cardinality(s \ {x}) = n
        BY <1>1, <2>1, FS_RemoveElement
      <4> QED
        BY <1>3, <4>1
    <3> QED
      BY <3>1
  <2> QED
    BY <2>1
<1>4. \A n \in Nat : n \in N
  <2> HIDE DEF N
  <2> QED
    BY <1>2, <1>3, Induction
<1> QED
  BY <1>1, <1>4

One(s) == CHOOSE x \in s : TRUE

(* f gives for every set of rings the sum of v over it.                    *)
SumsUp(f, v) ==
  f = [s \in SUBSET Buffers |-> IF s = {} THEN 0 ELSE v[One(s)] + f[s \ {One(s)}]]

LEMMA SumsExist == ASSUME NEW v PROVE \E f : SumsUp(f, v)
<1> DEFINE Small(n) == {s \in SUBSET Buffers : Cardinality(s) <= n}
           UpTo(f, n) == f = [s \in Small(n) |->
                                IF s = {} THEN 0 ELSE v[One(s)] + f[s \ {One(s)}]]
           N == {n \in Nat : \E f : UpTo(f, n)}
<1>1. \A s \in SUBSET Buffers : IsFiniteSet(s) /\ Cardinality(s) \in Nat
  BY RouterS1Assumption, FS_Subset, FS_CardinalityType
<1>2. \A s \in SUBSET Buffers : s # {} => One(s) \in s
  BY DEF One
<1>3. 0 \in N
  <2> DEFINE f == [s \in Small(0) |-> 0]
  <2>1. \A s \in Small(0) : s = {}
    BY <1>1, FS_EmptySet
  <2>2. UpTo(f, 0)
    BY <2>1
  <2> HIDE DEF f, UpTo
  <2> QED
    BY <2>2
<1>4. ASSUME NEW n \in Nat, n \in N PROVE n + 1 \in N
  <2>1. PICK f : UpTo(f, n)
    BY <1>4
  <2> DEFINE g == [s \in Small(n + 1) |->
                     IF Cardinality(s) <= n THEN f[s] ELSE v[One(s)] + f[s \ {One(s)}]]
  <2>2. ASSUME NEW s \in Small(n + 1)
        PROVE  g[s] = IF s = {} THEN 0 ELSE v[One(s)] + g[s \ {One(s)}]
    <3>1. s # {} => /\ s \ {One(s)} \in SUBSET Buffers
                    /\ Cardinality(s \ {One(s)}) = Cardinality(s) - 1
      BY <1>1, <1>2, FS_RemoveElement
    <3>2. s # {} => s \ {One(s)} \in Small(n) /\ g[s \ {One(s)}] = f[s \ {One(s)}]
      BY <1>1, <3>1
    <3>3. CASE Cardinality(s) <= n
      <4>1. f[s] = IF s = {} THEN 0 ELSE v[One(s)] + f[s \ {One(s)}]
        BY <2>1, <3>3
      <4> QED
        BY <3>2, <3>3, <4>1
    <3>4. CASE ~(Cardinality(s) <= n)
      <4>1. s # {}
        BY <1>1, <3>4, FS_EmptySet
      <4> QED
        BY <3>2, <3>4, <4>1
    <3> QED
      BY <3>3, <3>4
  <2>3. UpTo(g, n + 1)
    BY <2>2
  <2> HIDE DEF g, UpTo
  <2> QED
    BY <2>3
<1>5. Cardinality(Buffers) \in N
  <2> HIDE DEF N
  <2> QED
    BY <1>1, <1>3, <1>4, Induction
<1>6. PICK f : UpTo(f, Cardinality(Buffers))
  BY <1>5
<1>7. Small(Cardinality(Buffers)) = SUBSET Buffers
  BY <1>1, RouterS1Assumption, FS_Subset
<1> QED
  BY <1>6, <1>7 DEF SumsUp

LEMMA SumOfZeros ==
  ASSUME NEW v, NEW f, SumsUp(f, v), \A b \in Buffers : v[b] = 0
  PROVE  f[Buffers] = 0
<1> DEFINE T == {s \in SUBSET Buffers : f[s] = 0}
<1>1. ASSUME NEW s \in SUBSET Buffers, \A x \in s : s \ {x} \in T PROVE s \in T
  <2>1. CASE s = {}
    BY <2>1 DEF SumsUp
  <2>2. CASE s # {}
    <3>1. One(s) \in s
      BY <2>2 DEF One
    <3>2. f[s] = v[One(s)] + f[s \ {One(s)}]
      BY <2>2 DEF SumsUp
    <3> QED
      BY <1>1, <3>1, <3>2
  <2> QED
    BY <2>1, <2>2
<1>2. {} \in T
  BY DEF SumsUp
<1>3. Buffers \in T
  <2>1. IsFiniteSet(Buffers)
    BY RouterS1Assumption
  <2> HIDE DEF T
  <2>2. \A s \in SUBSET Buffers : s \in T
    BY <1>1, <1>2, <2>1, SubsetInduction
  <2> QED
    BY <2>2
<1> QED
  BY <1>3

(* One summand more by one, the sum more by one.                           *)
LEMMA SumFollows ==
  ASSUME NEW v, NEW w, NEW f, NEW g, SumsUp(f, v), SumsUp(g, w), NEW b \in Buffers,
         \A x \in Buffers : v[x] \in Int,
         \A x \in Buffers : w[x] = IF x = b THEN v[x] + 1 ELSE v[x]
  PROVE  f[Buffers] \in Int /\ g[Buffers] = f[Buffers] + 1
<1> DEFINE T == {s \in SUBSET Buffers : /\ f[s] \in Int
                                        /\ g[s] = IF b \in s THEN f[s] + 1 ELSE f[s]}
<1>1. ASSUME NEW s \in SUBSET Buffers, \A x \in s : s \ {x} \in T PROVE s \in T
  <2>1. CASE s = {}
    BY <2>1 DEF SumsUp
  <2>2. CASE s # {}
    <3>1. One(s) \in s
      BY <2>2 DEF One
    <3>2. /\ f[s] = v[One(s)] + f[s \ {One(s)}]
          /\ g[s] = w[One(s)] + g[s \ {One(s)}]
      BY <2>2 DEF SumsUp
    <3>3. s \ {One(s)} \in T
      BY <1>1, <3>1
    <3>4. CASE One(s) = b
      BY <3>1, <3>2, <3>3, <3>4
    <3>5. CASE One(s) # b
      BY <3>1, <3>2, <3>3, <3>5
    <3> QED
      BY <3>4, <3>5
  <2> QED
    BY <2>1, <2>2
<1>2. {} \in T
  BY DEF SumsUp
<1>3. Buffers \in T
  <2>1. IsFiniteSet(Buffers)
    BY RouterS1Assumption
  <2> HIDE DEF T
  <2>2. \A s \in SUBSET Buffers : s \in T
    BY <1>1, <1>2, <2>1, SubsetInduction
  <2> QED
    BY <2>2
<1> QED
  BY <1>3

(* The two sums of StatsAccount.                                           *)
LengthsTotal(a) == MapThenSumSet(LAMBDA b : Len(a[b]), Buffers)
Total(v) == MapThenSumSet(LAMBDA b : v[b], Buffers)

LEMMA TotalIsSum == ASSUME NEW v PROVE \E f : SumsUp(f, v) /\ Total(v) = f[Buffers]
<1> DEFINE f == CHOOSE f : SumsUp(f, v)
<1>1. SumsUp(f, v)
  BY SumsExist
<1>2. Total(v) = f[Buffers]
  BY DEF Total, MapThenSumSet, MapThenFoldSet, SumsUp, One
<1> QED
  BY <1>1, <1>2

LEMMA LengthsTotalIsSum ==
  ASSUME NEW a
  PROVE  \E f : SumsUp(f, [b \in Buffers |-> Len(a[b])]) /\ LengthsTotal(a) = f[Buffers]
<1> DEFINE v == [b \in Buffers |-> Len(a[b])]
           P(f) == f = [s \in SUBSET Buffers |->
                          IF s = {} THEN 0 ELSE Len(a[One(s)]) + f[s \ {One(s)}]]
           f == CHOOSE f : P(f)
<1>1. \A s \in SUBSET Buffers : s # {} => Len(a[One(s)]) = v[One(s)]
  BY DEF One
<1>2. \A h : SumsUp(h, v) <=> P(h)
  BY <1>1 DEF SumsUp
<1>3. P(f)
  BY <1>2, SumsExist
<1>4. LengthsTotal(a) = f[Buffers]
  BY DEF LengthsTotal, MapThenSumSet, MapThenFoldSet, One
<1> QED
  BY <1>2, <1>3, <1>4

LEMMA TotalsFollow ==
  ASSUME NEW v, NEW w, NEW b \in Buffers,
         \A x \in Buffers : v[x] \in Int,
         \A x \in Buffers : w[x] = IF x = b THEN v[x] + 1 ELSE v[x]
  PROVE  Total(v) \in Int /\ Total(w) = Total(v) + 1
<1>1. PICK f : SumsUp(f, v) /\ Total(v) = f[Buffers]
  BY TotalIsSum
<1>2. PICK g : SumsUp(g, w) /\ Total(w) = g[Buffers]
  BY TotalIsSum
<1>3. f[Buffers] \in Int /\ g[Buffers] = f[Buffers] + 1
  BY <1>1, <1>2, SumFollows
<1> QED
  BY <1>1, <1>2, <1>3

LEMMA LengthsTotalsFollow ==
  ASSUME NEW a \in [Buffers -> Seq(Items)], NEW c, NEW b \in Buffers, NEW item \in Items,
         c = [a EXCEPT ![b] = Append(@, item)]
  PROVE  LengthsTotal(a) \in Int /\ LengthsTotal(c) = LengthsTotal(a) + 1
<1> DEFINE v == [x \in Buffers |-> Len(a[x])]
           w == [x \in Buffers |-> Len(c[x])]
<1>1. PICK f : SumsUp(f, v) /\ LengthsTotal(a) = f[Buffers]
  BY LengthsTotalIsSum
<1>2. PICK g : SumsUp(g, w) /\ LengthsTotal(c) = g[Buffers]
  BY LengthsTotalIsSum
<1>3. /\ \A x \in Buffers : v[x] \in Int
      /\ \A x \in Buffers : w[x] = IF x = b THEN v[x] + 1 ELSE v[x]
  OBVIOUS
<1> HIDE DEF v, w
<1>4. f[Buffers] \in Int /\ g[Buffers] = f[Buffers] + 1
  BY <1>1, <1>2, <1>3, SumFollows
<1> QED
  BY <1>1, <1>2, <1>4

LEMMA TotalsOfNone ==
  ASSUME NEW v, \A b \in Buffers : v[b] = 0, NEW a, \A b \in Buffers : a[b] = << >>
  PROVE  Total(v) = 0 /\ LengthsTotal(a) = 0
<1>1. PICK f : SumsUp(f, v) /\ Total(v) = f[Buffers]
  BY TotalIsSum
<1>2. f[Buffers] = 0
  BY <1>1, SumOfZeros
<1> DEFINE w == [b \in Buffers |-> Len(a[b])]
<1>3. PICK g : SumsUp(g, w) /\ LengthsTotal(a) = g[Buffers]
  BY LengthsTotalIsSum
<1>4. \A b \in Buffers : w[b] = 0
  OBVIOUS
<1> HIDE DEF w
<1>5. g[Buffers] = 0
  BY <1>3, <1>4, SumOfZeros
<1> QED
  BY <1>1, <1>2, <1>3, <1>5

---------------------------------------------------------------------------
(* The accounts.  They are inductive with the types: what a ring counts,   *)
(* and the router has not counted yet, is in a push that is in progress.   *)
Pushing(pcs) == Cardinality({p \in Producers : push[p].pc \in pcs})

AllPushes == {"write", "publish", "accepted", "refused"}

Account ==
  /\ LengthsTotal(accepted) = stats["routed"] + Pushing({"accepted"})
  /\ Total(dropped) = stats["dropped"] + Pushing({"refused"})
  /\ arrived = stats["routed"] + stats["dropped"] + stats["unknown"] + Pushing(AllPushes)

AccountInvariant ==
  RegistryInvariant /\ CounterTypes /\ dropped \in [Buffers -> Nat] /\ Account

LEMMA AccountIsStats == Account <=> StatsAccount
BY DEF Account, StatsAccount, LengthsTotal, Total, Pushing, AllPushes

LEMMA ProducersCounted ==
  ASSUME NEW W \in SUBSET Producers
  PROVE  IsFiniteSet(W) /\ Cardinality(W) \in Nat
BY RouterS1Assumption, FS_Subset, FS_CardinalityType

LEMMA PushingTyped == \A pcs : Pushing(pcs) \in Nat
<1> TAKE pcs
<1>1. {p \in Producers : push[p].pc \in pcs} \in SUBSET Producers
  OBVIOUS
<1> QED
  BY <1>1, ProducersCounted DEF Pushing

LEMMA PushingMoves ==
  ASSUME RingTypes, NEW p \in Producers, NEW x, push' = [push EXCEPT ![p] = x], NEW pcs
  PROVE  /\ Pushing(pcs)' \in Nat
         /\ Pushing(pcs)' = Pushing(pcs) + (IF x.pc \in pcs THEN 1 ELSE 0)
                                         - (IF push[p].pc \in pcs THEN 1 ELSE 0)
<1> DEFINE S == {q \in Producers : push[q].pc \in pcs}
           R == {q \in Producers : push'[q].pc \in pcs}
<1>1. S \in SUBSET Producers /\ R \in SUBSET Producers
  OBVIOUS
<1>2. R = IF x.pc \in pcs THEN S \cup {p} ELSE S \ {p}
  BY DEF RingTypes
<1>3. p \in S <=> push[p].pc \in pcs
  OBVIOUS
<1>4. Pushing(pcs) = Cardinality(S) /\ Pushing(pcs)' = Cardinality(R)
  BY DEF Pushing
<1> HIDE DEF S, R
<1>5. IsFiniteSet(S) /\ Cardinality(S) \in Nat /\ Cardinality(R) \in Nat
  BY <1>1, ProducersCounted
<1>6. /\ Cardinality(S \cup {p}) = IF p \in S THEN Cardinality(S) ELSE Cardinality(S) + 1
      /\ Cardinality(S \ {p}) = IF p \in S THEN Cardinality(S) - 1 ELSE Cardinality(S)
  BY <1>5, FS_AddElement, FS_RemoveElement
<1> QED
  BY <1>2, <1>3, <1>4, <1>5, <1>6

Recounted(pcs, from, to) ==
  Pushing(pcs)' = Pushing(pcs) + (IF to \in pcs THEN 1 ELSE 0) - (IF from \in pcs THEN 1 ELSE 0)

RecountedAll(from, to) ==
  Recounted({"accepted"}, from, to) /\ Recounted({"refused"}, from, to)
    /\ Recounted(AllPushes, from, to)

LEMMA PushesMove ==
  ASSUME RingTypes, NEW p \in Producers, NEW x, push' = [push EXCEPT ![p] = x]
  PROVE  RecountedAll(push[p].pc, x.pc)
<1>1. \A pcs : Recounted(pcs, push[p].pc, x.pc)
  <2> TAKE pcs
  <2> QED
    BY PushingMoves DEF Recounted
<1> QED
  BY <1>1 DEF RecountedAll

LEMMA BeginsAccounted == Init => AccountInvariant
<1> SUFFICES ASSUME Init PROVE AccountInvariant
  OBVIOUS
<1>1. ASSUME NEW pcs \in SUBSET AllPushes PROVE Pushing(pcs) = 0
  <2>1. {p \in Producers : push[p].pc \in pcs} = {}
    BY <1>1 DEF Init, RingInit, Idle, AllPushes
  <2> QED
    BY <2>1, FS_EmptySet DEF Pushing
<1>2. Pushing({"accepted"}) = 0 /\ Pushing({"refused"}) = 0 /\ Pushing(AllPushes) = 0
  BY <1>1 DEF AllPushes
<1>3. Total(dropped) = 0 /\ LengthsTotal(accepted) = 0
  BY TotalsOfNone DEF Init, RingInit
<1>4. Account
  BY <1>2, <1>3 DEF Init, Account
<1> QED
  BY <1>4, BeginsRegistered DEF Init, RingInit, CounterTypes, AccountInvariant

LEMMA StepAccounts == AccountInvariant /\ [Next]_vars => AccountInvariant'
<1> SUFFICES ASSUME AccountInvariant, [Next]_vars PROVE AccountInvariant'
  OBVIOUS
<1> DEFINE Done == CounterTypes' /\ (dropped \in [Buffers -> Nat])' /\ Account'
<1>1. /\ RegistryInvariant /\ RegistryInvariant' /\ RingTypes /\ CounterTypes
      /\ dropped \in [Buffers -> Nat] /\ Account
      /\ arrived \in Nat
  BY StepRegistered, RingS1Assumption
     DEF AccountInvariant, RegistryInvariant, RouterTypes
<1>2. /\ stats["routed"] \in Nat /\ stats["dropped"] \in Nat /\ stats["unknown"] \in Nat
      /\ \A pcs : Pushing(pcs) \in Nat
  BY <1>1, PushingTyped DEF CounterTypes
<1>3. CASE UNCHANGED <<accepted, dropped, push, stats, arrived>>
  <2>1. \A pcs : Pushing(pcs)' = Pushing(pcs)
    BY <1>3 DEF Pushing
  <2>2. LengthsTotal(accepted') = LengthsTotal(accepted) /\ Total(dropped') = Total(dropped)
    BY <1>3
  <2>3. Account'
    BY <1>1, <1>3, <2>1, <2>2 DEF Account
  <2> QED
    BY <1>1, <1>3, <2>3 DEF CounterTypes, AccountInvariant
<1>4. ASSUME NEW p \in Producers, NEW s \in Symbols, NEW o \in Overloads, RouteUnknown(p, s, o)
      PROVE  Done
  <2>1. /\ UNCHANGED <<accepted, dropped, push>> /\ arrived' = arrived + 1
        /\ stats' = [stats EXCEPT !["unknown"] = @ + 1]
    BY <1>4 DEF RouteUnknown, Arrive, ringVars, CountStat
  <2>2. \A pcs : Pushing(pcs)' = Pushing(pcs)
    BY <2>1 DEF Pushing
  <2> QED
    BY <1>1, <1>2, <2>1, <2>2 DEF Account, CounterTypes
<1>5. ASSUME NEW p \in Producers, NEW s \in Symbols, NEW o \in Overloads, RouteKnown(p, s, o)
      PROVE  Done
  <2> DEFINE b == symbolMap[s]
  <2>1. /\ PushBegin(p, b, arrived + 1) /\ UNCHANGED stats
        /\ arrived' = arrived + 1 /\ b \in Buffers
    BY <1>1, <1>5 DEF RouteKnown, Arrive, RegistryInvariant, RouterTypes
  <2>2. push[p].pc = "idle" /\ accepted' = accepted
    BY <2>1 DEF PushBegin, Idle
  <2>3. CASE Full(b)
    <3>1. /\ dropped' = [dropped EXCEPT ![b] = @ + 1]
          /\ push' = [push EXCEPT ![p] = [pc |-> "refused", ring |-> b]]
      BY <2>1, <2>3 DEF PushBegin
    <3>0. [pc |-> "refused", ring |-> b].pc = "refused"
      OBVIOUS
    <3>recount. RecountedAll(push[p].pc, [pc |-> "refused", ring |-> b].pc)
      BY <1>1, <3>1, PushesMove
    <3>2. /\ Pushing({"accepted"})' = Pushing({"accepted"})
          /\ Pushing({"refused"})' = Pushing({"refused"}) + 1
          /\ Pushing(AllPushes)' = Pushing(AllPushes) + 1
      BY <1>1, <1>2, <2>2, <3>1, <3>0, <3>recount DEF RecountedAll, Recounted, AllPushes
    <3>3. /\ dropped' \in [Buffers -> Nat]
          /\ \A y \in Buffers : dropped[y] \in Int
          /\ \A y \in Buffers : dropped'[y] = IF y = b THEN dropped[y] + 1 ELSE dropped[y]
      BY <1>1, <2>1, <3>1
    <3>4. Total(dropped') = Total(dropped) + 1
      BY <2>1, <3>3, TotalsFollow
    <3> QED
      BY <1>1, <1>2, <2>1, <2>2, <3>2, <3>3, <3>4 DEF Account, CounterTypes
  <2>4. CASE ~Full(b)
    <3>1. /\ dropped' = dropped
          /\ push' = [push EXCEPT ![p] =
                        [pc |-> "write", ring |-> b, tick |-> arrived + 1, at |-> tail[b]]]
      BY <2>1, <2>4 DEF PushBegin
    <3>0. [pc |-> "write", ring |-> b, tick |-> arrived + 1, at |-> tail[b]].pc = "write"
      OBVIOUS
    <3>recount. RecountedAll(push[p].pc, [pc |-> "write", ring |-> b, tick |-> arrived + 1, at |-> tail[b]].pc)
      BY <1>1, <3>1, PushesMove
    <3>2. /\ Pushing({"accepted"})' = Pushing({"accepted"})
          /\ Pushing({"refused"})' = Pushing({"refused"})
          /\ Pushing(AllPushes)' = Pushing(AllPushes) + 1
      BY <1>1, <1>2, <2>2, <3>1, <3>0, <3>recount DEF RecountedAll, Recounted, AllPushes
    <3> QED
      BY <1>1, <1>2, <2>1, <2>2, <3>1, <3>2 DEF Account, CounterTypes
  <2> QED
    BY <2>3, <2>4
<1>6. ASSUME NEW p \in Producers, RoutePush(p)
      PROVE  Done
  <2>1. UNCHANGED <<stats, arrived, dropped>>
    BY <1>6 DEF RoutePush, PushWrite, PushPublish, routerVars
  <2>2. CASE PushWrite(p)
    <3> DEFINE x == [push[p] EXCEPT !.pc = "publish"]
    <3>1. /\ push[p].pc = "write" /\ push' = [push EXCEPT ![p] = x] /\ accepted' = accepted
          /\ push[p] \in PushStates
      BY <1>1, <2>2 DEF PushWrite, RingTypes
    <3>2. x.pc = "publish"
      BY <3>1 DEF PushStates, Idle
    <3> HIDE DEF x
    <3>recount. RecountedAll(push[p].pc, x.pc)
      BY <1>1, <3>1, PushesMove
    <3>3. /\ Pushing({"accepted"})' = Pushing({"accepted"})
          /\ Pushing({"refused"})' = Pushing({"refused"})
          /\ Pushing(AllPushes)' = Pushing(AllPushes)
      BY <1>1, <1>2, <3>1, <3>2, <3>recount DEF RecountedAll, Recounted, AllPushes
    <3> QED
      BY <1>1, <2>1, <3>1, <3>3 DEF Account, CounterTypes
  <2>3. CASE PushPublish(p)
    <3> DEFINE x == [push[p] EXCEPT !.pc = "accepted"]
    <3>1. /\ push[p].pc = "publish" /\ push' = [push EXCEPT ![p] = x]
          /\ push[p] \in PushStates
          /\ accepted' = [accepted EXCEPT ![push[p].ring] = Append(@, push[p].tick)]
      BY <1>1, <2>3 DEF PushPublish, RingTypes
    <3>2. x.pc = "accepted" /\ push[p].ring \in Buffers /\ push[p].tick \in Items
      BY <3>1 DEF PushStates, Idle, Items
    <3> HIDE DEF x
    <3>recount. RecountedAll(push[p].pc, x.pc)
      BY <1>1, <3>1, PushesMove
    <3>3. /\ Pushing({"accepted"})' = Pushing({"accepted"}) + 1
          /\ Pushing({"refused"})' = Pushing({"refused"})
          /\ Pushing(AllPushes)' = Pushing(AllPushes)
      BY <1>1, <1>2, <3>1, <3>2, <3>recount DEF RecountedAll, Recounted, AllPushes
    <3>4. LengthsTotal(accepted') = LengthsTotal(accepted) + 1
      BY <1>1, <3>1, <3>2, LengthsTotalsFollow DEF RingTypes
    <3> QED
      BY <1>1, <1>2, <2>1, <3>3, <3>4 DEF Account, CounterTypes
  <2> QED
    BY <1>6, <2>2, <2>3 DEF RoutePush
<1>7. ASSUME NEW p \in Producers, RouteCount(p)
      PROVE  Done
  <2>1. /\ push' = [push EXCEPT ![p] = Idle] /\ Idle.pc = "idle"
        /\ UNCHANGED <<accepted, dropped, arrived>>
    BY <1>7 DEF RouteCount, PushReturn, Idle
  <2>2. CASE push[p].pc = "accepted"
    <3>1. stats' = [stats EXCEPT !["routed"] = @ + 1]
      BY <1>7, <2>2 DEF RouteCount, CountStat
    <3>recount. RecountedAll(push[p].pc, Idle.pc)
      BY <1>1, <2>1, PushesMove
    <3>2. /\ Pushing({"accepted"})' = Pushing({"accepted"}) - 1
          /\ Pushing({"refused"})' = Pushing({"refused"})
          /\ Pushing(AllPushes)' = Pushing(AllPushes) - 1
      BY <1>1, <1>2, <2>1, <2>2, <3>recount DEF RecountedAll, Recounted, AllPushes
    <3> QED
      BY <1>1, <1>2, <2>1, <3>1, <3>2 DEF Account, CounterTypes
  <2>3. CASE push[p].pc = "refused"
    <3>1. stats' = [stats EXCEPT !["dropped"] = @ + 1]
      BY <1>7, <2>3 DEF RouteCount, CountStat
    <3>recount. RecountedAll(push[p].pc, Idle.pc)
      BY <1>1, <2>1, PushesMove
    <3>2. /\ Pushing({"accepted"})' = Pushing({"accepted"})
          /\ Pushing({"refused"})' = Pushing({"refused"}) - 1
          /\ Pushing(AllPushes)' = Pushing(AllPushes) - 1
      BY <1>1, <1>2, <2>1, <2>3, <3>recount DEF RecountedAll, Recounted, AllPushes
    <3> QED
      BY <1>1, <1>2, <2>1, <3>1, <3>2 DEF Account, CounterTypes
  <2> QED
    BY <1>7, <2>2, <2>3 DEF RouteCount, PushReturn, PushReturned
<1>8. ASSUME NEW p \in Producers, RouteWarn(p)
      PROVE  Done
  <2>1. UNCHANGED <<accepted, dropped, push, stats, arrived>>
    BY <1>8 DEF RouteWarn, ringVars
  <2>2. CounterTypes'
    BY <1>1, <2>1 DEF CounterTypes
  <2>3. \A pcs : Pushing(pcs)' = Pushing(pcs)
    BY <2>1 DEF Pushing
  <2> QED
    BY <1>1, <2>1, <2>2, <2>3 DEF Account
<1>9. ASSUME NEW b \in Buffers, Pop(b)
      PROVE  UNCHANGED <<accepted, dropped, push, stats, arrived>>
  BY <1>9 DEF Pop, Consume, PopBegin, PopMove, PopPublish, routerVars
<1> QED
  BY <1>1, <1>3, <1>4, <1>5, <1>6, <1>7, <1>8, <1>9
     DEF AccountInvariant, Next, Register, Unregister, RouteReturn, vars, ringVars, routerVars

(* The counters and the rings agree up to the calls under way.             *)
THEOREM AccountsHold == Spec => []AccountInvariant
BY BeginsAccounted, StepAccounts, PTL DEF Spec

(* The health counters account for every tick that arrived and agree with  *)
(* what all rings together have accepted and dropped, up to the calls that *)
(* are still under way, for any number of adapters and rings.              *)
THEOREM StatsAlwaysAccount == Spec => []StatsAccount
<1>1. AccountInvariant => StatsAccount
  BY AccountIsStats DEF AccountInvariant
<1> QED
  BY <1>1, AccountsHold, PTL

---------------------------------------------------------------------------
(* Delivery.  It needs what the class asks of its users: no two adapters   *)
(* reach the same ring.  Then a push that found a free slot still has it   *)
(* when it writes and when it publishes, and a consumer that found a tick  *)
(* still has it.                                                           *)
OwnRings(p) == UNION {RingsOf[s] : s \in Feeds[p]}

OneProducerPerRing ==
  \A p, q \in Producers : p # q => OwnRings(p) \cap OwnRings(q) = {}

ConsumerHasTick == \A b \in Buffers : popPc[b] # "idle" => head[b] # tail[b]

ProducerHasSlot ==
  \A p \in Producers : push[p].pc \in {"write", "publish"} =>
    LET b == push[p].ring
    IN  /\ push[p].at = tail[b] /\ After(tail[b]) # head[b]
        /\ push[p].pc = "publish" => slots[b][tail[b]] = push[p].tick

DeliveryInvariant ==
  /\ OneProducerPerRing /\ RegistryInvariant
  /\ ConsumerHasTick /\ ProducerHasSlot /\ DeliveryExact

(* The ring a push works on is one of its adapter's own.                   *)
LEMMA PushOnOwnRing ==
  ASSUME RegistryInvariant, NEW p \in Producers, push[p] # Idle
  PROVE  push[p].ring \in OwnRings(p) /\ push[p].ring \in Buffers
<1>1. PICK s \in Feeds[p] : symbolMap[s] = push[p].ring
  BY DEF RegistryInvariant, PushInRoute
<1>2. s \in Symbols
  BY RouterS1Assumption
<1>3. push[p] \in PushStates
  BY DEF RegistryInvariant, RingTypes
<1>4. push[p].ring \in Buffers
  BY <1>3, PushStatesDiffer
<1>5. push[p].ring \in RingsOf[s]
  BY <1>1, <1>2, <1>4, RouterS1Assumption DEF RegistryInvariant, RouterTypes
<1> QED
  BY <1>4, <1>5 DEF OwnRings

(* What waits in a ring, unfolded.                                         *)
LEMMA WaitingIs ==
  ASSUME RingTypes, ConsumerHasTick, NEW b \in Buffers
  PROVE  /\ First(b) \in Positions
         /\ Len(Waiting(b)) = Distance(First(b), tail[b])
         /\ Distance(First(b), tail[b]) \in 0 .. Slots - 1
         /\ popPc[b] = "publish" =>
              Distance(First(b), tail[b]) = Distance(head[b], tail[b]) - 1
         /\ popPc[b] # "publish" => First(b) = head[b]
         /\ Waiting(b) = [i \in 1 .. Distance(First(b), tail[b]) |->
                            slots[b][(First(b) + (i - 1)) % Slots]]
         /\ Waiting(b) \in Seq(Items)
<1>1. head[b] \in Positions /\ tail[b] \in Positions
  BY DEF RingTypes
<1>2. First(b) \in Positions /\ Distance(First(b), tail[b]) \in 0 .. Slots - 1
  BY <1>1, AfterCases, DistanceCases DEF First
<1>3. popPc[b] = "publish" => Distance(First(b), tail[b]) = Distance(head[b], tail[b]) - 1
  <2>1. SUFFICES ASSUME popPc[b] = "publish"
                 PROVE  Distance(After(head[b]), tail[b]) = Distance(head[b], tail[b]) - 1
    BY DEF First
  <2>2. head[b] # tail[b] /\ After(head[b]) \in Positions
    BY <1>1, <2>1, AfterCases DEF ConsumerHasTick
  <2> QED
    BY <1>1, <2>2, DistanceShrinks
<1>4. Waiting(b) = [i \in 1 .. Distance(First(b), tail[b]) |->
                      slots[b][(First(b) + (i - 1)) % Slots]]
  BY DEF Waiting, Distance
<1>5. \A i \in 1 .. Distance(First(b), tail[b]) :
        slots[b][(First(b) + (i - 1)) % Slots] \in Items
  <2> TAKE i \in 1 .. Distance(First(b), tail[b])
  <2>1. i - 1 \in 0 .. Slots - 1
    BY <1>2, SlotsTyped
  <2>2. (First(b) + (i - 1)) % Slots \in Positions
    BY <1>2, <2>1, OffsetCases
  <2> QED
    BY <2>2 DEF RingTypes
<1>6. Waiting(b) \in Seq(Items) /\ Len(Waiting(b)) = Distance(First(b), tail[b])
  BY <1>2, <1>4, <1>5
<1> QED
  BY <1>2, <1>3, <1>4, <1>6 DEF First

(* The slot at tail_ is the one after the last that waits.                 *)
LEMMA TailIsFree ==
  ASSUME RingTypes, ConsumerHasTick, NEW b \in Buffers
  PROVE  /\ (First(b) + Distance(First(b), tail[b])) % Slots = tail[b]
         /\ \A i \in 1 .. Distance(First(b), tail[b]) :
              (First(b) + (i - 1)) % Slots # tail[b]
<1>1. /\ First(b) \in Positions /\ tail[b] \in Positions
      /\ Distance(First(b), tail[b]) \in 0 .. Slots - 1
  BY WaitingIs DEF RingTypes
<1>2. (First(b) + Distance(First(b), tail[b])) % Slots = tail[b]
  BY <1>1, OffsetReaches
<1>3. ASSUME NEW i \in 1 .. Distance(First(b), tail[b])
      PROVE  (First(b) + (i - 1)) % Slots # tail[b]
  <2>1. i - 1 \in 0 .. Slots - 1 /\ i - 1 < Distance(First(b), tail[b])
    BY <1>1, SlotsTyped
  <2> QED
    BY <1>1, <2>1, OffsetReaches
<1> QED
  BY <1>2, <1>3

(* Where the indices stay and no waiting slot is written, nothing moves.   *)
LEMMA WaitingKept ==
  ASSUME RingTypes, ConsumerHasTick, NEW b \in Buffers,
         head'[b] = head[b], tail'[b] = tail[b], (popPc'[b] = "publish") = (popPc[b] = "publish"),
         \A x \in Positions : x # tail[b] => slots'[b][x] = slots[b][x]
  PROVE  Waiting(b)' = Waiting(b)
<1>1. First(b)' = First(b)
  BY DEF First
<1>2. \A i \in 1 .. Distance(First(b), tail[b]) :
        slots'[b][(First(b) + (i - 1)) % Slots] = slots[b][(First(b) + (i - 1)) % Slots]
  <2> TAKE i \in 1 .. Distance(First(b), tail[b])
  <2>1. First(b) \in Positions /\ i - 1 \in 0 .. Slots - 1
    BY WaitingIs, SlotsTyped
  <2>2. (First(b) + (i - 1)) % Slots \in Positions
    BY <2>1, OffsetCases
  <2> QED
    BY <2>2, TailIsFree
<1>3. Waiting(b)' = [i \in 1 .. Distance(First(b), tail[b]) |->
                       slots'[b][(First(b) + (i - 1)) % Slots]]
  BY <1>1 DEF Waiting, Distance
<1> QED
  BY <1>2, <1>3, WaitingIs

(* The store of tail_ adds the slot it passes.                             *)
LEMMA PublishJoins ==
  ASSUME RingTypes, ConsumerHasTick, NEW b \in Buffers, After(tail[b]) # head[b],
         UNCHANGED <<head, slots, popPc>>, tail'[b] = After(tail[b])
  PROVE  Waiting(b)' = Append(Waiting(b), slots[b][tail[b]])
<1> DEFINE n == Distance(First(b), tail[b])
<1>1. /\ First(b) \in Positions /\ tail[b] \in Positions /\ head[b] \in Positions
      /\ n \in 0 .. Slots - 1 /\ After(tail[b]) \in Positions
  BY WaitingIs, AfterCases DEF RingTypes
<1>2. Distance(head[b], After(tail[b])) = Distance(head[b], tail[b]) + 1
  BY <1>1, DistanceGrows
<1>3. Distance(First(b), After(tail[b])) = n + 1
  <2>1. CASE popPc[b] # "publish"
    BY <1>2, <2>1, WaitingIs
  <2>2. CASE popPc[b] = "publish"
    <3>1. First(b) = After(head[b]) /\ head[b] # tail[b]
      BY <2>2 DEF First, ConsumerHasTick
    <3>2. n = Distance(head[b], tail[b]) - 1
      BY <1>1, <3>1, DistanceShrinks
    <3>3. Distance(First(b), After(tail[b])) = Distance(head[b], After(tail[b])) - 1
      BY <1>1, <3>1, DistanceShrinks
    <3>4. Distance(head[b], tail[b]) \in Int
      BY <1>1, DistanceCases
    <3> QED
      BY <1>2, <3>2, <3>3, <3>4
  <2> QED
    BY <2>1, <2>2
<1>4. Waiting(b)' = [i \in 1 .. n + 1 |-> slots[b][(First(b) + (i - 1)) % Slots]]
  <2>1. Waiting(b)' = [i \in 1 .. Distance(First(b), After(tail[b])) |->
                         slots[b][(First(b) + (i - 1)) % Slots]]
    BY DEF Waiting, Distance, First
  <2> QED
    BY <1>3, <2>1
<1>5. (First(b) + n) % Slots = tail[b]
  BY TailIsFree
<1>6. Waiting(b) = [i \in 1 .. n |-> slots[b][(First(b) + (i - 1)) % Slots]]
      /\ Waiting(b) \in Seq(Items)
  BY WaitingIs
<1>7. Append(Waiting(b), slots[b][tail[b]]) =
        [i \in 1 .. n + 1 |-> IF i = n + 1 THEN slots[b][tail[b]] ELSE Waiting(b)[i]]
  BY <1>1, <1>6
<1>8. \A i \in 1 .. n + 1 : slots[b][(First(b) + (i - 1)) % Slots] =
        IF i = n + 1 THEN slots[b][tail[b]] ELSE Waiting(b)[i]
  <2> TAKE i \in 1 .. n + 1
  <2>1. CASE i = n + 1
    <3>1. i - 1 = n
      BY <1>1, <2>1
    <3> QED
      BY <1>5, <2>1, <3>1
  <2>2. CASE i # n + 1
    <3>1. i \in 1 .. n
      BY <1>1, <2>2
    <3> QED
      BY <1>6, <2>2, <3>1
  <2> QED
    BY <2>1, <2>2
<1> QED
  BY <1>4, <1>7, <1>8

(* Moving the tick at head_ out takes the first of what waits.             *)
LEMMA MoveTakes ==
  ASSUME RingTypes, ConsumerHasTick, NEW b \in Buffers, popPc[b] = "move",
         UNCHANGED <<head, tail, slots>>, popPc'[b] = "publish"
  PROVE  /\ Waiting(b) # << >> /\ Head(Waiting(b)) = slots[b][head[b]]
         /\ Waiting(b)' = Tail(Waiting(b))
<1> DEFINE n == Distance(head[b], tail[b])
<1>1. /\ head[b] \in Positions /\ tail[b] \in Positions /\ head[b] # tail[b]
      /\ First(b) = head[b] /\ First(b)' = After(head[b])
      /\ After(head[b]) \in Positions
  BY AfterCases DEF RingTypes, ConsumerHasTick, First
<1>2. n \in 1 .. Slots - 1 /\ Distance(After(head[b]), tail[b]) = n - 1
  <2>1. n \in 0 .. Slots - 1 /\ Distance(After(head[b]), tail[b]) = n - 1
    BY <1>1, DistanceCases, DistanceShrinks
  <2>2. Distance(After(head[b]), tail[b]) \in 0 .. Slots - 1
    BY <1>1, DistanceCases
  <2> QED
    BY <2>1, <2>2, SlotsTyped
<1>3. /\ Waiting(b) = [i \in 1 .. n |-> slots[b][(head[b] + (i - 1)) % Slots]]
      /\ Waiting(b) \in Seq(Items) /\ Len(Waiting(b)) = n
  BY <1>1, WaitingIs
<1>4. Waiting(b)' = [i \in 1 .. n - 1 |-> slots[b][(After(head[b]) + (i - 1)) % Slots]]
  <2>1. Waiting(b)' = [i \in 1 .. Distance(After(head[b]), tail[b]) |->
                         slots[b][(After(head[b]) + (i - 1)) % Slots]]
    BY <1>1 DEF Waiting, Distance
  <2> QED
    BY <1>2, <2>1
<1>5. (head[b] + (1 - 1)) % Slots = head[b]
  <2>1. (head[b] + 0) % Slots = head[b] /\ 1 - 1 = 0
    BY <1>1, OffsetReaches
  <2> QED
    BY <2>1
<1>6. \A i \in 1 .. n - 1 :
        (After(head[b]) + (i - 1)) % Slots = (head[b] + ((i + 1) - 1)) % Slots
  <2> TAKE i \in 1 .. n - 1
  <2>1. i - 1 \in 0 .. Slots - 1 /\ i \in 0 .. Slots - 1 /\ (i + 1) - 1 = i
    BY <1>2, SlotsTyped
  <2>2. (i - 1) + 1 = i /\ (i - 1) + 1 < Slots
    BY <1>2, SlotsTyped
  <2>3. (After(head[b]) + (i - 1)) % Slots = (head[b] + ((i - 1) + 1)) % Slots
    BY <1>1, <2>1, <2>2, OffsetAfter
  <2> QED
    BY <2>1, <2>2, <2>3
<1>7. Tail(Waiting(b)) = [i \in 1 .. n - 1 |-> Waiting(b)[i + 1]]
  BY <1>2, <1>3
<1>8. \A i \in 1 .. n - 1 :
        Waiting(b)[i + 1] = slots[b][(After(head[b]) + (i - 1)) % Slots]
  BY <1>2, <1>3, <1>6
<1>9. Head(Waiting(b)) = slots[b][head[b]] /\ Waiting(b) # << >>
  BY <1>2, <1>3, <1>5
<1> QED
  BY <1>4, <1>7, <1>8, <1>9

LEMMA ItemJoins ==
  ASSUME NEW s \in Seq(Items), NEW q \in Seq(Items), NEW k \in Items
  PROVE  s \o Append(q, k) = Append(s \o q, k)
<1>1. <<k>> \in Seq(Items) /\ s \o q \in Seq(Items)
  BY ConcatProperties
<1> QED
  BY <1>1, AppendIsConcat, ConcatAssociative

LEMMA ItemMoves ==
  ASSUME NEW s \in Seq(Items), NEW q \in Seq(Items), q # << >>
  PROVE  Append(s, Head(q)) \o Tail(q) = s \o q
<1>1. /\ Head(q) \in Items /\ Tail(q) \in Seq(Items) /\ <<Head(q)>> \in Seq(Items)
      /\ <<Head(q)>> \o Tail(q) = q
  BY HeadTailProperties
<1>2. Append(s, Head(q)) = s \o <<Head(q)>>
  BY <1>1, AppendIsConcat
<1> QED
  BY <1>1, <1>2, ConcatAssociative

LEMMA AfterInjective == \A x, y \in Positions : After(x) = After(y) => x = y
<1> TAKE x, y \in Positions
<1>1. /\ After(x) = IF x = Slots - 1 THEN 0 ELSE x + 1
      /\ After(y) = IF y = Slots - 1 THEN 0 ELSE y + 1
  BY AfterCases
<1> QED
  BY <1>1, PositionsAre, SlotsTyped

(* Where the rings and what waits in them stay as they are.                *)
LEMMA RingsKept ==
  ASSUME RegistryInvariant, ConsumerHasTick, DeliveryExact,
         UNCHANGED <<head, tail, slots, popPc, popped, accepted>>
  PROVE  ConsumerHasTick' /\ DeliveryExact'
<1>1. ASSUME NEW b \in Buffers PROVE Waiting(b)' = Waiting(b)
  BY DEF Waiting, First
<1> QED
  BY <1>1 DEF ConsumerHasTick, DeliveryExact

LEMMA WriteDelivers ==
  ASSUME DeliveryInvariant, NEW p \in Producers, PushWrite(p)
  PROVE  ConsumerHasTick' /\ ProducerHasSlot' /\ DeliveryExact'
<1> USE DEF DeliveryInvariant
<1>1. RingTypes /\ push[p] \in PushStates /\ push[p].pc = "write" /\ push[p] # Idle
  BY DEF RegistryInvariant, RingTypes, PushWrite, Idle
<1>2. PICK b \in Buffers : push[p].ring = b /\ b \in OwnRings(p)
  BY <1>1, PushOnOwnRing
<1>3. /\ push[p].at = tail[b] /\ After(tail[b]) # head[b] /\ tail[b] \in Positions
  BY <1>1, <1>2 DEF ProducerHasSlot, RingTypes
<1>4. /\ slots' = [slots EXCEPT ![b] = [slots[b] EXCEPT ![tail[b]] = push[p].tick]]
      /\ push' = [push EXCEPT ![p] = [push[p] EXCEPT !.pc = "publish"]]
      /\ UNCHANGED <<head, tail, popPc, popped, accepted>>
  BY <1>2, <1>3 DEF PushWrite
<1>5. /\ slots'[b][tail[b]] = push[p].tick
      /\ \A r \in Buffers : \A x \in Positions :
           ~(r = b /\ x = tail[b]) => slots'[r][x] = slots[r][x]
  BY <1>1, <1>3, <1>4 DEF RingTypes
<1>6. \A r \in Buffers : Waiting(r)' = Waiting(r)
  <2> TAKE r \in Buffers
  <2>1. \A x \in Positions : x # tail[r] => slots'[r][x] = slots[r][x]
    BY <1>5
  <2> QED
    BY <1>1, <1>4, <2>1, WaitingKept
<1>7. push[p] \in [pc : {"write", "publish", "accepted"}, ring : Buffers, tick : Ticks, at : Positions]
  BY <1>1 DEF PushStates, Idle
<1>8. /\ push'[p].pc = "publish" /\ push'[p].ring = b /\ push'[p].at = tail[b]
      /\ push'[p].tick = push[p].tick
      /\ \A q \in Producers : q # p => push'[q] = push[q]
  BY <1>1, <1>2, <1>3, <1>4, <1>7 DEF RingTypes
<1>9. ProducerHasSlot'
  <2> SUFFICES ASSUME NEW q \in Producers, push'[q].pc \in {"write", "publish"}
               PROVE  /\ push'[q].at = tail'[push'[q].ring]
                      /\ After(tail'[push'[q].ring]) # head'[push'[q].ring]
                      /\ push'[q].pc = "publish" =>
                           slots'[push'[q].ring][tail'[push'[q].ring]] = push'[q].tick
    BY DEF ProducerHasSlot, After
  <2>1. CASE q = p
    BY <1>3, <1>4, <1>5, <1>8, <2>1
  <2>2. CASE q # p
    <3>1. push'[q] = push[q] /\ push[q] # Idle
      BY <1>8, <2>2 DEF Idle
    <3>2. push[q].ring \in Buffers /\ push[q].ring # b
      BY <1>2, <2>2, <3>1, PushOnOwnRing DEF OneProducerPerRing
    <3>3. PICK r \in Buffers : push[q].ring = r /\ r # b
      BY <3>2
    <3>4. /\ push[q].at = tail[r] /\ After(tail[r]) # head[r] /\ tail[r] \in Positions
          /\ push[q].pc = "publish" => slots[r][tail[r]] = push[q].tick
      BY <1>1, <3>1, <3>3 DEF ProducerHasSlot, RingTypes
    <3>5. slots'[r][tail[r]] = slots[r][tail[r]]
      BY <1>5, <3>3, <3>4
    <3> QED
      BY <1>4, <3>1, <3>3, <3>4, <3>5
  <2> QED
    BY <2>1, <2>2
<1> QED
  BY <1>4, <1>6, <1>9 DEF ConsumerHasTick, DeliveryExact

LEMMA PublishDelivers ==
  ASSUME DeliveryInvariant, NEW p \in Producers, PushPublish(p)
  PROVE  ConsumerHasTick' /\ ProducerHasSlot' /\ DeliveryExact'
<1> USE DEF DeliveryInvariant
<1>1. RingTypes /\ push[p] \in PushStates /\ push[p].pc = "publish" /\ push[p] # Idle
  BY DEF RegistryInvariant, RingTypes, PushPublish, Idle
<1>2. PICK b \in Buffers : push[p].ring = b /\ b \in OwnRings(p)
  BY <1>1, PushOnOwnRing
<1>3. /\ push[p].at = tail[b] /\ After(tail[b]) # head[b]
      /\ slots[b][tail[b]] = push[p].tick /\ push[p].tick \in Items
  BY <1>1, <1>2, PushStatesDiffer DEF ProducerHasSlot, Items
<1>4. /\ tail' = [tail EXCEPT ![b] = After(tail[b])]
      /\ accepted' = [accepted EXCEPT ![b] = Append(accepted[b], push[p].tick)]
      /\ push' = [push EXCEPT ![p] = [push[p] EXCEPT !.pc = "accepted"]]
      /\ UNCHANGED <<head, slots, popPc, popped>>
  BY <1>2, <1>3 DEF PushPublish
<1>5. /\ tail'[b] = After(tail[b]) /\ accepted'[b] = Append(accepted[b], push[p].tick)
      /\ \A r \in Buffers : r # b => tail'[r] = tail[r] /\ accepted'[r] = accepted[r]
  BY <1>1, <1>4 DEF RingTypes
<1>6. ConsumerHasTick'
  BY <1>3, <1>4, <1>5 DEF ConsumerHasTick
<1>7. ASSUME NEW r \in Buffers PROVE popped'[r] \o Waiting(r)' = accepted'[r]
  <2>1. CASE r = b
    <3>1. Waiting(b)' = Append(Waiting(b), push[p].tick)
      BY <1>1, <1>3, <1>4, <1>5, PublishJoins
    <3>2. popped[b] \in Seq(Items) /\ Waiting(b) \in Seq(Items)
      BY <1>1, WaitingIs DEF RingTypes
    <3>3. popped[b] \o Append(Waiting(b), push[p].tick) = Append(popped[b] \o Waiting(b), push[p].tick)
      BY <1>3, <3>2, ItemJoins
    <3> QED
      BY <1>4, <1>5, <2>1, <3>1, <3>3 DEF DeliveryExact
  <2>2. CASE r # b
    <3>1. Waiting(r)' = Waiting(r)
      BY <1>4, <1>5, <2>2 DEF Waiting, First
    <3> QED
      BY <1>4, <1>5, <2>2, <3>1 DEF DeliveryExact
  <2> QED
    BY <2>1, <2>2
<1>8. ProducerHasSlot'
  <2> SUFFICES ASSUME NEW q \in Producers, push'[q].pc \in {"write", "publish"}
               PROVE  /\ push'[q].at = tail'[push'[q].ring]
                      /\ After(tail'[push'[q].ring]) # head'[push'[q].ring]
                      /\ push'[q].pc = "publish" =>
                           slots'[push'[q].ring][tail'[push'[q].ring]] = push'[q].tick
    BY DEF ProducerHasSlot, After
  <2>0. push[p] \in [pc : {"write", "publish", "accepted"}, ring : Buffers, tick : Ticks, at : Positions]
    BY <1>1 DEF PushStates, Idle
  <2>1. q # p
    BY <1>1, <1>4, <2>0 DEF RingTypes
  <2>2. push'[q] = push[q] /\ push[q] # Idle
    BY <1>1, <1>4, <2>1 DEF RingTypes, Idle
  <2>3. push[q].ring \in Buffers /\ push[q].ring # b
    BY <1>2, <2>1, <2>2, PushOnOwnRing DEF OneProducerPerRing
  <2>4. PICK r \in Buffers : push[q].ring = r /\ r # b
    BY <2>3
  <2>5. /\ push[q].at = tail[r] /\ After(tail[r]) # head[r]
        /\ push[q].pc = "publish" => slots[r][tail[r]] = push[q].tick
    BY <2>2, <2>4 DEF ProducerHasSlot
  <2>6. tail'[r] = tail[r]
    BY <1>5, <2>4
  <2> QED
    BY <1>4, <2>2, <2>4, <2>5, <2>6
<1> QED
  BY <1>6, <1>7, <1>8 DEF DeliveryExact

LEMMA ConsumeDelivers ==
  ASSUME DeliveryInvariant, NEW b \in Buffers, Consume(b)
  PROVE  ConsumerHasTick' /\ ProducerHasSlot' /\ DeliveryExact'
<1> USE DEF DeliveryInvariant
<1>1. RingTypes /\ head[b] \in Positions /\ tail[b] \in Positions
  BY DEF RegistryInvariant, RingTypes
<1>2. CASE PopBegin(b)
  <2>1. /\ popPc[b] = "idle" /\ head[b] # tail[b] /\ popPc' = [popPc EXCEPT ![b] = "move"]
        /\ UNCHANGED <<head, tail, slots, push, popped, accepted>>
    BY <1>2 DEF PopBegin
  <2>2. ConsumerHasTick' /\ ProducerHasSlot'
    BY <1>1, <2>1 DEF ConsumerHasTick, ProducerHasSlot, RingTypes, After
  <2>3. ASSUME NEW r \in Buffers PROVE Waiting(r)' = Waiting(r)
    <3>1. First(r)' = First(r)
      BY <1>1, <2>1 DEF First, RingTypes, After
    <3> QED
      BY <2>1, <3>1 DEF Waiting
  <2> QED
    BY <2>1, <2>2, <2>3 DEF DeliveryExact
<1>3. CASE PopMove(b)
  <2>1. /\ popPc[b] = "move" /\ popPc' = [popPc EXCEPT ![b] = "publish"]
        /\ popped' = [popped EXCEPT ![b] = Append(popped[b], slots[b][head[b]])]
        /\ UNCHANGED <<head, tail, slots, push, accepted>>
    BY <1>3 DEF PopMove
  <2>2. ConsumerHasTick' /\ ProducerHasSlot'
    BY <1>1, <2>1 DEF ConsumerHasTick, ProducerHasSlot, RingTypes, After
  <2>3. ASSUME NEW r \in Buffers PROVE popped'[r] \o Waiting(r)' = accepted'[r]
    <3>1. CASE r = b
      <4>1. popPc'[b] = "publish" /\ popped'[b] = Append(popped[b], slots[b][head[b]])
        BY <1>1, <2>1 DEF RingTypes
      <4>2. /\ Waiting(b) # << >> /\ Head(Waiting(b)) = slots[b][head[b]]
            /\ Waiting(b)' = Tail(Waiting(b))
        BY <1>1, <2>1, <4>1, MoveTakes
      <4>3. popped[b] \in Seq(Items) /\ Waiting(b) \in Seq(Items)
        BY <1>1, WaitingIs DEF RingTypes
      <4>4. Append(popped[b], Head(Waiting(b))) \o Tail(Waiting(b)) = popped[b] \o Waiting(b)
        BY <4>2, <4>3, ItemMoves
      <4> QED
        BY <2>1, <3>1, <4>1, <4>2, <4>4 DEF DeliveryExact
    <3>2. CASE r # b
      <4>1. First(r)' = First(r) /\ popped'[r] = popped[r]
        BY <1>1, <2>1, <3>2 DEF First, RingTypes, After
      <4>2. Waiting(r)' = Waiting(r)
        BY <2>1, <4>1 DEF Waiting
      <4> QED
        BY <2>1, <4>1, <4>2 DEF DeliveryExact
    <3> QED
      BY <3>1, <3>2
  <2> QED
    BY <2>2, <2>3 DEF DeliveryExact
<1>4. CASE PopPublish(b)
  <2>1. /\ popPc[b] = "publish" /\ popPc' = [popPc EXCEPT ![b] = "idle"]
        /\ head' = [head EXCEPT ![b] = After(head[b])]
        /\ UNCHANGED <<tail, slots, push, popped, accepted>>
    BY <1>4 DEF PopPublish
  <2>2. /\ popPc'[b] = "idle" /\ head'[b] = After(head[b]) /\ head[b] # tail[b]
        /\ \A r \in Buffers : r # b => popPc'[r] = popPc[r] /\ head'[r] = head[r]
    BY <1>1, <2>1 DEF RingTypes, ConsumerHasTick
  <2>3. ConsumerHasTick'
    BY <2>1, <2>2 DEF ConsumerHasTick
  <2>4. ProducerHasSlot'
    <3> SUFFICES ASSUME NEW q \in Producers, push[q].pc \in {"write", "publish"}
                 PROVE  /\ push[q].at = tail[push[q].ring]
                        /\ After(tail[push[q].ring]) # head'[push[q].ring]
                        /\ push[q].pc = "publish" =>
                             slots[push[q].ring][tail[push[q].ring]] = push[q].tick
      BY <2>1 DEF ProducerHasSlot, After
    <3>1. push[q] # Idle
      BY DEF Idle
    <3>2. push[q].ring \in Buffers
      BY <3>1, PushOnOwnRing
    <3>3. After(tail[push[q].ring]) # head'[push[q].ring]
      <4>1. CASE push[q].ring = b
        BY <1>1, <2>2, <4>1, AfterInjective
      <4>2. CASE push[q].ring # b
        BY <2>2, <3>2, <4>2 DEF ProducerHasSlot
      <4> QED
        BY <4>1, <4>2
    <3> QED
      BY <3>3 DEF ProducerHasSlot
  <2>5. ASSUME NEW r \in Buffers PROVE Waiting(r)' = Waiting(r)
    <3>1. First(r)' = First(r)
      BY <2>1, <2>2 DEF First, After
    <3> QED
      BY <2>1, <3>1 DEF Waiting
  <2> QED
    BY <2>1, <2>3, <2>4, <2>5 DEF DeliveryExact
<1> QED
  BY <1>2, <1>3, <1>4 DEF Consume

LEMMA StepDelivers == DeliveryInvariant /\ [Next]_vars => DeliveryInvariant'
<1> SUFFICES ASSUME DeliveryInvariant, [Next]_vars PROVE DeliveryInvariant'
  OBVIOUS
<1> USE DEF DeliveryInvariant
<1>a. RegistryInvariant' /\ OneProducerPerRing'
  BY StepRegistered DEF OneProducerPerRing, OwnRings
<1>b. ASSUME UNCHANGED ringVars PROVE DeliveryInvariant'
  BY <1>a, <1>b, RingsKept DEF ringVars, ProducerHasSlot, After
<1>1. ASSUME NEW p \in Producers, NEW s \in Symbols, NEW o \in Overloads, RouteKnown(p, s, o)
      PROVE  DeliveryInvariant'
  <2>1. PushBegin(p, symbolMap[s], arrived') /\ UNCHANGED <<head, tail, slots, popPc, popped, accepted>>
    BY <1>1 DEF RouteKnown, PushBegin
  <2>2. push \in [Producers -> PushStates]
    BY DEF RegistryInvariant, RingTypes
  <2>3. \/ push'[p].pc = "refused"
        \/ /\ push'[p].pc = "write" /\ push'[p].ring = symbolMap[s]
           /\ push'[p].at = tail[symbolMap[s]]
           /\ After(tail[symbolMap[s]]) # head[symbolMap[s]]
    BY <2>1, <2>2 DEF PushBegin, Full
  <2>4. \A q \in Producers : q # p => push'[q] = push[q]
    BY <2>1, <2>2 DEF PushBegin
  <2>5. ProducerHasSlot'
    BY <2>1, <2>3, <2>4 DEF ProducerHasSlot, After
  <2> QED
    BY <1>a, <2>1, <2>5, RingsKept
<1>2. ASSUME NEW p \in Producers, RoutePush(p)
      PROVE  DeliveryInvariant'
  BY <1>a, <1>2, WriteDelivers, PublishDelivers DEF RoutePush
<1>3. ASSUME NEW p \in Producers, RouteCount(p)
      PROVE  DeliveryInvariant'
  <2>1. /\ push' = [push EXCEPT ![p] = Idle]
        /\ UNCHANGED <<head, tail, slots, popPc, popped, accepted>>
    BY <1>3 DEF RouteCount, PushReturn
  <2>2. ProducerHasSlot'
    BY <2>1 DEF ProducerHasSlot, RegistryInvariant, RingTypes, Idle, After
  <2> QED
    BY <1>a, <2>1, <2>2, RingsKept
<1>4. ASSUME NEW b \in Buffers, Pop(b)
      PROVE  DeliveryInvariant'
  BY <1>a, <1>4, ConsumeDelivers DEF Pop
<1> QED
  BY <1>b, <1>1, <1>2, <1>3, <1>4
     DEF Next, vars, Register, Unregister, RouteUnknown, RouteWarn, RouteReturn

LEMMA BeginsDelivered == Init /\ OneProducerPerRing => DeliveryInvariant
<1> SUFFICES ASSUME Init, OneProducerPerRing PROVE DeliveryInvariant
  OBVIOUS
<1>1. RegistryInvariant
  BY BeginsRegistered
<1>2. ConsumerHasTick /\ ProducerHasSlot
  BY DEF Init, RingInit, ConsumerHasTick, ProducerHasSlot, Idle
<1>3. ASSUME NEW b \in Buffers PROVE popped[b] \o Waiting(b) = accepted[b]
  <2>1. First(b) = 0 /\ tail[b] = 0 /\ popped[b] = << >> /\ accepted[b] = << >>
    BY DEF Init, RingInit, First
  <2>2. 0 \in Positions
    BY SlotsTyped DEF Positions
  <2>3. Distance(0, 0) = 0
    BY <2>2, DistanceCases
  <2>4. Waiting(b) = << >>
    BY <2>1, <2>3 DEF Waiting, Distance
  <2> QED
    BY <2>1, <2>4
<1> QED
  BY <1>1, <1>2, <1>3 DEF DeliveryInvariant, DeliveryExact

(* Ring by ring: what was accepted is what was popped and what the slots   *)
(* between the indices hold.                                               *)
THEOREM DeliveryHolds == Spec /\ OneProducerPerRing => []DeliveryInvariant
BY BeginsDelivered, StepDelivers, PTL DEF Spec

(* Where no two adapters reach the same ring, each ring delivers what was  *)
(* routed into it, in order and once, however symbols are registered,      *)
(* moved and unregistered, for any number of slots.                        *)
THEOREM RoutedIsDelivered == Spec /\ OneProducerPerRing => []DeliveryExact
<1>1. DeliveryInvariant => DeliveryExact
  BY DEF DeliveryInvariant
<1> QED
  BY <1>1, DeliveryHolds, PTL

(* And the spare slot keeps the writer off the slot that is being read.    *)
THEOREM SlotsAreNotShared == Spec /\ OneProducerPerRing => []NoSlotConflict
<1>1. DeliveryInvariant => NoSlotConflict
  <2> SUFFICES ASSUME DeliveryInvariant, NEW p \in Producers, push[p].pc = "write"
               PROVE  /\ popPc[push[p].ring] = "move" => push[p].at # head[push[p].ring]
                      /\ Len(Waiting(push[p].ring)) < Slots - 1
    BY DEF NoSlotConflict
  <2>1. RingTypes /\ ConsumerHasTick /\ push[p] # Idle
    BY DEF DeliveryInvariant, RegistryInvariant, Idle
  <2>2. PICK b \in Buffers : push[p].ring = b
    BY <2>1, PushOnOwnRing DEF DeliveryInvariant
  <2>3. push[p].at = tail[b] /\ After(tail[b]) # head[b]
    BY <2>2 DEF DeliveryInvariant, ProducerHasSlot
  <2>4. popPc[b] = "move" => tail[b] # head[b]
    BY <2>1 DEF ConsumerHasTick
  <2>5. head[b] \in Positions /\ tail[b] \in Positions /\ After(tail[b]) \in Positions
    BY <2>1, AfterCases DEF RingTypes
  <2>6. Distance(head[b], tail[b]) + 1 \in 0 .. Slots - 1
    BY <2>3, <2>5, DistanceCases, DistanceGrows
  <2>7. Len(Waiting(b)) <= Distance(head[b], tail[b]) /\ Distance(head[b], tail[b]) \in Int
    <3>1. Distance(head[b], tail[b]) \in Int
      BY <2>5, DistanceCases
    <3>2. Len(Waiting(b)) = Distance(First(b), tail[b])
      BY <2>1, WaitingIs
    <3>3. CASE popPc[b] = "publish"
      BY <2>1, <3>1, <3>2, <3>3, WaitingIs
    <3>4. CASE popPc[b] # "publish"
      BY <2>1, <3>1, <3>2, <3>4, WaitingIs
    <3> QED
      BY <3>1, <3>3, <3>4
  <2>8. Len(Waiting(b)) \in Int
    BY <2>1, WaitingIs
  <2> QED
    BY <2>2, <2>3, <2>4, <2>6, <2>7, <2>8, SlotsTyped
<1> QED
  BY <1>1, DeliveryHolds, PTL

---------------------------------------------------------------------------
(* Each ring is a bounded queue.  A push takes effect when tail_ is        *)
(* stored, a pop when the tick is moved out; the steps on other rings, and *)
(* those of the registry, do not move this one.  LastPopped is the object  *)
(* the last try_pop assigned to.  The queue is never closed: no step       *)
(* discards a waiting tick.                                                *)
LastPopped(b) == IF popped[b] = << >> THEN NoTick ELSE popped[b][Len(popped[b])]

RingQueue(b) == INSTANCE BoundedQueue WITH
                  Capacity <- Slots - 1, Values <- Items,
                  queue <- Waiting(b), out <- LastPopped(b), open <- TRUE

WaitingFits ==
  \A b \in Buffers : Waiting(b) \in Seq(Items) /\ Len(Waiting(b)) < Slots

LEMMA WaitingAlwaysFits == Spec /\ OneProducerPerRing => []WaitingFits
<1>1. DeliveryInvariant => WaitingFits
  <2> SUFFICES ASSUME DeliveryInvariant, NEW b \in Buffers
               PROVE  Waiting(b) \in Seq(Items) /\ Len(Waiting(b)) < Slots
    BY Zenon DEF WaitingFits
  <2>1. RingTypes /\ ConsumerHasTick
    BY DEF DeliveryInvariant, RegistryInvariant
  <2>2. /\ Waiting(b) \in Seq(Items) /\ Len(Waiting(b)) = Distance(First(b), tail[b])
        /\ Distance(First(b), tail[b]) \in 0 .. Slots - 1
    BY <2>1, WaitingIs
  <2> QED
    BY <2>2, SlotsTyped
<1> QED
  BY <1>1, DeliveryHolds, PTL

(* In a step a ring stays, takes one tick in, or gives one out.            *)
LEMMA RingsMove ==
  ASSUME RegistryInvariant, [Next]_vars, NEW b \in Buffers
  PROVE  \/ UNCHANGED <<popped[b], accepted[b]>>
         \/ /\ popped'[b] = popped[b]
            /\ \E t \in Items : accepted'[b] = Append(accepted[b], t)
         \/ /\ accepted'[b] = accepted[b]
            /\ \E t \in Items : popped'[b] = Append(popped[b], t)
<1>0. RingTypes
  BY DEF RegistryInvariant
<1>1. ASSUME NEW p \in Producers, PushPublish(p)
      PROVE  /\ popped' = popped
             /\ accepted'[b] = accepted[b] \/ \E t \in Items : accepted'[b] = Append(accepted[b], t)
  <2>1. push[p] \in PushStates /\ push[p].pc = "publish"
    BY <1>0, <1>1 DEF PushPublish, RingTypes
  <2>2. push[p].tick \in Items
    BY <2>1, PushStatesDiffer DEF Items
  <2>3. /\ accepted' = [accepted EXCEPT ![push[p].ring] = Append(@, push[p].tick)]
        /\ popped' = popped
    BY <1>1 DEF PushPublish
  <2> QED
    BY <1>0, <2>2, <2>3 DEF RingTypes
<1>2. ASSUME NEW r \in Buffers, PopMove(r)
      PROVE  /\ accepted' = accepted
             /\ popped'[b] = popped[b] \/ \E t \in Items : popped'[b] = Append(popped[b], t)
  <2>1. slots[r][head[r]] \in Items
    BY <1>0 DEF RingTypes
  <2>2. /\ popped' = [popped EXCEPT ![r] = Append(@, slots[r][head[r]])]
        /\ accepted' = accepted
    BY <1>2 DEF PopMove
  <2> QED
    BY <1>0, <2>1, <2>2 DEF RingTypes
<1>3. \/ UNCHANGED <<popped, accepted>>
      \/ \E p \in Producers : PushPublish(p)
      \/ \E r \in Buffers : PopMove(r)
  BY DEF Next, vars, ringVars, Register, Unregister, RouteUnknown, RouteKnown, RoutePush, RouteCount,
         RouteWarn, RouteReturn, Pop, Consume, PushBegin, PushWrite, PushReturn, PopBegin, PopPublish
<1>4. CASE UNCHANGED <<popped, accepted>>
  BY <1>4
<1>5. CASE \E p \in Producers : PushPublish(p)
  BY <1>1, <1>5
<1>6. CASE \E r \in Buffers : PopMove(r)
  BY <1>2, <1>6
<1> QED
  BY <1>3, <1>4, <1>5, <1>6, Zenon

LEMMA SamePrefix ==
  ASSUME NEW p \in Seq(Items), NEW s \in Seq(Items), NEW q \in Seq(Items), p \o s = p \o q
  PROVE  s = q
<1>1. \A r, u, v \in Seq(Items) : r \o u = r \o v => u = v
  BY ConcatSimplifications, Zenon
<1> QED
  BY <1>1, Zenon

LEMMA ItemFollows ==
  ASSUME NEW s \in Seq(Items), NEW q \in Seq(Items), NEW t \in Items
  PROVE  Append(s, t) \o q = s \o (<<t>> \o q)
<1>1. <<t>> \in Seq(Items) /\ Append(s, t) = s \o <<t>>
  BY AppendIsConcat
<1> QED
  BY <1>1, ConcatAssociative

LEMMA FirstTaken ==
  ASSUME NEW q \in Seq(Items), NEW t \in Items
  PROVE  /\ <<t>> \o q # << >>
         /\ Head(<<t>> \o q) = t /\ Tail(<<t>> \o q) = q
<1> DEFINE s == <<t>> \o q
<1>1. /\ <<t>> \in Seq(Items) /\ Len(<<t>>) = 1 /\ <<t>>[1] = t
      /\ s \in Seq(Items) /\ Len(s) = Len(q) + 1 /\ Len(q) \in Nat
  OBVIOUS
<1>2. \A i \in 1 .. Len(s) : s[i] = IF i = 1 THEN t ELSE q[i - 1]
  BY <1>1, ConcatProperties
<1> HIDE DEF s
<1>3. s # << >> /\ Head(s) = t
  BY <1>1, <1>2
<1>4. Tail(s) \in Seq(Items) /\ Len(Tail(s)) = Len(q) /\ \A i \in 1 .. Len(q) : Tail(s)[i] = s[i + 1]
  BY <1>1, <1>3, HeadTailProperties
<1>5. \A i \in 1 .. Len(q) : Tail(s)[i] = q[i]
  BY <1>1, <1>2, <1>4
<1>6. Tail(s) = q
  BY <1>4, <1>5, SeqEqual
<1> QED
  BY <1>3, <1>6 DEF s

LEMMA RingQueueStep ==
  ASSUME DeliveryInvariant, DeliveryExact', WaitingFits, WaitingFits', [Next]_vars, NEW b \in Buffers
  PROVE  [RingQueue(b)!Next]_(RingQueue(b)!vars)
<1> DEFINE before == Waiting(b)
           after == Waiting(b)'
<1>1. /\ popped[b] \in Seq(Items) /\ before \in Seq(Items) /\ after \in Seq(Items)
      /\ Len(before) \in Nat /\ Len(after) < Slots
      /\ popped[b] \o before = accepted[b] /\ popped'[b] \o after = accepted'[b]
  <2>1. popped[b] \in Seq(Items) /\ popped[b] \o before = accepted[b]
    BY DEF DeliveryInvariant, RegistryInvariant, RingTypes, DeliveryExact
  <2>2. popped'[b] \o after = accepted'[b]
    BY DEF DeliveryExact
  <2>3. before \in Seq(Items) /\ after \in Seq(Items) /\ Len(after) < Slots
    BY DEF WaitingFits
  <2> QED
    BY <2>1, <2>2, <2>3
<1>2. CASE UNCHANGED <<popped[b], accepted[b]>>
  <2>1. after = before
    <3>1. popped[b] \o after = popped[b] \o before
      BY <1>1, <1>2
    <3> HIDE DEF before, after
    <3> QED
      BY <1>1, <3>1, SamePrefix
  <2>2. LastPopped(b)' = LastPopped(b)
    BY <1>2 DEF LastPopped
  <2> QED
    BY <2>1, <2>2 DEF RingQueue!vars
<1>3. ASSUME NEW t \in Items, popped'[b] = popped[b], accepted'[b] = Append(accepted[b], t)
      PROVE  RingQueue(b)!Push(t)
  <2>1. after = Append(before, t)
    <3> HIDE DEF before, after
    <3>1. popped[b] \o after = popped[b] \o Append(before, t)
      <4> DEFINE p == popped[b]
      <4>1. p \in Seq(Items) /\ p \o after = Append(p \o before, t)
        BY <1>1, <1>3
      <4> HIDE DEF p
      <4>2. p \o Append(before, t) = Append(p \o before, t)
        BY <1>1, <4>1, ItemJoins
      <4> QED
        BY <4>1, <4>2 DEF p
    <3>2. Append(before, t) \in Seq(Items)
      BY <1>1
    <3> QED
      BY <1>1, <3>1, <3>2, SamePrefix
  <2>2. Len(before) < Slots - 1
    <3> HIDE DEF before, after
    <3>1. Len(after) = Len(before) + 1
      BY <1>1, <2>1
    <3> QED
      BY <1>1, <3>1, SlotsTyped
  <2>3. LastPopped(b)' = LastPopped(b)
    BY <1>3 DEF LastPopped
  <2> QED
    BY <2>1, <2>2, <2>3 DEF RingQueue!Push
<1>4. ASSUME NEW t \in Items, accepted'[b] = accepted[b], popped'[b] = Append(popped[b], t)
      PROVE  RingQueue(b)!Pop
  <2>1. before = <<t>> \o after
    <3> HIDE DEF before, after
    <3>1. <<t>> \in Seq(Items) /\ <<t>> \o after \in Seq(Items)
      BY <1>1, ConcatProperties
    <3>2. Append(popped[b], t) \o after = popped[b] \o (<<t>> \o after)
      BY <1>1, ItemFollows
    <3> QED
      BY <1>1, <1>4, <3>1, <3>2, ConcatSimplifications
  <2>2. before # << >> /\ Head(before) = t /\ after = Tail(before)
    <3> HIDE DEF before, after
    <3> QED
      BY <1>1, <2>1, FirstTaken
  <2>3. LastPopped(b)' = t
    <3>1. /\ Append(popped[b], t) # << >>
          /\ Append(popped[b], t)[Len(Append(popped[b], t))] = t
      BY <1>1, AppendProperties
    <3> QED
      BY <1>4, <3>1 DEF LastPopped
  <2> QED
    BY <2>2, <2>3 DEF RingQueue!Pop
<1> QED
  BY <1>2, <1>3, <1>4, RingsMove DEF RingQueue!Next, DeliveryInvariant

(* Where no two adapters reach the same ring, every ring a symbol is       *)
(* routed into is a first-in first-out queue of one tick less than it has  *)
(* slots, whatever is routed into the others and however symbols are       *)
(* registered: SPSCRingBuffer and RingBuffer implement the same queue.     *)
THEOREM RingsImplementQueues ==
  ASSUME NEW b \in Buffers
  PROVE  Spec /\ OneProducerPerRing => RingQueue(b)!Spec
<1>1. Init => RingQueue(b)!Init
  <2> SUFFICES ASSUME Init PROVE Waiting(b) = << >> /\ LastPopped(b) \in Items
    BY DEF RingQueue!Init
  <2>1. First(b) = 0 /\ tail[b] = 0 /\ popped[b] = << >>
    BY DEF Init, RingInit, First
  <2>2. 0 \in Positions
    BY SlotsTyped DEF Positions
  <2>3. Distance(0, 0) = 0
    BY <2>2, DistanceCases
  <2> QED
    BY <2>1, <2>3 DEF Waiting, Distance, LastPopped, Items
<1>2. /\ DeliveryInvariant /\ DeliveryInvariant' /\ WaitingFits /\ WaitingFits' /\ [Next]_vars
      => [RingQueue(b)!Next]_(RingQueue(b)!vars)
  BY RingQueueStep DEF DeliveryInvariant
<1> QED
  BY <1>1, <1>2, DeliveryHolds, WaitingAlwaysFits, PTL DEF Spec, RingQueue!Spec
=============================================================================
