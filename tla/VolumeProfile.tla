--------------------------- MODULE VolumeProfile ---------------------------
(***************************************************************************)
(* VolumeProfileEngine of include/ofe/analytics/volume_profile.h.  The     *)
(* profile is volume_by_price_, a function from the traded prices.  The    *)
(* ratio 0.70 is RatioNum / RatioDen.                                      *)
(***************************************************************************)
EXTENDS Integers, FiniteSets, FiniteSetsExt

RatioNum == 7
RatioDen == 10

EmptyProfile == << >>

AddVolume(profile, price, volume) ==
  [p \in DOMAIN profile \cup {price} |->
     (IF p \in DOMAIN profile THEN profile[p] ELSE 0) + (IF p = price THEN volume ELSE 0)]

Prices(profile) == DOMAIN profile
VolumeOf(profile, prices) == MapThenSumSet(LAMBDA p : profile[p], prices)

(* max_element: the most traded price, the lowest of several.              *)
PocPrice(profile) ==
  CHOOSE p \in Prices(profile) : \A q \in Prices(profile) :
    profile[q] < profile[p] \/ (profile[q] = profile[p] /\ p <= q)

Covers(profile, prices) ==
  VolumeOf(profile, prices) * RatioDen >= VolumeOf(profile, Prices(profile)) * RatioNum

(* Mutant: the area grows to the left as long as there is a left.          *)
ExpandLeftFirst(profile, area) ==
  LET below == {p \in Prices(profile) : p < Min(area)}
      above == {p \in Prices(profile) : p > Max(area)}
  IN  area \cup (IF below # {} THEN {Min(below)} ELSE {Min(above)})

(* One turn of the loop: the neighbour with more volume, or both when they *)
(* are equal; where there is no neighbour its volume counts as -1.         *)
Expand(profile, area) ==
  LET below == {p \in Prices(profile) : p < Min(area)}
      above == {p \in Prices(profile) : p > Max(area)}
      left  == IF below = {} THEN {} ELSE {Max(below)}
      right == IF above = {} THEN {} ELSE {Min(above)}
      volume(side) == IF side = {} THEN -1 ELSE VolumeOf(profile, side)
  IN  area \cup (IF volume(left) >= volume(right) THEN left ELSE {})
           \cup (IF volume(right) >= volume(left) THEN right ELSE {})

(* The levels of the value area: the loop runs until they cover the ratio  *)
(* or there are no more.                                                   *)
ValueArea(profile) ==
  LET area[n \in 0 .. Cardinality(Prices(profile))] ==
        IF n = 0 THEN {PocPrice(profile)}
        ELSE IF Covers(profile, area[n - 1]) \/ area[n - 1] = Prices(profile)
          THEN area[n - 1]
          ELSE Expand(profile, area[n - 1])
  IN  area[Cardinality(Prices(profile))]

---------------------------------------------------------------------------
(* The value area is an interval of the traded levels around the point of  *)
(* control that covers the ratio, and without its outermost levels (the    *)
(* point of control aside) it would not.                                   *)
ValueAreaSound(profile) ==
  LET area == ValueArea(profile)
      poc == PocPrice(profile)
      trimmed == area \ ({Min(area), Max(area)} \ {poc})
  IN  /\ poc \in area
      /\ \A p \in Prices(profile) : Min(area) <= p /\ p <= Max(area) => p \in area
      /\ Covers(profile, area)
      /\ trimmed # area => ~Covers(profile, trimmed)
===========================================================================
