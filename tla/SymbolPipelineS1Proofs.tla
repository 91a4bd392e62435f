---------------------- MODULE SymbolPipelineS1Proofs ----------------------
(***************************************************************************)
(* For every feed, every set of series and every configuration of the      *)
(* detectors: bars show exactly their trades and close when they are due,  *)
(* the delta engine agrees with them, surges stand out, the signals of a   *)
(* stacked imbalance are exact, and the zones they open end with the bar   *)
(* that opened them.                                                       *)
(***************************************************************************)
EXTENDS SymbolPipelineS1, SequenceTheorems, FiniteSetTheorems, WellFoundedInduction, TLAPS

Sides == {"ASK", "BID"}
Trades == [price : Nat \ {0}, volume : Nat \ {0}, side : Sides, time : Nat]

LEMMA FeedTyped ==
  ASSUME NEW t \in Feed
  PROVE  /\ t.price \in Nat \ {0}
         /\ t.type = "TRADE" => t.volume \in Nat \ {0} /\ t.gap \in Nat
BY S1FeedAssumption

---------------------------------------------------------------------------
(* The classifier.                                                         *)
LeeStates == [prev : Nat, bid : Nat, ask : Nat, last : Sides \cup {"UNKNOWN"}]

LeeTyped == state \in LeeStates /\ (state.last # "UNKNOWN" => state.prev # 0)

LEMMA SideTyped ==
  ASSUME NEW s \in LeeStates, NEW price \in Nat, NEW aggressor
  PROVE  L!Side(price, aggressor, s) \in Sides \cup {"UNKNOWN"}
<1>1. s.prev \in Nat /\ s.bid \in Nat /\ s.ask \in Nat /\ s.last \in Sides \cup {"UNKNOWN"}
  BY DEF LeeStates
<1>2. L!QuoteRule(price, s) \in Sides \cup {"UNKNOWN"}
  BY <1>1 DEF L!QuoteRule, Sides
<1>3. L!TickRule(price, s) \in Sides \cup {"UNKNOWN"}
  BY <1>1 DEF L!TickRule, Sides
<1> QED
  BY <1>2, <1>3 DEF L!Side, Sides

(* Nothing classifies: no quote that tells, and no price to compare with   *)
(* but the same one, not classified either.                                *)
LEMMA UnknownMeans ==
  ASSUME NEW s \in LeeStates, NEW price \in Nat, NEW aggressor,
         L!Side(price, aggressor, s) = "UNKNOWN"
  PROVE  s.prev = 0 \/ (s.prev = price /\ s.last = "UNKNOWN")
<1>1. s.prev \in Nat
  BY DEF LeeStates
<1>2. s.prev # 0 => L!TickRule(price, s) = "UNKNOWN"
  BY DEF L!Side
<1>3. CASE s.prev # 0
  BY <1>1, <1>2, <1>3 DEF L!TickRule
<1> QED
  BY <1>3

LEMMA Remembered ==
  ASSUME NEW s \in LeeStates, NEW price \in Nat \ {0}, NEW aggressor
  PROVE  LET after == L!ClassifyTrade(price, aggressor, s)
         IN  /\ after \in LeeStates /\ after.prev = price
             /\ after.last = L!Side(price, aggressor, s)
<1>1. L!Side(price, aggressor, s) \in Sides \cup {"UNKNOWN"}
  BY SideTyped
<1> QED
  BY <1>1 DEF L!ClassifyTrade, LeeStates

LEMMA Quoted ==
  ASSUME NEW s \in LeeStates, NEW price \in Nat, NEW type
  PROVE  LET after == L!UpdateQuote(type, price, s)
         IN  after \in LeeStates /\ after.prev = s.prev /\ after.last = s.last
<1>1. CASE type = "BID_QUOTE"
  BY <1>1 DEF L!UpdateQuote, LeeStates
<1>2. CASE type = "ASK_QUOTE"
  BY <1>2 DEF L!UpdateQuote, LeeStates
<1>3. CASE type # "BID_QUOTE" /\ type # "ASK_QUOTE"
  BY <1>3 DEF L!UpdateQuote
<1> QED
  BY <1>1, <1>2, <1>3

LEMMA LeeStep ==
  ASSUME LeeTyped, [Next]_vars
  PROVE  /\ LeeTyped'
         /\ state'.last = "UNKNOWN" =>
              state.last = "UNKNOWN" /\ (state.prev # 0 => state'.prev = state.prev)
<1>1. CASE Quote
  <2>1. PICK t \in Feed : state' = L!UpdateQuote(t.type, t.price, state)
    BY <1>1 DEF Quote
  <2> QED
    BY <2>1, FeedTyped, Quoted DEF LeeTyped
<1>2. CASE TradeUnclassified \/ Trade
  <2>1. PICK t \in Feed : t.type = "TRADE" /\ state' = L!ClassifyTrade(t.price, t.aggressor, state)
    BY <1>2 DEF Trade, TradeUnclassified
  <2>2. t.price \in Nat \ {0} /\ state \in LeeStates
    BY FeedTyped DEF LeeTyped
  <2>3. /\ state' \in LeeStates /\ state'.prev = t.price
        /\ state'.last = L!Side(t.price, t.aggressor, state)
    BY <2>1, <2>2, Remembered
  <2>4. state'.last = "UNKNOWN" =>
          state.last = "UNKNOWN" /\ (state.prev # 0 => state'.prev = state.prev)
    BY <2>2, <2>3, UnknownMeans DEF LeeTyped
  <2> QED
    BY <2>2, <2>3, <2>4 DEF LeeTyped
<1>3. CASE UNCHANGED state
  BY <1>3 DEF LeeTyped
<1> QED
  BY <1>1, <1>2, <1>3 DEF Next, SessionClose, SessionOpen, AddSeries, RemoveSeries, vars

LEMMA LeeStarts == Init => LeeTyped
BY DEF Init, LeeTyped, LeeStates, L!InitState, Sides

(* For every feed: once a trade has been classified every later one is.    *)
THEOREM OnceClassifiedAlways == Spec => ClassificationSticks
<1>1. LeeTyped /\ [Next]_vars => LeeTyped'
  BY LeeStep
<1>2. LeeTyped /\ [Next]_vars =>
        [state'.last = "UNKNOWN" =>
           state.last = "UNKNOWN" /\ (state.prev # 0 => state'.prev = state.prev)]_state
  BY LeeStep
<1> QED
  BY <1>1, <1>2, LeeStarts, PTL DEF Spec, ClassificationSticks

---------------------------------------------------------------------------
(* The history of the trades.                                              *)
HistoryTyped ==
  /\ main \in DOMAIN series /\ DOMAIN series \subseteq ValidSizes /\ clock \in Nat
  /\ DOMAIN since = DOMAIN series /\ DOMAIN past = DOMAIN series
  /\ \A size \in DOMAIN series :
       /\ since[size] \in Seq(Trades)
       /\ past[size] \in [trades : Seq(Trades), forced : BOOLEAN]
  /\ deltas \in Seq(Int)

(* A trade with a side, as the stages get it.                              *)
LEMMA TradeTyped ==
  ASSUME LeeTyped, clock \in Nat, NEW t \in Feed, t.type = "TRADE",
         L!Side(t.price, t.aggressor, state) # "UNKNOWN"
  PROVE  [price |-> t.price, volume |-> t.volume,
          side |-> L!Side(t.price, t.aggressor, state), time |-> clock + t.gap] \in Trades
<1>1. L!Side(t.price, t.aggressor, state) \in Sides
  BY FeedTyped, SideTyped DEF LeeTyped
<1>2. t.price \in Nat \ {0} /\ t.volume \in Nat \ {0} /\ clock + t.gap \in Nat
  BY FeedTyped
<1> QED
  BY <1>1, <1>2 DEF Trades

---------------------------------------------------------------------------
(* Sums.  SumOf() folds a sequence from its end: it is a function on the   *)
(* sets of its positions that exists, and on 1 .. k it is the sum of the   *)
(* first k elements.                                                       *)
LEMMA LeastElement ==
  ASSUME NEW T \in SUBSET Nat, T # {}
  PROVE  \E n \in T : \A m \in T : n <= m
<1>1. PICK n \in T : \A m \in T : ~(<<m, n>> \in OpToRel(<, Nat))
  BY NatLessThanWellFounded, WFMin
<1>2. ASSUME NEW m \in T PROVE n <= m
  <2>1. ~(m < n)
    BY <1>1 DEF OpToRel
  <2> QED
    BY <2>1
<1> QED
  BY <1>2

LEMMA Induction ==
  ASSUME NEW T, 0 \in T, \A n \in Nat : n \in T => n + 1 \in T
  PROVE  \A n \in Nat : n \in T
<1> SUFFICES ASSUME Nat \ T # {} PROVE FALSE
  OBVIOUS
<1>1. PICK n \in Nat \ T : \A m \in Nat \ T : n <= m
  BY LeastElement
<1>2. n # 0 /\ n - 1 \in Nat /\ n - 1 \in T
  BY <1>1
<1> QED
  BY <1>1, <1>2

Largest(s) == CHOOSE x \in s : \A y \in s : x >= y

LEMMA LastIn ==
  ASSUME NEW n \in Nat, NEW s \in SUBSET (1 .. n), s # {}
  PROVE  Largest(s) \in s /\ \A y \in s : Largest(s) >= y
<1> DEFINE T == {m \in Nat : \A y \in s : y <= m}
<1>1. n \in T
  OBVIOUS
<1>2. PICK m \in T : \A k \in T : m <= k
  <2> HIDE DEF T
  <2>1. T \in SUBSET Nat
    BY DEF T
  <2> QED
    BY <1>1, <2>1, LeastElement
<1>3. m \in s
  <2> SUFFICES ASSUME m \notin s PROVE FALSE
    OBVIOUS
  <2>1. m \in Nat /\ \A y \in s : y \in Int /\ 1 <= y /\ y <= m /\ y # m
    BY <1>2
  <2>2. PICK y \in s : TRUE
    OBVIOUS
  <2>3. m - 1 \in T
    BY <2>1, <2>2
  <2> QED
    BY <1>2, <2>1, <2>3
<1>4. \A y \in s : m >= y
  BY <1>2
<1> QED
  BY <1>3, <1>4 DEF Largest

Folds(f, a) ==
  f = [s \in SUBSET (DOMAIN a) |->
         IF s = {} THEN 0 ELSE f[s \ {Largest(s)}] + a[Largest(s)]]

LEMMA FoldsExist ==
  ASSUME NEW n \in Nat, NEW a, DOMAIN a = 1 .. n
  PROVE  \E f : Folds(f, a)
<1> DEFINE P == SUBSET (1 .. n)
           Small(k) == {s \in P : Cardinality(s) <= k}
           UpTo(f, k) == f = [s \in Small(k) |->
                                IF s = {} THEN 0 ELSE f[s \ {Largest(s)}] + a[Largest(s)]]
           N == {k \in Nat : \E f : UpTo(f, k)}
<1>0. IsFiniteSet(1 .. n) /\ Cardinality(1 .. n) = n
  BY FS_Interval
<1>1. \A s \in P : IsFiniteSet(s) /\ Cardinality(s) \in Nat /\ Cardinality(s) <= n
  BY <1>0, FS_Subset, FS_CardinalityType
<1>2. \A s \in P : s # {} => Largest(s) \in s
  BY LastIn
<1>3. 0 \in N
  <2> DEFINE f == [s \in Small(0) |-> 0]
  <2>1. \A s \in Small(0) : s = {}
    BY <1>1, FS_EmptySet
  <2>2. UpTo(f, 0)
    BY <2>1
  <2> HIDE DEF f, UpTo
  <2> QED
    BY <2>2
<1>4. ASSUME NEW k \in Nat, k \in N PROVE k + 1 \in N
  <2>1. PICK f : UpTo(f, k)
    BY <1>4
  <2> DEFINE g == [s \in Small(k + 1) |->
                     IF Cardinality(s) <= k THEN f[s] ELSE f[s \ {Largest(s)}] + a[Largest(s)]]
  <2>2. ASSUME NEW s \in Small(k + 1)
        PROVE  g[s] = IF s = {} THEN 0 ELSE g[s \ {Largest(s)}] + a[Largest(s)]
    <3>1. s # {} => /\ s \ {Largest(s)} \in P
                    /\ Cardinality(s \ {Largest(s)}) = Cardinality(s) - 1
      BY <1>1, <1>2, FS_RemoveElement
    <3>2. s # {} => s \ {Largest(s)} \in Small(k) /\ g[s \ {Largest(s)}] = f[s \ {Largest(s)}]
      BY <1>1, <3>1
    <3>3. CASE Cardinality(s) <= k
      <4>1. f[s] = IF s = {} THEN 0 ELSE f[s \ {Largest(s)}] + a[Largest(s)]
        BY <2>1, <3>3
      <4> QED
        BY <3>2, <3>3, <4>1
    <3>4. CASE ~(Cardinality(s) <= k)
      <4>1. s # {}
        BY <1>1, <3>4, FS_EmptySet
      <4> QED
        BY <3>2, <3>4, <4>1
    <3> QED
      BY <3>3, <3>4
  <2>3. UpTo(g, k + 1)
    BY <2>2
  <2> HIDE DEF g, UpTo
  <2> QED
    BY <2>3
<1>5. n \in N
  <2> HIDE DEF N
  <2> QED
    BY <1>3, <1>4, Induction
<1>6. Small(n) = P
  BY <1>1
<1>7. PICK f : UpTo(f, n)
  BY <1>5
<1> QED
  BY <1>6, <1>7 DEF Folds

FoldOf(a) == CHOOSE f : Folds(f, a)

(* r gives for every k the sum of the first k elements.                    *)
Runs(r, a, n) == r[0] = 0 /\ \A k \in 1 .. n : r[k] = r[k - 1] + a[k]

LEMMA SumIsFold == \A a : B!SumOf(a) = FoldOf(a)[DOMAIN a]
BY Zenon DEF B!SumOf, B!FoldLeft, B!MapThenFoldSet, B!Max, Folds, FoldOf, Largest

LEMMA SumRuns ==
  ASSUME NEW n \in Nat, NEW a, DOMAIN a = 1 .. n
  PROVE  \E r : Runs(r, a, n) /\ B!SumOf(a) = r[n]
<1> DEFINE f == FoldOf(a)
           r == [k \in 0 .. n |-> f[1 .. k]]
<1>1. f = [s \in SUBSET (1 .. n) |->
             IF s = {} THEN 0 ELSE f[s \ {Largest(s)}] + a[Largest(s)]]
  BY FoldsExist DEF FoldOf, Folds
<1>2. r[0] = 0
  BY <1>1
<1>3. ASSUME NEW k \in 1 .. n PROVE r[k] = r[k - 1] + a[k]
  <2>1. Largest(1 .. k) = k
    <3>1. k \in Nat /\ 1 .. k \in SUBSET (1 .. k) /\ 1 .. k # {} /\ k \in 1 .. k
      OBVIOUS
    <3>2. Largest(1 .. k) \in 1 .. k /\ \A y \in 1 .. k : Largest(1 .. k) >= y
      BY <3>1, LastIn
    <3> QED
      BY <3>1, <3>2
  <2>2. (1 .. k) \ {k} = 1 .. (k - 1) /\ 1 .. k # {} /\ 1 .. k \in SUBSET (1 .. n)
    OBVIOUS
  <2>3. f[1 .. k] = f[1 .. (k - 1)] + a[k]
    BY <1>1, <2>1, <2>2
  <2> QED
    BY <2>3
<1>4. B!SumOf(a) = r[n]
  BY SumIsFold
<1> HIDE DEF r
<1> QED
  BY <1>2, <1>3, <1>4 DEF Runs

LEMMA RunsTyped ==
  ASSUME NEW n \in Nat, NEW a, NEW r, Runs(r, a, n), \A k \in 1 .. n : a[k] \in Int
  PROVE  \A k \in 0 .. n : r[k] \in Int
<1> DEFINE T == {k \in Nat : k <= n => r[k] \in Int}
<1>1. 0 \in T
  BY DEF Runs
<1>2. \A k \in Nat : k \in T => k + 1 \in T
  <2> SUFFICES ASSUME NEW k \in Nat, k \in T, k + 1 <= n PROVE r[k + 1] \in Int
    OBVIOUS
  <2>1. k + 1 \in 1 .. n /\ (k + 1) - 1 = k
    OBVIOUS
  <2> QED
    BY <2>1 DEF Runs
<1>3. \A k \in Nat : k \in T
  <2> HIDE DEF T
  <2> QED
    BY <1>1, <1>2, Induction
<1> QED
  BY <1>3

LEMMA RunsAgree ==
  ASSUME NEW n \in Nat, NEW a, NEW b, NEW q, NEW r, Runs(q, a, n), Runs(r, b, n),
         \A k \in 1 .. n : a[k] = b[k]
  PROVE  q[n] = r[n]
<1> DEFINE T == {k \in Nat : k <= n => q[k] = r[k]}
<1>1. 0 \in T
  BY DEF Runs
<1>2. \A k \in Nat : k \in T => k + 1 \in T
  <2> SUFFICES ASSUME NEW k \in Nat, k \in T, k + 1 <= n PROVE q[k + 1] = r[k + 1]
    OBVIOUS
  <2>1. k + 1 \in 1 .. n /\ (k + 1) - 1 = k
    OBVIOUS
  <2> QED
    BY <2>1 DEF Runs
<1>3. \A k \in Nat : k \in T
  <2> HIDE DEF T
  <2> QED
    BY <1>1, <1>2, Induction
<1> QED
  BY <1>3

(* The sum of no elements, and of one more.                                *)
LEMMA SumOfNone == ASSUME NEW a, DOMAIN a = 1 .. 0 PROVE B!SumOf(a) = 0
BY SumRuns DEF Runs

LEMMA SumOfMore ==
  ASSUME NEW n \in Nat, NEW a, NEW b, DOMAIN a = 1 .. n, DOMAIN b = 1 .. n + 1,
         \A k \in 1 .. n : b[k] = a[k]
  PROVE  B!SumOf(b) = B!SumOf(a) + b[n + 1]
<1>1. PICK q : Runs(q, a, n) /\ B!SumOf(a) = q[n]
  BY SumRuns
<1>2. PICK r : Runs(r, b, n + 1) /\ B!SumOf(b) = r[n + 1]
  BY SumRuns
<1>3. Runs(r, b, n) /\ r[n + 1] = r[n] + b[n + 1]
  <2>1. n + 1 \in 1 .. n + 1 /\ (n + 1) - 1 = n /\ 1 .. n \subseteq 1 .. n + 1
    OBVIOUS
  <2> QED
    BY <1>2, <2>1 DEF Runs
<1>4. q[n] = r[n]
  BY <1>1, <1>3, RunsAgree
<1> QED
  BY <1>1, <1>2, <1>3, <1>4

LEMMA SumTyped ==
  ASSUME NEW n \in Nat, NEW a, DOMAIN a = 1 .. n, \A k \in 1 .. n : a[k] \in Int
  PROVE  B!SumOf(a) \in Int
<1>1. PICK r : Runs(r, a, n) /\ B!SumOf(a) = r[n]
  BY SumRuns
<1> QED
  BY <1>1, RunsTyped

(* The volumes of a side, of all trades or of those at a price.            *)
SizesOf(t, side) == [i \in DOMAIN t |-> IF t[i].side = side THEN t[i].volume ELSE 0]
SizesAt(t, price, side) ==
  [i \in DOMAIN t |-> IF t[i].price = price /\ t[i].side = side THEN t[i].volume ELSE 0]

LEMMA TradeFacts ==
  ASSUME NEW t \in Seq(Trades)
  PROVE  /\ Len(t) \in Nat /\ DOMAIN t = 1 .. Len(t)
         /\ \A i \in 1 .. Len(t) :
              /\ t[i] \in Trades /\ t[i].price \in Nat \ {0} /\ t[i].volume \in Nat \ {0}
              /\ t[i].side \in Sides /\ t[i].time \in Nat
<1>1. Len(t) \in Nat /\ DOMAIN t = 1 .. Len(t) /\ \A i \in 1 .. Len(t) : t[i] \in Trades
  BY LenProperties, ElementOfSeq
<1> QED
  BY <1>1 DEF Trades

LEMMA OneMore ==
  ASSUME NEW t \in Seq(Trades), NEW x \in Trades, NEW n \in Nat, n = Len(t)
  PROVE  /\ Append(t, x) \in Seq(Trades) /\ Len(Append(t, x)) = n + 1
         /\ DOMAIN Append(t, x) = 1 .. n + 1
         /\ Append(t, x)[n + 1] = x /\ \A i \in 1 .. n : Append(t, x)[i] = t[i]
BY AppendProperties, LenProperties

LEMMA VolumeTyped ==
  ASSUME NEW t \in Seq(Trades), NEW side
  PROVE  B!VolumeOf(t, side) \in Int
<1>1. /\ Len(t) \in Nat /\ DOMAIN SizesOf(t, side) = 1 .. Len(t)
      /\ \A i \in 1 .. Len(t) : SizesOf(t, side)[i] \in Int
  BY TradeFacts DEF SizesOf
<1>2. B!SumOf(SizesOf(t, side)) \in Int
  BY <1>1, SumTyped
<1> QED
  BY <1>2, Zenon DEF B!VolumeOf, SizesOf

LEMMA VolumeOfMore ==
  ASSUME NEW t \in Seq(Trades), NEW x \in Trades, NEW side
  PROVE  B!VolumeOf(Append(t, x), side)
           = B!VolumeOf(t, side) + (IF x.side = side THEN x.volume ELSE 0)
<1>n. PICK n \in Nat : n = Len(t) /\ DOMAIN t = 1 .. n
  BY TradeFacts
<1> DEFINE a == SizesOf(t, side)
           b == SizesOf(Append(t, x), side)
<1>1. /\ DOMAIN a = 1 .. n /\ DOMAIN b = 1 .. n + 1
      /\ b[n + 1] = (IF x.side = side THEN x.volume ELSE 0)
      /\ \A i \in 1 .. n : b[i] = a[i]
  BY <1>n, OneMore DEF SizesOf
<1>2. B!SumOf(b) = B!SumOf(a) + b[n + 1]
  <2> HIDE DEF a, b
  <2> QED
    BY <1>1, SumOfMore
<1>3. B!VolumeOf(Append(t, x), side) = B!SumOf(b) /\ B!VolumeOf(t, side) = B!SumOf(a)
  BY Zenon DEF B!VolumeOf, SizesOf
<1> QED
  BY <1>1, <1>2, <1>3

LEMMA VolumeOfNone == ASSUME NEW side PROVE B!VolumeOf(<< >>, side) = 0
<1>1. DOMAIN SizesOf(<< >>, side) = 1 .. 0
  BY DEF SizesOf
<1>2. B!SumOf(SizesOf(<< >>, side)) = 0
  BY <1>1, SumOfNone
<1> QED
  BY <1>2, Zenon DEF B!VolumeOf, SizesOf

LEMMA VolumeAtTyped ==
  ASSUME NEW t \in Seq(Trades), NEW price, NEW side
  PROVE  B!VolumeAt(t, price, side) \in Int
<1>1. /\ Len(t) \in Nat /\ DOMAIN SizesAt(t, price, side) = 1 .. Len(t)
      /\ \A i \in 1 .. Len(t) : SizesAt(t, price, side)[i] \in Int
  BY TradeFacts DEF SizesAt
<1>2. B!SumOf(SizesAt(t, price, side)) \in Int
  BY <1>1, SumTyped
<1> QED
  BY <1>2, Zenon DEF B!VolumeAt, SizesAt

LEMMA VolumeAtMore ==
  ASSUME NEW t \in Seq(Trades), NEW x \in Trades, NEW price, NEW side
  PROVE  B!VolumeAt(Append(t, x), price, side)
           = B!VolumeAt(t, price, side)
             + (IF x.price = price /\ x.side = side THEN x.volume ELSE 0)
<1>n. PICK n \in Nat : n = Len(t) /\ DOMAIN t = 1 .. n
  BY TradeFacts
<1> DEFINE a == SizesAt(t, price, side)
           b == SizesAt(Append(t, x), price, side)
<1>1. /\ DOMAIN a = 1 .. n /\ DOMAIN b = 1 .. n + 1
      /\ b[n + 1] = (IF x.price = price /\ x.side = side THEN x.volume ELSE 0)
      /\ \A i \in 1 .. n : b[i] = a[i]
  BY <1>n, OneMore DEF SizesAt
<1>2. B!SumOf(b) = B!SumOf(a) + b[n + 1]
  <2> HIDE DEF a, b
  <2> QED
    BY <1>1, SumOfMore
<1>3. /\ B!VolumeAt(Append(t, x), price, side) = B!SumOf(b)
      /\ B!VolumeAt(t, price, side) = B!SumOf(a)
  BY Zenon DEF B!VolumeAt, SizesAt
<1> QED
  BY <1>1, <1>2, <1>3

LEMMA VolumeAtNone ==
  ASSUME NEW t \in Seq(Trades), NEW price, NEW side,
         \A i \in DOMAIN t : t[i].price # price
  PROVE  B!VolumeAt(t, price, side) = 0
<1>n. PICK n \in Nat : n = Len(t) /\ DOMAIN t = 1 .. n
  BY TradeFacts
<1> DEFINE a == SizesAt(t, price, side)
<1>1. DOMAIN a = 1 .. n /\ \A i \in 1 .. n : a[i] = 0
  BY <1>n DEF SizesAt
<1> HIDE DEF a
<1>2. PICK r : Runs(r, a, n) /\ B!SumOf(a) = r[n]
  BY <1>1, SumRuns
<1> DEFINE z == [k \in 0 .. n |-> 0]
           e == [k \in 1 .. n |-> 0]
<1>3. Runs(z, e, n) /\ z[n] = 0 /\ \A k \in 1 .. n : a[k] = e[k]
  BY <1>1 DEF Runs
<1> HIDE DEF z, e
<1>4. r[n] = z[n]
  BY <1>2, <1>3, RunsAgree
<1>5. B!VolumeAt(t, price, side) = B!SumOf(a)
  BY Zenon DEF B!VolumeAt, SizesAt, a
<1> QED
  BY <1>2, <1>3, <1>4, <1>5

---------------------------------------------------------------------------
(* The delta engine over the trades of a bar and the bars of a session.    *)
DeltaStates ==
  [ask : Int, bid : Int, running : Int, max : Int, min : Int, cumulative : Int,
   sessionMax : Int, sessionMin : Int, average : Nat]

Running(t) == {0} \cup {B!DeltaOf(SubSeq(t, 1, i)) : i \in DOMAIN t}
Of(ds) == {ds[i] : i \in DOMAIN ds}

BarAccount(dl, t) ==
  /\ dl.ask = B!VolumeOf(t, "ASK") /\ dl.bid = B!VolumeOf(t, "BID")
  /\ dl.running = B!DeltaOf(t)
  /\ {dl.max, dl.min} \subseteq Running(t)
  /\ \A d \in Running(t) : dl.min <= d /\ d <= dl.max

Averages(a, ds) ==
  /\ ds = << >> => a = 0
  /\ ds # << >> => /\ \E i \in DOMAIN ds : a <= D!Magnitude(ds[i])
                  /\ \E i \in DOMAIN ds : a >= D!Magnitude(ds[i])

SessionAccount(dl, ds) ==
  /\ dl.cumulative = B!SumOf(ds)
  /\ {dl.sessionMax, dl.sessionMin} \subseteq {0} \cup Of(ds)
  /\ \A d \in {0} \cup Of(ds) : dl.sessionMin <= d /\ d <= dl.sessionMax
  /\ Averages(dl.average, ds)

LEMMA PrefixOfMore ==
  ASSUME NEW T, NEW t \in Seq(T), NEW x \in T, NEW n \in Nat, n = Len(t)
  PROVE  /\ \A i \in 1 .. n : SubSeq(Append(t, x), 1, i) = SubSeq(t, 1, i)
         /\ SubSeq(Append(t, x), 1, n + 1) = Append(t, x)
         /\ SubSeq(t, 1, n) = t
<1> DEFINE more == Append(t, x)
<1>1. /\ more \in Seq(T) /\ Len(more) = n + 1 /\ \A i \in 1 .. n : more[i] = t[i]
      /\ \A i \in 1 .. n : t[i] \in T
  BY AppendProperties, ElementOfSeq
<1> HIDE DEF more
<1>2. ASSUME NEW i \in 1 .. n PROVE SubSeq(more, 1, i) = SubSeq(t, 1, i)
  <2>0. \A k \in 1 .. i : k \in 1 .. n
    OBVIOUS
  <2>1. /\ SubSeq(t, 1, i) \in Seq(T) /\ Len(SubSeq(t, 1, i)) = i
        /\ \A k \in 1 .. i : SubSeq(t, 1, i)[k] = t[k]
    BY <1>1, <2>0, SubSeqProperties
  <2>2. /\ SubSeq(more, 1, i) \in Seq(T) /\ Len(SubSeq(more, 1, i)) = i
        /\ \A k \in 1 .. i : SubSeq(more, 1, i)[k] = more[k]
    <3>1. \A k \in 1 .. i : more[k] \in T
      BY <1>1, <2>0
    <3> QED
      BY <3>1, SubSeqProperties
  <2>3. \A k \in 1 .. i : SubSeq(more, 1, i)[k] = SubSeq(t, 1, i)[k]
    BY <1>1, <2>0, <2>1, <2>2
  <2> QED
    BY <2>1, <2>2, <2>3, SeqEqual
<1>3. SubSeq(more, 1, n + 1) = more
  BY <1>1, SubSeqFull
<1>4. SubSeq(t, 1, n) = t
  BY SubSeqFull
<1> QED
  BY <1>2, <1>3, <1>4 DEF more

LEMMA PrefixAndNext ==
  ASSUME NEW t \in Seq(Trades), NEW i \in 1 .. Len(t)
  PROVE  /\ SubSeq(t, 1, i - 1) \in Seq(Trades)
         /\ SubSeq(t, 1, i) = Append(SubSeq(t, 1, i - 1), t[i])
<1>n. PICK n \in Nat : n = Len(t) /\ \A k \in 1 .. n : t[k] \in Trades
  BY LenProperties, ElementOfSeq
<1> DEFINE before == SubSeq(t, 1, i - 1)
           upto == SubSeq(t, 1, i)
<1>1. /\ before \in Seq(Trades) /\ Len(before) = i - 1
      /\ \A k \in 1 .. i - 1 : before[k] = t[k]
  <2>1. i - 1 \in Nat /\ \A k \in 1 .. i - 1 : t[k] \in Trades
    BY <1>n
  <2> QED
    BY <2>1, SubSeqProperties
<1>2. /\ upto \in Seq(Trades) /\ Len(upto) = i
      /\ \A k \in 1 .. i : upto[k] = t[k]
  <2>1. i \in Nat /\ \A k \in 1 .. i : t[k] \in Trades
    BY <1>n
  <2> QED
    BY <2>1, SubSeqProperties
<1> HIDE DEF before, upto
<1>3. /\ Append(before, t[i]) \in Seq(Trades) /\ Len(Append(before, t[i])) = i
      /\ \A k \in 1 .. i - 1 : Append(before, t[i])[k] = before[k]
      /\ Append(before, t[i])[i] = t[i]
  <2>1. t[i] \in Trades /\ (i - 1) + 1 = i
    BY <1>n
  <2> QED
    BY <1>1, <2>1, AppendProperties
<1>4. \A k \in 1 .. i : upto[k] = Append(before, t[i])[k]
  BY <1>1, <1>2, <1>3
<1>5. upto = Append(before, t[i])
  BY <1>2, <1>3, <1>4, SeqEqual
<1> QED
  BY <1>1, <1>5 DEF before, upto

LEMMA DeltaOfTyped == ASSUME NEW t \in Seq(Trades) PROVE B!DeltaOf(t) \in Int
BY VolumeTyped DEF B!DeltaOf

LEMMA RunningTyped == ASSUME NEW t \in Seq(Trades) PROVE Running(t) \subseteq Int
<1>n. PICK n \in Nat : n = Len(t) /\ DOMAIN t = 1 .. n
  BY TradeFacts
<1>1. ASSUME NEW i \in 1 .. n PROVE B!DeltaOf(SubSeq(t, 1, i)) \in Int
  <2>1. \A k \in 1 .. i : t[k] \in Trades
    BY <1>n, ElementOfSeq
  <2>2. SubSeq(t, 1, i) \in Seq(Trades)
    BY <2>1, SubSeqProperties
  <2> QED
    BY <2>2, DeltaOfTyped
<1> QED
  BY <1>n, <1>1 DEF Running

LEMMA RunningMore ==
  ASSUME NEW t \in Seq(Trades), NEW x \in Trades
  PROVE  Running(Append(t, x)) = Running(t) \cup {B!DeltaOf(Append(t, x))}
<1>n. PICK n \in Nat : n = Len(t) /\ DOMAIN t = 1 .. n
  BY TradeFacts
<1> DEFINE more == Append(t, x)
<1>1. DOMAIN more = 1 .. n + 1
  BY <1>n, OneMore
<1>2. /\ \A i \in 1 .. n : SubSeq(more, 1, i) = SubSeq(t, 1, i)
      /\ SubSeq(more, 1, n + 1) = more
  BY <1>n, PrefixOfMore
<1> HIDE DEF more
<1>3. 1 .. n + 1 = (1 .. n) \cup {n + 1}
  OBVIOUS
<1>4. {B!DeltaOf(SubSeq(more, 1, i)) : i \in 1 .. n + 1}
        = {B!DeltaOf(SubSeq(more, 1, i)) : i \in 1 .. n} \cup {B!DeltaOf(SubSeq(more, 1, n + 1))}
  BY <1>3
<1>5. {B!DeltaOf(SubSeq(more, 1, i)) : i \in 1 .. n} = {B!DeltaOf(SubSeq(t, 1, i)) : i \in 1 .. n}
  BY <1>2
<1>6. {B!DeltaOf(SubSeq(more, 1, i)) : i \in 1 .. n + 1}
        = {B!DeltaOf(SubSeq(t, 1, i)) : i \in 1 .. n} \cup {B!DeltaOf(more)}
  BY <1>2, <1>4, <1>5
<1> QED
  BY <1>n, <1>1, <1>6 DEF Running, more

LEMMA EmptyBarAccount ==
  ASSUME NEW dl, dl.ask = 0, dl.bid = 0, dl.running = 0, dl.max = 0, dl.min = 0
  PROVE  BarAccount(dl, << >>)
<1>1. B!DeltaOf(<< >>) = 0
  BY VolumeOfNone DEF B!DeltaOf
<1>2. Running(<< >>) = {0}
  BY DEF Running
<1> QED
  BY <1>1, <1>2, VolumeOfNone DEF BarAccount

LEMMA TickAccounted ==
  ASSUME NEW dl \in DeltaStates, NEW t \in Seq(Trades), NEW x \in Trades, BarAccount(dl, t)
  PROVE  LET after == D!OnTick(dl, x)
         IN  /\ after \in DeltaStates /\ BarAccount(after, Append(t, x))
             /\ after.cumulative = dl.cumulative /\ after.average = dl.average
             /\ after.sessionMax = dl.sessionMax /\ after.sessionMin = dl.sessionMin
<1> DEFINE after == D!OnTick(dl, x)
           more == Append(t, x)
           bought == IF x.side = "ASK" THEN x.volume ELSE 0
           sold == IF x.side = "BID" THEN x.volume ELSE 0
           new == B!DeltaOf(more)
<1>1. x.volume \in Nat /\ x.side \in Sides /\ bought \in Nat /\ sold = x.volume - bought /\ sold \in Nat
  BY DEF Trades, Sides
<1>2. /\ B!VolumeOf(more, "ASK") = B!VolumeOf(t, "ASK") + bought
      /\ B!VolumeOf(more, "BID") = B!VolumeOf(t, "BID") + sold
  BY VolumeOfMore
<1>3. B!VolumeOf(t, "ASK") \in Int /\ B!VolumeOf(t, "BID") \in Int
  BY VolumeTyped
<1>4. new = dl.running + 2 * bought - x.volume
  <2>1. dl.running = B!VolumeOf(t, "ASK") - B!VolumeOf(t, "BID")
    BY DEF BarAccount, B!DeltaOf
  <2>2. new = B!VolumeOf(more, "ASK") - B!VolumeOf(more, "BID")
    BY DEF B!DeltaOf
  <2> DEFINE asked == B!VolumeOf(t, "ASK")
             bid == B!VolumeOf(t, "BID")
  <2>3. new = (asked + bought) - (bid + sold)
    BY <1>2, <2>2
  <2>4. asked \in Int /\ bid \in Int /\ dl.running = asked - bid
    BY <1>3, <2>1
  <2>5. bought \in Int /\ x.volume \in Int /\ sold = x.volume - bought
    BY <1>1
  <2> HIDE DEF new, more, bought, sold, asked, bid
  <2> QED
    BY <2>3, <2>4, <2>5
<1>5. /\ dl.ask \in Int /\ dl.bid \in Int /\ dl.running \in Int /\ dl.max \in Int /\ dl.min \in Int
  BY DEF DeltaStates
<1>6. new \in Int
  BY <1>1, <1>4, <1>5
<1>7. /\ after \in DeltaStates
      /\ after.ask = dl.ask + bought /\ after.bid = dl.bid + sold /\ after.running = new
      /\ after.max = D!Greater(dl.max, new) /\ after.min = D!Lesser(dl.min, new)
      /\ after.cumulative = dl.cumulative /\ after.average = dl.average
      /\ after.sessionMax = dl.sessionMax /\ after.sessionMin = dl.sessionMin
  <2> DEFINE top == D!Greater(dl.max, new)
             low == D!Lesser(dl.min, new)
             a == dl.ask + bought
             b == dl.bid + x.volume - bought
  <2>1. top \in Int /\ low \in Int /\ a \in Int /\ b \in Int /\ b = dl.bid + sold
    BY <1>1, <1>5, <1>6 DEF D!Greater, D!Lesser
  <2>2. after = [dl EXCEPT !.ask = a, !.bid = b, !.running = new, !.max = top, !.min = low]
    BY <1>4 DEF D!OnTick
  <2> HIDE DEF after, top, low, a, b, new
  <2>3. /\ after.ask = a /\ after.bid = b /\ after.running = new /\ after.max = top /\ after.min = low
        /\ after.cumulative = dl.cumulative /\ after.average = dl.average
        /\ after.sessionMax = dl.sessionMax /\ after.sessionMin = dl.sessionMin
    BY <2>2 DEF DeltaStates
  <2>4. after \in DeltaStates
    BY <1>6, <2>1, <2>2 DEF DeltaStates
  <2> QED
    BY <2>1, <2>3, <2>4 DEF top, low, a
<1>8. BarAccount(after, more)
  <2>1. Running(more) = Running(t) \cup {new}
    BY RunningMore
  <2>2. Running(t) \subseteq Int
    BY RunningTyped
  <2>3. /\ dl.max \in Running(t) /\ dl.min \in Running(t)
        /\ \A d \in Running(t) : dl.min <= d /\ d <= dl.max
        /\ dl.ask = B!VolumeOf(t, "ASK") /\ dl.bid = B!VolumeOf(t, "BID")
    BY DEF BarAccount
  <2>4. after.ask = B!VolumeOf(more, "ASK") /\ after.bid = B!VolumeOf(more, "BID")
    BY <1>2, <1>7, <2>3
  <2> DEFINE R == Running(t)
             M == Running(more)
  <2> HIDE DEF after, new, more, R, M
  <2>5. after.max \in M /\ after.min \in M
    BY <1>7, <2>1, <2>3 DEF D!Greater, D!Lesser, R, M
  <2>6. ASSUME NEW d \in M PROVE after.min <= d /\ d <= after.max
    <3>1. d \in R \/ d = new
      BY <2>1 DEF R, M
    <3>2. CASE d = new
      BY <1>5, <1>6, <1>7, <3>2 DEF D!Greater, D!Lesser
    <3>3. CASE d \in R
      <4>1. dl.min <= d /\ d <= dl.max /\ d \in Int
        BY <2>2, <2>3, <3>3 DEF R
      <4> QED
        BY <1>5, <1>6, <1>7, <4>1 DEF D!Greater, D!Lesser
    <3> QED
      BY <3>1, <3>2, <3>3
  <2> QED
    BY <1>7, <2>4, <2>5, <2>6 DEF BarAccount, M, new
<1> QED
  BY <1>7, <1>8

(* The moving average stays between what it averages, and can be a third   *)
(* of the newest only if it had been.                                      *)
LEMMA AverageBetween ==
  ASSUME NEW a \in Nat, NEW s \in Nat
  PROVE  /\ D!Average(a, s) \in Nat
         /\ a = 0 => D!Average(a, s) = s
         /\ a # 0 => /\ D!Average(a, s) <= a \/ D!Average(a, s) <= s
                     /\ D!Average(a, s) >= a \/ D!Average(a, s) >= s
         /\ D!Average(a, s) # 0 /\ s >= 3 * D!Average(a, s) => a # 0 /\ 3 * a <= s
BY DEF D!Average

LEMMA OfMore ==
  ASSUME NEW ds \in Seq(Int), NEW d \in Int
  PROVE  /\ Of(ds) \subseteq Int /\ Of(Append(ds, d)) = Of(ds) \cup {d}
         /\ B!SumOf(Append(ds, d)) = B!SumOf(ds) + d /\ B!SumOf(ds) \in Int
<1>n. PICK n \in Nat : n = Len(ds) /\ DOMAIN ds = 1 .. n
  BY LenProperties
<1> DEFINE more == Append(ds, d)
<1>1. /\ DOMAIN more = 1 .. n + 1 /\ more[n + 1] = d
      /\ \A i \in 1 .. n : more[i] = ds[i] /\ ds[i] \in Int
  BY <1>n, AppendProperties, LenProperties, ElementOfSeq
<1> HIDE DEF more
<1>2. B!SumOf(more) = B!SumOf(ds) + d /\ B!SumOf(ds) \in Int
  BY <1>n, <1>1, SumOfMore, SumTyped
<1>3. Of(ds) \subseteq Int
  BY <1>n, <1>1 DEF Of
<1>4. Of(more) = Of(ds) \cup {d}
  <2>1. 1 .. n + 1 = (1 .. n) \cup {n + 1}
    OBVIOUS
  <2> QED
    BY <1>n, <1>1, <2>1 DEF Of
<1> QED
  BY <1>2, <1>3, <1>4 DEF more

LEMMA AveragesMore ==
  ASSUME NEW a \in Nat, NEW ds \in Seq(Int), NEW d \in Int, Averages(a, ds)
  PROVE  Averages(D!Average(a, D!Magnitude(d)), Append(ds, d))
<1>n. PICK n \in Nat : n = Len(ds) /\ DOMAIN ds = 1 .. n
  BY LenProperties
<1> DEFINE more == Append(ds, d)
           s == D!Magnitude(d)
           new == D!Average(a, s)
<1>1. /\ DOMAIN more = 1 .. n + 1 /\ more[n + 1] = d /\ more # << >>
      /\ \A i \in 1 .. n : more[i] = ds[i] /\ ds[i] \in Int
  BY <1>n, AppendProperties, LenProperties, ElementOfSeq
<1>2. s \in Nat
  BY DEF D!Magnitude
<1>3. /\ new \in Nat
      /\ a = 0 => new = s
      /\ a # 0 => (new <= a \/ new <= s) /\ (new >= a \/ new >= s)
  BY <1>2, AverageBetween
<1>4. D!Magnitude(more[n + 1]) = s /\ n + 1 \in DOMAIN more
  BY <1>1
<1> HIDE DEF more, s, new
<1>5. CASE a = 0
  <2>1. new <= D!Magnitude(more[n + 1]) /\ new >= D!Magnitude(more[n + 1])
    BY <1>2, <1>3, <1>4, <1>5
  <2> QED
    BY <1>1, <1>4, <2>1 DEF Averages, more, new, s
<1>6. CASE a # 0
  <2>1. ds # << >>
    BY <1>6 DEF Averages
  <2>2. PICK i \in 1 .. n : a <= D!Magnitude(ds[i])
    BY <1>n, <2>1 DEF Averages
  <2>3. PICK j \in 1 .. n : a >= D!Magnitude(ds[j])
    BY <1>n, <2>1 DEF Averages
  <2>4. /\ i \in DOMAIN more /\ j \in DOMAIN more
        /\ D!Magnitude(more[i]) = D!Magnitude(ds[i]) /\ D!Magnitude(more[j]) = D!Magnitude(ds[j])
        /\ D!Magnitude(ds[i]) \in Int /\ D!Magnitude(ds[j]) \in Int
    BY <1>1 DEF D!Magnitude
  <2>5. \E k \in DOMAIN more : new <= D!Magnitude(more[k])
    <3>1. CASE new <= a
      <4>1. new <= D!Magnitude(more[i])
        BY <1>3, <2>2, <2>4, <3>1
      <4> QED
        BY <2>4, <4>1
    <3>2. CASE new <= s
      BY <1>4, <3>2
    <3> QED
      BY <1>3, <1>6, <3>1, <3>2
  <2>6. \E k \in DOMAIN more : new >= D!Magnitude(more[k])
    <3>1. CASE new >= a
      <4>1. new >= D!Magnitude(more[j])
        BY <1>3, <2>3, <2>4, <3>1
      <4> QED
        BY <2>4, <4>1
    <3>2. CASE new >= s
      BY <1>4, <3>2
    <3> QED
      BY <1>3, <1>6, <3>1, <3>2
  <2> QED
    BY <1>1, <2>5, <2>6 DEF Averages, more, new, s
<1> QED
  BY <1>5, <1>6

LEMMA BarAccounted ==
  ASSUME NEW dl \in DeltaStates, NEW t \in Seq(Trades), NEW ds \in Seq(Int),
         BarAccount(dl, t), SessionAccount(dl, ds)
  PROVE  LET left == D!OnBarClose(dl)
             d == B!DeltaOf(t)
         IN  /\ left \in DeltaStates /\ BarAccount(left, << >>)
             /\ SessionAccount(left, Append(ds, d))
             /\ left.average = D!Average(dl.average, D!Magnitude(d))
             /\ D!FilledIn(dl).delta = d /\ D!FilledIn(dl).cumulative = left.cumulative
<1> DEFINE left == D!OnBarClose(dl)
           d == B!DeltaOf(t)
           c == dl.cumulative + (dl.ask - dl.bid)
           top == D!Greater(dl.sessionMax, d)
           low == D!Lesser(dl.sessionMin, d)
           new == D!Average(dl.average, D!Magnitude(d))
<1>1. /\ dl.ask \in Int /\ dl.bid \in Int /\ dl.cumulative \in Int
      /\ dl.sessionMax \in Int /\ dl.sessionMin \in Int /\ dl.average \in Nat
  BY DEF DeltaStates
<1>2. d = dl.ask - dl.bid /\ d \in Int
  BY <1>1 DEF BarAccount, B!DeltaOf
<1>3. D!Magnitude(d) \in Nat
  BY <1>2 DEF D!Magnitude
<1>4. new \in Nat
  BY <1>1, <1>3, AverageBetween
<1>5. left = [ask |-> 0, bid |-> 0, running |-> 0, max |-> 0, min |-> 0,
              cumulative |-> c, sessionMax |-> top, sessionMin |-> low, average |-> new]
  <2> DEFINE e == dl.ask - dl.bid
  <2>1. left = [D!DeltaState EXCEPT
                  !.cumulative = dl.cumulative + e,
                  !.sessionMax = D!Greater(dl.sessionMax, e),
                  !.sessionMin = D!Lesser(dl.sessionMin, e),
                  !.average = D!Average(dl.average, D!Magnitude(e))]
    BY Zenon DEF D!OnBarClose
  <2>2. e = d /\ dl.cumulative + e = c
    BY <1>2
  <2> HIDE DEF left, e, d, c
  <2>3. left = [D!DeltaState EXCEPT !.cumulative = c, !.sessionMax = top, !.sessionMin = low,
                                    !.average = new]
    BY <2>1, <2>2
  <2> HIDE DEF top, low, new
  <2> QED
    BY <2>3 DEF D!DeltaState
<1>6. c \in Int /\ top \in Int /\ low \in Int
  BY <1>1, <1>2 DEF D!Greater, D!Lesser
<1>7. D!FilledIn(dl).delta = d /\ D!FilledIn(dl).cumulative = c
  BY <1>1, <1>2 DEF D!FilledIn
<1> HIDE DEF left, d, new, top, low, c
<1>8. left \in DeltaStates
  BY <1>4, <1>5, <1>6 DEF DeltaStates
<1>9. BarAccount(left, << >>)
  BY <1>5, EmptyBarAccount
<1>10. SessionAccount(left, Append(ds, d))
  <2> DEFINE more == Append(ds, d)
             O == Of(ds)
             M == Of(more)
  <2>1. O \subseteq Int /\ M = O \cup {d} /\ B!SumOf(more) = B!SumOf(ds) + d
    BY <1>2, OfMore
  <2>2. /\ dl.cumulative = B!SumOf(ds)
        /\ dl.sessionMax \in {0} \cup O /\ dl.sessionMin \in {0} \cup O
        /\ \A e \in {0} \cup O : dl.sessionMin <= e /\ e <= dl.sessionMax
        /\ Averages(dl.average, ds)
    BY DEF SessionAccount
  <2>3. Averages(new, more)
    BY <1>1, <1>2, <2>2, AveragesMore DEF new
  <2> HIDE DEF O, M, more
  <2>4. left.cumulative = B!SumOf(more)
    BY <1>1, <1>2, <1>5, <2>1, <2>2 DEF c
  <2>5. left.sessionMax \in {0} \cup M /\ left.sessionMin \in {0} \cup M
    BY <1>5, <2>1, <2>2 DEF D!Greater, D!Lesser, top, low
  <2>6. ASSUME NEW e \in {0} \cup M PROVE left.sessionMin <= e /\ e <= left.sessionMax
    <3>1. CASE e = d
      BY <1>1, <1>2, <1>5, <3>1 DEF D!Greater, D!Lesser, top, low
    <3>2. CASE e \in {0} \cup O
      <4>1. dl.sessionMin <= e /\ e <= dl.sessionMax /\ e \in Int
        BY <2>1, <2>2, <3>2
      <4> QED
        BY <1>1, <1>2, <1>5, <4>1 DEF D!Greater, D!Lesser, top, low
    <3> QED
      BY <2>1, <3>1, <3>2
  <2> QED
    BY <1>5, <2>3, <2>4, <2>5, <2>6 DEF SessionAccount, M, more
<1> QED
  BY <1>5, <1>7, <1>8, <1>9, <1>10 DEF left, d, new, c

(* The signals of a bar that do not come from the delta engine are not     *)
(* among those SurgeStandsOut is about.                                    *)
DeltaKinds ==
  {<<"EXTREME_DELTA", "LONG">>, <<"EXTREME_DELTA", "SHORT">>,
   <<"DELTA_SURGE_BULLISH", "LONG">>, <<"DELTA_SURGE_BEARISH", "SHORT">>}

LEMMA OtherSignals ==
  ASSUME NEW registry, NEW bar, NEW kind \in DeltaKinds
  PROVE  kind \notin I!Signals(registry, bar)
BY DEF I!Signals, I!When, DeltaKinds

LEMMA DeltaSignalsOf ==
  ASSUME NEW dl \in DeltaStates, NEW ds \in Seq(Int), NEW bar, NEW t \in Seq(Trades),
         BarAccount(dl, t), SessionAccount(dl, ds)
  PROVE  LET given == D!DeltaSignals(bar, D!FilledIn(dl), D!OnBarClose(dl))
             d == B!DeltaOf(t)
         IN  /\ <<"EXTREME_DELTA", "LONG">> \notin given
             /\ <<"EXTREME_DELTA", "SHORT">> \notin given
             /\ <<"DELTA_SURGE_BULLISH", "LONG">> \in given => d > 0
             /\ <<"DELTA_SURGE_BEARISH", "SHORT">> \in given => ~(d > 0)
             /\ \A kind \in {<<"DELTA_SURGE_BULLISH", "LONG">>, <<"DELTA_SURGE_BEARISH", "SHORT">>} :
                  kind \in given =>
                    \E i \in DOMAIN ds : 3 * D!Magnitude(ds[i]) <= D!Magnitude(d)
<1> DEFINE filled == D!FilledIn(dl)
           left == D!OnBarClose(dl)
           d == B!DeltaOf(t)
           s == D!Magnitude(d)
<1>1. /\ left \in DeltaStates /\ SessionAccount(left, Append(ds, d))
      /\ left.average = D!Average(dl.average, s) /\ filled.delta = d
  BY BarAccounted
<1>2. d \in Int /\ s \in Nat
  BY DeltaOfTyped DEF D!Magnitude
<1>3. dl.average \in Nat /\ left.average \in Nat /\ left.sessionMax \in Int /\ left.sessionMin \in Int
  BY <1>1 DEF DeltaStates
<1> HIDE DEF filled, left, d
<1>4. D!ExtremeDelta(filled, left) = {}
  <2>1. d \in Of(Append(ds, d))
    BY <1>2, OfMore
  <2>2. left.sessionMin <= d /\ d <= left.sessionMax
    BY <1>1, <2>1 DEF SessionAccount
  <2> DEFINE most == D!Greater(D!Magnitude(left.sessionMax), D!Magnitude(left.sessionMin))
  <2>3. most \in Nat /\ s <= most
    BY <1>2, <1>3, <2>2 DEF D!Greater, D!Magnitude
  <2> HIDE DEF most, s
  <2>4. most = 0 \/ 2 * s < 3 * most
    BY <1>2, <2>3
  <2>5. most = 0 \/ 2 * D!Magnitude(filled.delta) < 3 * most
    BY <1>1, <2>4 DEF s
  <2> QED
    BY <2>5 DEF D!ExtremeDelta, most
<1> HIDE DEF s
<1>5. ASSUME D!Surge(filled, left) # {}
      PROVE  /\ d > 0 => D!Surge(filled, left) = {<<"DELTA_SURGE_BULLISH", "LONG">>}
             /\ ~(d > 0) => D!Surge(filled, left) = {<<"DELTA_SURGE_BEARISH", "SHORT">>}
             /\ \E i \in DOMAIN ds : 3 * D!Magnitude(ds[i]) <= s
  <2>1. ~(left.average = 0 \/ s < 3 * left.average)
    BY <1>1, <1>5 DEF D!Surge, s
  <2>2. /\ d > 0 => D!Surge(filled, left) = {<<"DELTA_SURGE_BULLISH", "LONG">>}
        /\ ~(d > 0) => D!Surge(filled, left) = {<<"DELTA_SURGE_BEARISH", "SHORT">>}
    BY <1>1, <2>1 DEF D!Surge, s
  <2>3. dl.average # 0 /\ 3 * dl.average <= s
    <3>1. left.average # 0 /\ s >= 3 * left.average
      BY <1>2, <1>3, <2>1
    <3>2. D!Average(dl.average, s) # 0 /\ s >= 3 * D!Average(dl.average, s)
      BY <1>1, <3>1
    <3> QED
      BY <1>2, <1>3, <3>2, AverageBetween
  <2>4. PICK i \in DOMAIN ds : dl.average >= D!Magnitude(ds[i])
    BY <2>3 DEF SessionAccount, Averages
  <2>5. D!Magnitude(ds[i]) \in Int
    <3>1. ds[i] \in Int
      BY LenProperties, ElementOfSeq
    <3> QED
      BY <3>1 DEF D!Magnitude
  <2>6. 3 * D!Magnitude(ds[i]) <= s
    BY <1>2, <1>3, <2>3, <2>4, <2>5
  <2> QED
    BY <2>2, <2>6
<1> DEFINE given == D!DeltaSignals(bar, filled, left)
<1>6. \A kind \in DeltaKinds : kind \in given <=> kind \in D!Surge(filled, left)
  BY <1>4 DEF D!DeltaSignals, D!Divergence, D!SmallRange, DeltaKinds
<1> HIDE DEF given
<1>7. /\ <<"EXTREME_DELTA", "LONG">> \notin given
      /\ <<"EXTREME_DELTA", "SHORT">> \notin given
      /\ <<"DELTA_SURGE_BULLISH", "LONG">> \in given => d > 0
      /\ <<"DELTA_SURGE_BEARISH", "SHORT">> \in given => ~(d > 0)
  BY <1>5, <1>6 DEF DeltaKinds
<1>8. ASSUME NEW kind \in {<<"DELTA_SURGE_BULLISH", "LONG">>, <<"DELTA_SURGE_BEARISH", "SHORT">>},
             kind \in given
      PROVE  \E i \in DOMAIN ds : 3 * D!Magnitude(ds[i]) <= s
  <2>1. D!Surge(filled, left) # {}
    BY <1>6, <1>8 DEF DeltaKinds
  <2> QED
    BY <1>5, <2>1
<1> QED
  BY <1>7, <1>8 DEF given, filled, left, d, s

---------------------------------------------------------------------------
(* What the steps do to the history.                                       *)
LEMMA TradeStep ==
  ASSUME HistoryTyped, LeeTyped, Trade
  PROVE  \E x \in Trades :
           LET after == [size \in DOMAIN series |-> B!OnTick(series[size], x)]
               closed == {size \in DOMAIN series : after[size].current = << >>}
               trades == [size \in DOMAIN series |-> Append(since[size], x)]
           IN  /\ clock' = x.time /\ series' = after /\ main' = main
               /\ Remember(closed, trades, FALSE)
               /\ \/ /\ main \in closed
                     /\ Analyse(after[main].last[1], D!OnTick(delta, x), trades[main])
                  \/ /\ main \notin closed
                     /\ delta' = D!OnTick(delta, x)
                     /\ UNCHANGED <<zones, report, deltas>>
<1>1. PICK t \in {u \in Feed : u.type = "TRADE"} :
        LET side == L!Side(t.price, t.aggressor, state)
            x == [price |-> t.price, volume |-> t.volume, side |-> side, time |-> clock + t.gap]
            after == [size \in DOMAIN series |-> B!OnTick(series[size], x)]
            closed == {size \in DOMAIN series : after[size].current = << >>}
            trades == [size \in DOMAIN series |-> Append(since[size], x)]
        IN  /\ side # "UNKNOWN"
            /\ clock' = clock + t.gap
            /\ series' = after
            /\ Remember(closed, trades, FALSE)
            /\ \/ /\ main \in closed
                  /\ Analyse(after[main].last[1], D!OnTick(delta, x), trades[main])
               \/ /\ main \notin closed
                  /\ delta' = D!OnTick(delta, x)
                  /\ UNCHANGED <<zones, report, deltas>>
  BY Zenon DEF Trade
<1> DEFINE x == [price |-> t.price, volume |-> t.volume,
                 side |-> L!Side(t.price, t.aggressor, state), time |-> clock + t.gap]
<1>2. t \in Feed /\ t.type = "TRADE" /\ clock \in Nat
  BY <1>1 DEF HistoryTyped
<1>3. x \in Trades /\ x.time = clock + t.gap
  BY <1>1, <1>2, TradeTyped
<1>4. main' = main
  BY DEF Trade
<1>5. LET after == [size \in DOMAIN series |-> B!OnTick(series[size], x)]
          closed == {size \in DOMAIN series : after[size].current = << >>}
          trades == [size \in DOMAIN series |-> Append(since[size], x)]
      IN  /\ clock' = x.time /\ series' = after /\ main' = main
          /\ Remember(closed, trades, FALSE)
          /\ \/ /\ main \in closed
                /\ Analyse(after[main].last[1], D!OnTick(delta, x), trades[main])
             \/ /\ main \notin closed
                /\ delta' = D!OnTick(delta, x)
                /\ UNCHANGED <<zones, report, deltas>>
  BY <1>1, <1>3, <1>4, Zenon
<1> HIDE DEF x
<1> QED
  BY <1>3, <1>5, Zenon

LEMMA DeltasGrow ==
  ASSUME NEW ds \in Seq(Int), NEW t \in Seq(Trades)
  PROVE  Append(ds, B!DeltaOf(t)) \in Seq(Int)
<1>1. B!DeltaOf(t) \in Int
  BY DeltaOfTyped
<1> HIDE DEF B!DeltaOf
<1> QED
  BY <1>1, AppendProperties

LEMMA HistoryStarts == Init => HistoryTyped
<1> SUFFICES ASSUME Init PROVE HistoryTyped
  OBVIOUS
<1>1. << >> \in Seq(Trades) /\ << >> \in Seq(Int)
  BY EmptySeq
<1> QED
  BY <1>1 DEF Init, HistoryTyped, NoPast

(* The effect of Remember() on the types.                                  *)
LEMMA RememberTyped ==
  ASSUME HistoryTyped, NEW closed, NEW trades, NEW forced \in BOOLEAN,
         Remember(closed, trades, forced), DOMAIN series' = DOMAIN series,
         \A size \in DOMAIN series : trades[size] \in Seq(Trades)
  PROVE  /\ DOMAIN since' = DOMAIN series' /\ DOMAIN past' = DOMAIN series'
         /\ \A size \in DOMAIN series' :
              /\ since'[size] \in Seq(Trades)
              /\ past'[size] \in [trades : Seq(Trades), forced : BOOLEAN]
<1>1. << >> \in Seq(Trades)
  BY EmptySeq
<1>2. /\ since' = [size \in DOMAIN series |-> IF size \in closed THEN << >> ELSE trades[size]]
      /\ past' = [size \in DOMAIN series |->
                    IF size \in closed THEN [trades |-> trades[size], forced |-> forced]
                    ELSE past[size]]
  BY DEF Remember
<1>3. \A size \in DOMAIN series : past[size] \in [trades : Seq(Trades), forced : BOOLEAN]
  BY DEF HistoryTyped
<1> QED
  BY <1>1, <1>2, <1>3

LEMMA HistoryStep == HistoryTyped /\ LeeTyped /\ [Next]_vars => HistoryTyped'
<1> SUFFICES ASSUME HistoryTyped, LeeTyped, [Next]_vars PROVE HistoryTyped'
  OBVIOUS
<1>0. /\ main \in DOMAIN series /\ DOMAIN series \subseteq ValidSizes /\ clock \in Nat
      /\ deltas \in Seq(Int) /\ DOMAIN since = DOMAIN series /\ DOMAIN past = DOMAIN series
      /\ \A size \in DOMAIN series :
           /\ since[size] \in Seq(Trades)
           /\ past[size] \in [trades : Seq(Trades), forced : BOOLEAN]
  BY DEF HistoryTyped
<1>1. CASE UNCHANGED <<main, series, clock, since, past, deltas>>
  BY <1>1 DEF HistoryTyped
<1>2. CASE TradeUnclassified
  <2>1. PICK t \in Feed : t.type = "TRADE" /\ clock' = clock + t.gap
    BY <1>2 DEF TradeUnclassified
  <2>2. clock' \in Nat
    BY <1>0, <2>1, FeedTyped
  <2> QED
    BY <1>0, <1>2, <2>2 DEF TradeUnclassified, HistoryTyped
<1>3. CASE Trade
  <2>1. PICK x \in Trades :
           LET after == [size \in DOMAIN series |-> B!OnTick(series[size], x)]
               closed == {size \in DOMAIN series : after[size].current = << >>}
               trades == [size \in DOMAIN series |-> Append(since[size], x)]
           IN  /\ clock' = x.time /\ series' = after /\ main' = main
               /\ Remember(closed, trades, FALSE)
               /\ \/ /\ main \in closed
                     /\ Analyse(after[main].last[1], D!OnTick(delta, x), trades[main])
                  \/ /\ main \notin closed
                     /\ delta' = D!OnTick(delta, x)
                     /\ UNCHANGED <<zones, report, deltas>>
    BY <1>3, TradeStep
  <2> DEFINE after == [size \in DOMAIN series |-> B!OnTick(series[size], x)]
             closed == {size \in DOMAIN series : after[size].current = << >>}
             trades == [size \in DOMAIN series |-> Append(since[size], x)]
  <2>2. clock' = x.time /\ series' = after /\ main' = main /\ Remember(closed, trades, FALSE)
    BY <2>1
  <2>3. deltas' = deltas \/ deltas' = Append(deltas, B!DeltaOf(trades[main]))
    BY <2>1 DEF Analyse
  <2>4. clock' \in Nat /\ DOMAIN series' = DOMAIN series
    BY <2>2 DEF Trades
  <2>5. ASSUME NEW size \in DOMAIN series PROVE trades[size] \in Seq(Trades)
    <3>1. since[size] \in Seq(Trades)
      BY <1>0
    <3> QED
      BY <3>1, AppendProperties
  <2> HIDE DEF closed, trades
  <2>6. deltas' \in Seq(Int)
    <3>1. trades[main] \in Seq(Trades)
      BY <1>0, <2>5
    <3>2. Append(deltas, B!DeltaOf(trades[main])) \in Seq(Int)
      BY <1>0, <3>1, DeltasGrow
    <3> QED
      BY <1>0, <2>3, <3>2
  <2>7. /\ DOMAIN since' = DOMAIN series' /\ DOMAIN past' = DOMAIN series'
        /\ \A size \in DOMAIN series' :
              /\ since'[size] \in Seq(Trades)
              /\ past'[size] \in [trades : Seq(Trades), forced : BOOLEAN]
    BY <2>2, <2>4, <2>5, RememberTyped
  <2> QED
    BY <1>0, <2>2, <2>4, <2>6, <2>7 DEF HistoryTyped
<1>4. CASE SessionClose \/ SessionOpen
  <2>1. Remember(Pending, since, TRUE) /\ DOMAIN series' = DOMAIN series /\ UNCHANGED <<main, clock>>
    BY <1>4 DEF SessionClose, SessionOpen
  <2>2. /\ DOMAIN since' = DOMAIN series' /\ DOMAIN past' = DOMAIN series'
        /\ \A size \in DOMAIN series' :
              /\ since'[size] \in Seq(Trades)
              /\ past'[size] \in [trades : Seq(Trades), forced : BOOLEAN]
    BY <1>0, <2>1, RememberTyped
  <2>3. deltas' = deltas \/ deltas' = << >> \/ deltas' = Append(deltas, B!DeltaOf(since[main]))
    BY <1>4 DEF SessionClose, SessionOpen, Analyse
  <2>4. deltas' \in Seq(Int)
    <3>1. since[main] \in Seq(Trades) /\ << >> \in Seq(Int)
      BY <1>0, EmptySeq
    <3>2. Append(deltas, B!DeltaOf(since[main])) \in Seq(Int)
      BY <1>0, <3>1, DeltasGrow
    <3> QED
      BY <1>0, <2>3, <3>1, <3>2
  <2> QED
    BY <1>0, <2>1, <2>2, <2>4 DEF HistoryTyped
<1>5. CASE AddSeries
  <2>1. PICK size \in ValidSizes \ DOMAIN series :
          LET with == DOMAIN series \cup {size}
          IN  /\ series' = [s \in with |-> IF s = size THEN B!NewSeries(size) ELSE series[s]]
              /\ since' = [s \in with |-> IF s = size THEN << >> ELSE since[s]]
              /\ past' = [s \in with |-> IF s = size THEN NoPast ELSE past[s]]
    BY <1>5 DEF AddSeries
  <2>2. << >> \in Seq(Trades) /\ NoPast \in [trades : Seq(Trades), forced : BOOLEAN]
    BY EmptySeq DEF NoPast
  <2>3. /\ DOMAIN series' = DOMAIN series \cup {size} /\ DOMAIN since' = DOMAIN series'
        /\ DOMAIN past' = DOMAIN series'
        /\ \A s \in DOMAIN series' : since'[s] = (IF s = size THEN << >> ELSE since[s])
        /\ \A s \in DOMAIN series' : past'[s] = (IF s = size THEN NoPast ELSE past[s])
    BY <2>1
  <2>4. UNCHANGED <<main, clock, deltas>>
    BY <1>5 DEF AddSeries
  <2> QED
    BY <1>0, <2>2, <2>3, <2>4 DEF HistoryTyped
<1>6. CASE RemoveSeries
  <2>1. PICK size \in DOMAIN series \ {main} :
          LET without == DOMAIN series \ {size}
          IN  /\ series' = [s \in without |-> series[s]]
              /\ since' = [s \in without |-> since[s]]
              /\ past' = [s \in without |-> past[s]]
    BY <1>6 DEF RemoveSeries
  <2>2. UNCHANGED <<main, clock, deltas>>
    BY <1>6 DEF RemoveSeries
  <2> QED
    BY <1>0, <2>1, <2>2 DEF HistoryTyped
<1> QED
  BY <1>1, <1>2, <1>3, <1>4, <1>5, <1>6 DEF Next, Quote, vars

LEMMA HistoryStaysTyped == Spec => [](HistoryTyped /\ LeeTyped)
<1>1. LeeTyped /\ [Next]_vars => LeeTyped'
  BY LeeStep
<1> QED
  BY <1>1, HistoryStarts, HistoryStep, LeeStarts, PTL DEF Spec

---------------------------------------------------------------------------
(* The delta engine agrees with the bars of Main and the session.          *)
Reported(r, dl, ds) ==
  r # << >> =>
    LET d == Last(ds)
    IN  /\ r[1].filled.delta = d /\ r[1].filled.cumulative = dl.cumulative
        /\ \A direction \in {"LONG", "SHORT"} :
             <<"EXTREME_DELTA", direction>> \notin r[1].signals
        /\ \A kind \in {<<"DELTA_SURGE_BULLISH", "LONG">>, <<"DELTA_SURGE_BEARISH", "SHORT">>} :
             kind \in r[1].signals =>
               /\ (d > 0) <=> (kind[2] = "LONG")
               /\ \E i \in 1 .. Len(ds) - 1 : 3 * D!Magnitude(ds[i]) <= D!Magnitude(d)

DeltaAccounts ==
  /\ delta \in DeltaStates
  /\ BarAccount(delta, since[main])
  /\ SessionAccount(delta, deltas)
  /\ Reported(report, delta, deltas)

LEMMA FreshDelta ==
  /\ D!DeltaState \in DeltaStates /\ BarAccount(D!DeltaState, << >>)
  /\ SessionAccount(D!DeltaState, << >>)
<1>1. DOMAIN << >> = 1 .. 0
  OBVIOUS
<1>2. B!SumOf(<< >>) = 0
  BY <1>1, SumOfNone
<1>3. D!DeltaState \in DeltaStates
  BY DEF D!DeltaState, DeltaStates
<1>4. BarAccount(D!DeltaState, << >>)
  BY EmptyBarAccount DEF D!DeltaState
<1>5. SessionAccount(D!DeltaState, << >>)
  BY <1>2 DEF SessionAccount, D!DeltaState, Of, Averages
<1> QED
  BY <1>3, <1>4, <1>5

LEMMA AnalysisAccounted ==
  ASSUME NEW dl \in DeltaStates, NEW t \in Seq(Trades), NEW ds \in Seq(Int),
         NEW bar, NEW registry,
         BarAccount(dl, t), SessionAccount(dl, ds)
  PROVE  LET left == D!OnBarClose(dl)
             more == Append(ds, B!DeltaOf(t))
             r == <<[filled |-> D!FilledIn(dl),
                     signals |-> I!Signals(registry, bar) \cup D!DeltaSignals(bar, D!FilledIn(dl), left)]>>
         IN  /\ left \in DeltaStates /\ BarAccount(left, << >>)
             /\ SessionAccount(left, more) /\ Reported(r, left, more)
<1>n. PICK n \in Nat : n = Len(ds) /\ DOMAIN ds = 1 .. n
  BY LenProperties
<1> DEFINE filled == D!FilledIn(dl)
           left == D!OnBarClose(dl)
           d == B!DeltaOf(t)
           more == Append(ds, d)
           given == D!DeltaSignals(bar, filled, left)
           others == I!Signals(registry, bar)
           r == <<[filled |-> filled, signals |-> others \cup given]>>
<1>1. /\ left \in DeltaStates /\ BarAccount(left, << >>) /\ SessionAccount(left, more)
      /\ filled.delta = d /\ filled.cumulative = left.cumulative
  BY BarAccounted
<1>2. d \in Int
  BY DeltaOfTyped
<1>3. Last(more) = d /\ Len(more) = n + 1 /\ \A i \in 1 .. n : more[i] = ds[i]
  BY <1>n, <1>2, AppendProperties DEF Last
<1>4. /\ <<"EXTREME_DELTA", "LONG">> \notin given
      /\ <<"EXTREME_DELTA", "SHORT">> \notin given
      /\ <<"DELTA_SURGE_BULLISH", "LONG">> \in given => d > 0
      /\ <<"DELTA_SURGE_BEARISH", "SHORT">> \in given => ~(d > 0)
      /\ \A kind \in {<<"DELTA_SURGE_BULLISH", "LONG">>, <<"DELTA_SURGE_BEARISH", "SHORT">>} :
           kind \in given =>
             \E i \in DOMAIN ds : 3 * D!Magnitude(ds[i]) <= D!Magnitude(d)
  BY DeltaSignalsOf
<1>5. \A kind \in DeltaKinds : kind \notin others
  BY OtherSignals
<1>6. r # << >> /\ r[1].filled = filled /\ r[1].signals = others \cup given
  OBVIOUS
<1> HIDE DEF filled, left, d, more, given, others, r
<1>7. \A direction \in {"LONG", "SHORT"} : <<"EXTREME_DELTA", direction>> \notin r[1].signals
  BY <1>4, <1>5, <1>6 DEF DeltaKinds
<1>8. ASSUME NEW kind \in {<<"DELTA_SURGE_BULLISH", "LONG">>, <<"DELTA_SURGE_BEARISH", "SHORT">>},
             kind \in r[1].signals
      PROVE  /\ (d > 0) <=> (kind[2] = "LONG")
             /\ \E i \in 1 .. Len(more) - 1 : 3 * D!Magnitude(more[i]) <= D!Magnitude(d)
  <2>1. kind \in given
    BY <1>5, <1>6, <1>8 DEF DeltaKinds
  <2>2. PICK i \in 1 .. n : 3 * D!Magnitude(ds[i]) <= D!Magnitude(d)
    BY <1>n, <1>4, <2>1
  <2>3. i \in 1 .. Len(more) - 1 /\ more[i] = ds[i]
    BY <1>3
  <2>4. 3 * D!Magnitude(more[i]) <= D!Magnitude(d)
    BY <2>2, <2>3
  <2>5. (d > 0) <=> (kind[2] = "LONG")
    BY <1>4, <2>1
  <2> QED
    BY <2>3, <2>4, <2>5
<1>9. Reported(r, left, more)
  BY <1>1, <1>3, <1>6, <1>7, <1>8 DEF Reported
<1> QED
  BY <1>1, <1>9 DEF filled, left, d, more, given, others, r

---------------------------------------------------------------------------
(* The rank of an element: how many have a smaller value.                  *)
Below(S, v, i) == {j \in S : v[j] < v[i]}

LEMMA Ranks ==
  ASSUME NEW n \in Nat, NEW S, IsFiniteSet(S), Cardinality(S) = n,
         NEW v, \A i \in S : v[i] \in Int, \A i, j \in S : v[i] = v[j] => i = j
  PROVE  /\ \A i \in S : Cardinality(Below(S, v, i)) \in 0 .. n - 1
         /\ \A i, j \in S : v[i] < v[j] <=> Cardinality(Below(S, v, i)) < Cardinality(Below(S, v, j))
         /\ \A k \in 1 .. n : \E i \in S : Cardinality(Below(S, v, i)) = k - 1
<1> DEFINE b(i) == Below(S, v, i)
<1>1. \A i \in S : IsFiniteSet(b(i)) /\ Cardinality(b(i)) \in Nat /\ b(i) \in SUBSET S
  BY FS_Subset, FS_CardinalityType DEF Below
<1>2. ASSUME NEW i \in S PROVE Cardinality(b(i)) \in 0 .. n - 1
  <2>1. b(i) \in SUBSET (S \ {i})
    BY DEF Below
  <2>2. IsFiniteSet(S \ {i}) /\ Cardinality(S \ {i}) = n - 1
    BY FS_RemoveElement
  <2>3. Cardinality(b(i)) <= n - 1
    BY <2>1, <2>2, FS_Subset
  <2> QED
    BY <1>1, <2>3
<1>3. ASSUME NEW i \in S, NEW j \in S, v[i] <= v[j]
      PROVE  Cardinality(b(i)) <= Cardinality(b(j))
  <2>1. b(i) \in SUBSET b(j)
    BY <1>3 DEF Below
  <2> QED
    BY <1>1, <2>1, FS_Subset
<1>4. ASSUME NEW i \in S, NEW j \in S, v[i] < v[j]
      PROVE  Cardinality(b(i)) < Cardinality(b(j))
  <2>1. b(i) \in SUBSET b(j) /\ i \in b(j) /\ i \notin b(i)
    BY <1>4 DEF Below
  <2>2. Cardinality(b(i)) <= Cardinality(b(j)) /\ Cardinality(b(i)) # Cardinality(b(j))
    BY <1>1, <2>1, FS_Subset
  <2> QED
    BY <1>1, <2>2
<1>5. \A i, j \in S : v[i] < v[j] <=> Cardinality(b(i)) < Cardinality(b(j))
  <2> HIDE DEF b
  <2> QED
    BY <1>1, <1>3, <1>4
<1>6. ASSUME NEW k \in 1 .. n PROVE \E i \in S : Cardinality(b(i)) = k - 1
  <2> DEFINE T == 0 .. n - 1
             f == [i \in S |-> Cardinality(b(i))]
  <2>1. IsFiniteSet(T) /\ Cardinality(T) = n
    BY FS_Interval
  <2>2. \A i, j \in S : v[i] # v[j] => f[i] # f[j]
    <3> HIDE DEF b
    <3> QED
      BY <1>1, <1>4
  <2>3. f \in [S -> T]
    BY <1>2
  <2> HIDE DEF f, T
  <2>4. f \in Injection(S, T)
    BY <2>2, <2>3 DEF Injection, IsInjective
  <2>5. f \in Surjection(S, T)
    BY <2>1, <2>4, FS_Injection
  <2>6. k - 1 \in T
    BY DEF T
  <2>7. PICK i \in S : f[i] = k - 1
    BY <2>5, <2>6 DEF Surjection
  <2> QED
    BY <2>7 DEF f
<1> HIDE DEF b
<1>7. QED
  BY <1>2, <1>5, <1>6 DEF b

Level == [price : Nat \ {0}, bid : Nat, ask : Nat]
Distinct(levels) == \A i, j \in DOMAIN levels : levels[i].price = levels[j].price => i = j

LEMMA LevelFacts ==
  ASSUME NEW levels \in Seq(Level)
  PROVE  /\ Len(levels) \in Nat /\ DOMAIN levels = 1 .. Len(levels)
         /\ \A i \in 1 .. Len(levels) :
              /\ levels[i] \in Level /\ levels[i].price \in Nat \ {0}
              /\ levels[i].bid \in Nat /\ levels[i].ask \in Nat
<1>1. Len(levels) \in Nat /\ DOMAIN levels = 1 .. Len(levels) /\ \A i \in 1 .. Len(levels) : levels[i] \in Level
  BY LenProperties, ElementOfSeq
<1> QED
  BY <1>1 DEF Level

LEMMA SameCardinality == \A S : B!Cardinality(S) = Cardinality(S) /\ I!Cardinality(S) = Cardinality(S)
BY Zenon DEF B!Cardinality, I!Cardinality, Cardinality

Ascending(levels) == \A i, j \in DOMAIN levels : i < j => levels[i].price < levels[j].price

LEMMA IsSequence ==
  ASSUME NEW n \in Nat, NEW s, DOMAIN s = 1 .. n, s = [k \in 1 .. n |-> s[k]],
         NEW S, \A k \in 1 .. n : s[k] \in S
  PROVE  s \in Seq(S) /\ Len(s) = n
<1>1. [k \in 1 .. n |-> s[k]] \in Seq(S)
  BY IsASeq
<1> QED
  BY <1>1, LenProperties

LEMMA ByPriceSorts ==
  ASSUME NEW levels \in Seq(Level), Distinct(levels)
  PROVE  LET sorted == B!ByPrice(levels)
         IN  /\ sorted \in Seq(Level) /\ Len(sorted) = Len(levels)
             /\ Ascending(sorted) /\ Range(sorted) = Range(levels)
<1>n. PICK n \in Nat : n = Len(levels)
  BY LevelFacts
<1> DEFINE S == 1 .. n
           v == [i \in S |-> levels[i].price]
           r(i) == Cardinality(Below(S, v, i))
           at(k) == CHOOSE i \in S : r(i) = k - 1
           sorted == [k \in S |-> levels[at(k)]]
<1>1. /\ DOMAIN levels = S /\ IsFiniteSet(S) /\ Cardinality(S) = n
      /\ \A i \in S : levels[i] \in Level /\ v[i] = levels[i].price /\ v[i] \in Int
      /\ \A i, j \in S : v[i] = v[j] => i = j
  <2>1. DOMAIN levels = S /\ \A i \in S : levels[i] \in Level /\ levels[i].price \in Nat \ {0}
    BY <1>n, LevelFacts
  <2>2. IsFiniteSet(S) /\ Cardinality(S) = n
    BY FS_Interval
  <2>3. \A i, j \in S : levels[i].price = levels[j].price => i = j
    BY <2>1 DEF Distinct
  <2> HIDE DEF S
  <2> QED
    BY <2>1, <2>2, <2>3
<1>2. \A i \in S : {j \in DOMAIN levels : levels[j].price < levels[i].price} = Below(S, v, i)
  BY <1>1 DEF Below
<1>3. B!ByPrice(levels) = sorted
  <2>1. B!ByPrice(levels) =
          [k \in DOMAIN levels |->
             levels[CHOOSE i \in DOMAIN levels :
                      B!Cardinality({j \in DOMAIN levels : levels[j].price < levels[i].price}) = k - 1]]
    BY Zenon DEF B!ByPrice
  <2>2. \A i \in S : B!Cardinality({j \in DOMAIN levels : levels[j].price < levels[i].price}) = r(i)
    BY <1>2, SameCardinality
  <2> DEFINE c(k) == CHOOSE i \in DOMAIN levels :
                      B!Cardinality({j \in DOMAIN levels : levels[j].price < levels[i].price}) = k - 1
  <2> HIDE DEF r, S
  <2>3. ASSUME NEW k PROVE c(k) = at(k)
    BY <1>1, <2>2
  <2>4. B!ByPrice(levels) = [k \in S |-> levels[c(k)]]
    BY <1>1, <2>1
  <2> HIDE DEF c, at
  <2> QED
    BY <2>3, <2>4
<1> HIDE DEF S, v
<1>4. /\ \A i \in S : r(i) \in 0 .. n - 1
      /\ \A i, j \in S : v[i] < v[j] <=> r(i) < r(j)
      /\ \A k \in 1 .. n : \E i \in S : r(i) = k - 1
  BY <1>1, Ranks
<1> HIDE DEF r
<1>5. \A k \in S : at(k) \in S /\ r(at(k)) = k - 1
  BY <1>4 DEF S
<1> HIDE DEF at
<1>6. DOMAIN sorted = 1 .. n /\ \A k \in 1 .. n : sorted[k] = levels[at(k)] /\ sorted[k] \in Level
  BY <1>1, <1>5 DEF S
<1>7. sorted = [k \in 1 .. n |-> sorted[k]]
  BY DEF S
<1>8. ASSUME NEW i \in S PROVE \E k \in S : sorted[k] = levels[i]
  <2>1. PICK k \in S : k = r(i) + 1
    BY <1>4 DEF S
  <2>2. r(at(k)) = r(i) /\ at(k) \in S
    BY <1>4, <1>5, <2>1 DEF S
  <2>3. ~(v[i] < v[at(k)]) /\ ~(v[at(k)] < v[i])
    BY <1>4, <2>2
  <2>4. at(k) = i
    BY <1>1, <2>2, <2>3
  <2> QED
    BY <2>4
<1>9. \A i, j \in S : i < j => sorted[i].price < sorted[j].price
  <2> SUFFICES ASSUME NEW i \in S, NEW j \in S, i < j PROVE sorted[i].price < sorted[j].price
    OBVIOUS
  <2>1. r(at(i)) < r(at(j)) /\ at(i) \in S /\ at(j) \in S
    BY <1>5 DEF S
  <2>2. v[at(i)] < v[at(j)]
    BY <1>4, <2>1
  <2> QED
    BY <1>1, <2>1, <2>2
<1>10. \A k \in S : \E i \in S : sorted[k] = levels[i]
  BY <1>5
<1> HIDE DEF sorted
<1>11. sorted \in Seq(Level) /\ Len(sorted) = n
  <2>1. \A k \in 1 .. n : sorted[k] \in Level
    BY <1>6
  <2> QED
    BY <1>6, <1>7, <2>1, IsSequence
<1>12. Range(sorted) = Range(levels)
  <2>1. DOMAIN sorted = S /\ DOMAIN levels = S
    BY <1>1, <1>6 DEF S
  <2> QED
    BY <2>1, <1>8, <1>10 DEF Range
<1>13. Ascending(sorted)
  BY <1>6, <1>9 DEF Ascending, S
<1> QED
  BY <1>n, <1>3, <1>11, <1>12, <1>13

---------------------------------------------------------------------------
(* The levels of a bar hold the volumes of its trades at their prices.     *)
LevelsMatch(levels, t) ==
  /\ levels \in Seq(Level) /\ Distinct(levels)
  /\ \A i \in DOMAIN t : \E j \in DOMAIN levels : levels[j].price = t[i].price
  /\ \A j \in DOMAIN levels :
       /\ \E i \in DOMAIN t : t[i].price = levels[j].price
       /\ levels[j].bid = B!VolumeAt(t, levels[j].price, "BID")
       /\ levels[j].ask = B!VolumeAt(t, levels[j].price, "ASK")

Opened(levels, x) ==
  IF \E i \in DOMAIN levels : levels[i].price = x.price THEN levels
  ELSE Append(levels, [price |-> x.price, bid |-> 0, ask |-> 0])

Added(level, x) ==
  IF level.price # x.price THEN level
  ELSE IF x.side = "ASK" THEN [level EXCEPT !.ask = @ + x.volume]
  ELSE [level EXCEPT !.bid = @ + x.volume]

LEMMA AddedTo ==
  ASSUME NEW level \in Level, NEW x \in Trades
  PROVE  /\ Added(level, x) \in Level /\ Added(level, x).price = level.price
         /\ Added(level, x).bid = level.bid + (IF x.price = level.price /\ x.side = "BID" THEN x.volume ELSE 0)
         /\ Added(level, x).ask = level.ask + (IF x.price = level.price /\ x.side = "ASK" THEN x.volume ELSE 0)
<1>1. x.volume \in Nat /\ x.side \in Sides /\ level.bid \in Nat /\ level.ask \in Nat
  BY DEF Trades, Level
<1>2. CASE level.price # x.price
  BY <1>1, <1>2 DEF Added
<1>3. CASE level.price = x.price /\ x.side = "ASK"
  BY <1>1, <1>3 DEF Added, Level
<1>4. CASE level.price = x.price /\ x.side = "BID"
  BY <1>1, <1>4 DEF Added, Level
<1> QED
  BY <1>1, <1>2, <1>3, <1>4 DEF Sides

(* Before the trade is added it has a level, empty when it is a new one.   *)
Ready(all, t, x) ==
  /\ all \in Seq(Level) /\ Distinct(all)
  /\ \E j \in DOMAIN all : all[j].price = x.price
  /\ \A i \in DOMAIN t : \E j \in DOMAIN all : all[j].price = t[i].price
  /\ \A j \in DOMAIN all :
       /\ all[j].price = x.price \/ \E i \in DOMAIN t : t[i].price = all[j].price
       /\ all[j].bid = B!VolumeAt(t, all[j].price, "BID")
       /\ all[j].ask = B!VolumeAt(t, all[j].price, "ASK")

LEMMA OpenedHolds ==
  ASSUME NEW t \in Seq(Trades), NEW levels, LevelsMatch(levels, t), NEW x \in Trades,
         NEW all, all = Opened(levels, x)
  PROVE  Ready(all, t, x)
<1>1. CASE \E i \in DOMAIN levels : levels[i].price = x.price
  <2>1. all = levels
    BY <1>1 DEF Opened
  <2> QED
    BY <1>1, <2>1 DEF LevelsMatch, Ready
<1>2. CASE ~ \E i \in DOMAIN levels : levels[i].price = x.price
  <2> DEFINE new == [price |-> x.price, bid |-> 0, ask |-> 0]
             more == Append(levels, new)
  <2>1. all = more
    BY <1>2 DEF Opened
  <2>2. x.price \in Nat \ {0}
    BY DEF Trades
  <2>3. new \in Level /\ new.price = x.price /\ new.bid = 0 /\ new.ask = 0
    BY <2>2 DEF Level
  <2>4. levels \in Seq(Level) /\ Distinct(levels)
    BY DEF LevelsMatch
  <2>5. PICK n \in Nat : n = Len(levels) /\ DOMAIN levels = 1 .. n
    BY <2>4, LevelFacts
  <2> HIDE DEF new
  <2>6. /\ all \in Seq(Level) /\ DOMAIN all = 1 .. n + 1
        /\ all[n + 1] = new /\ \A i \in 1 .. n : all[i] = levels[i]
    BY <2>1, <2>3, <2>4, <2>5, AppendProperties, LenProperties
  <2> HIDE DEF more
  <2>7. Distinct(all)
    BY <1>2, <2>3, <2>4, <2>5, <2>6 DEF Distinct
  <2>8. \A i \in DOMAIN t : t[i].price # x.price
    BY <1>2 DEF LevelsMatch
  <2>9. B!VolumeAt(t, x.price, "BID") = 0 /\ B!VolumeAt(t, x.price, "ASK") = 0
    BY <2>8, VolumeAtNone
  <2>10. \A i \in DOMAIN t : \E j \in 1 .. n : levels[j].price = t[i].price
    BY <2>5 DEF LevelsMatch
  <2>11. \A i \in DOMAIN t : \E j \in DOMAIN all : all[j].price = t[i].price
    <3> SUFFICES ASSUME NEW i \in DOMAIN t
                 PROVE  \E j \in DOMAIN all : all[j].price = t[i].price
      OBVIOUS
    <3>1. PICK j \in 1 .. n : levels[j].price = t[i].price
      BY <2>10
    <3>2. all[j] = levels[j] /\ j \in DOMAIN all
      BY <2>6
    <3> QED
      BY <3>1, <3>2
  <2>12. ASSUME NEW j \in DOMAIN all
         PROVE  /\ all[j].price = x.price \/ \E i \in DOMAIN t : t[i].price = all[j].price
                /\ all[j].bid = B!VolumeAt(t, all[j].price, "BID")
                /\ all[j].ask = B!VolumeAt(t, all[j].price, "ASK")
    <3>1. CASE j = n + 1
      BY <2>3, <2>6, <2>9, <3>1
    <3>2. CASE j \in 1 .. n
      <4>1. /\ \E i \in DOMAIN t : t[i].price = levels[j].price
            /\ levels[j].bid = B!VolumeAt(t, levels[j].price, "BID")
            /\ levels[j].ask = B!VolumeAt(t, levels[j].price, "ASK")
        BY <2>5, <3>2 DEF LevelsMatch
      <4> QED
        BY <2>6, <3>2, <4>1
    <3> QED
      BY <2>5, <2>6, <3>1, <3>2
  <2>13. \E j \in DOMAIN all : all[j].price = x.price
    BY <2>3, <2>6
  <2> QED
    BY <2>6, <2>7, <2>11, <2>12, <2>13 DEF Ready
<1> QED
  BY <1>1, <1>2

LEMMA LevelsGrow ==
  ASSUME NEW t \in Seq(Trades), NEW levels, LevelsMatch(levels, t), NEW x \in Trades
  PROVE  LevelsMatch(B!AddToLevels(levels, x), Append(t, x))
<1>0. PICK all : all = Opened(levels, x)
  OBVIOUS
<1> DEFINE new == [i \in DOMAIN all |-> Added(all[i], x)]
           u == Append(t, x)
<1>r. Ready(all, t, x)
  BY <1>0, OpenedHolds
<1>1. /\ all \in Seq(Level) /\ Distinct(all)
      /\ \E j \in DOMAIN all : all[j].price = x.price
      /\ \A i \in DOMAIN t : \E j \in DOMAIN all : all[j].price = t[i].price
      /\ \A j \in DOMAIN all :
           /\ all[j].price = x.price \/ \E i \in DOMAIN t : t[i].price = all[j].price
           /\ all[j].bid = B!VolumeAt(t, all[j].price, "BID")
           /\ all[j].ask = B!VolumeAt(t, all[j].price, "ASK")
  BY <1>r DEF Ready
<1>2. B!AddToLevels(levels, x) = new
  BY <1>0, Zenon DEF B!AddToLevels, Opened, Added
<1>3. PICK n \in Nat : DOMAIN all = 1 .. n /\ \A i \in 1 .. n : all[i] \in Level
  BY <1>1, LevelFacts
<1>4. /\ DOMAIN new = 1 .. n
      /\ \A i \in 1 .. n : new[i] = Added(all[i], x) /\ new[i] \in Level /\ new[i].price = all[i].price
  BY <1>3, AddedTo
<1>5. new = [i \in 1 .. n |-> new[i]]
  BY <1>3
<1>6. PICK m \in Nat : m = Len(t) /\ DOMAIN t = 1 .. m
  BY TradeFacts
<1>7. DOMAIN u = 1 .. m + 1 /\ u[m + 1] = x /\ \A i \in 1 .. m : u[i] = t[i]
  BY <1>6, OneMore
<1>8. ASSUME NEW j \in 1 .. n
      PROVE  /\ new[j].bid = B!VolumeAt(u, new[j].price, "BID")
             /\ new[j].ask = B!VolumeAt(u, new[j].price, "ASK")
  <2> DEFINE p == all[j].price
  <2>1. /\ new[j].bid = all[j].bid + (IF x.price = p /\ x.side = "BID" THEN x.volume ELSE 0)
        /\ new[j].ask = all[j].ask + (IF x.price = p /\ x.side = "ASK" THEN x.volume ELSE 0)
    BY <1>3, <1>4, AddedTo
  <2>2. all[j].bid = B!VolumeAt(t, p, "BID") /\ all[j].ask = B!VolumeAt(t, p, "ASK")
    BY <1>1, <1>3
  <2>3. /\ B!VolumeAt(u, p, "BID") = B!VolumeAt(t, p, "BID")
             + (IF x.price = p /\ x.side = "BID" THEN x.volume ELSE 0)
        /\ B!VolumeAt(u, p, "ASK") = B!VolumeAt(t, p, "ASK")
             + (IF x.price = p /\ x.side = "ASK" THEN x.volume ELSE 0)
    BY VolumeAtMore
  <2>4. new[j].price = p
    BY <1>4
  <2> HIDE DEF new, u, p
  <2> QED
    BY <2>1, <2>2, <2>3, <2>4
<1> HIDE DEF new, u
<1>9. new \in Seq(Level)
  <2>1. \A i \in 1 .. n : new[i] \in Level
    BY <1>4
  <2> QED
    BY <1>4, <1>5, <2>1, IsSequence
<1>10. Distinct(new)
  BY <1>1, <1>3, <1>4 DEF Distinct
<1>11. \A i \in DOMAIN u : \E j \in DOMAIN new : new[j].price = u[i].price
  <2> SUFFICES ASSUME NEW i \in DOMAIN u PROVE \E j \in DOMAIN new : new[j].price = u[i].price
    OBVIOUS
  <2>1. CASE i = m + 1
    BY <1>1, <1>3, <1>4, <1>7, <2>1
  <2>2. CASE i \in 1 .. m
    <3>1. u[i] = t[i] /\ i \in DOMAIN t
      BY <1>6, <1>7, <2>2
    <3>2. \E j \in 1 .. n : all[j].price = u[i].price
      BY <1>1, <1>3, <3>1
    <3> QED
      BY <1>4, <3>2
  <2> QED
    BY <1>7, <2>1, <2>2
<1>12. \A j \in DOMAIN new : \E i \in DOMAIN u : u[i].price = new[j].price
  <2> SUFFICES ASSUME NEW j \in 1 .. n PROVE \E i \in 1 .. m + 1 : u[i].price = all[j].price
    BY <1>4, <1>7
  <2>1. all[j].price = x.price \/ \E i \in 1 .. m : t[i].price = all[j].price
    BY <1>1, <1>3, <1>6
  <2> QED
    BY <1>7, <2>1
<1>13. \A j \in DOMAIN new :
         /\ new[j].bid = B!VolumeAt(u, new[j].price, "BID")
         /\ new[j].ask = B!VolumeAt(u, new[j].price, "ASK")
  BY <1>4, <1>8
<1> QED
  BY <1>2, <1>9, <1>10, <1>11, <1>12, <1>13 DEF LevelsMatch, u

LEMMA LevelsSort ==
  ASSUME NEW t, NEW levels, LevelsMatch(levels, t)
  PROVE  LevelsMatch(B!ByPrice(levels), t) /\ Ascending(B!ByPrice(levels))
<1> DEFINE sorted == B!ByPrice(levels)
<1>1. /\ sorted \in Seq(Level) /\ Ascending(sorted) /\ Range(sorted) = Range(levels)
  BY ByPriceSorts DEF LevelsMatch
<1> HIDE DEF sorted
<1>2. PICK n \in Nat : DOMAIN sorted = 1 .. n /\ \A i \in 1 .. n : sorted[i].price \in Nat \ {0}
  BY <1>1, LevelFacts
<1>3. Distinct(sorted)
  BY <1>1, <1>2 DEF Distinct, Ascending
<1>4. /\ \A j \in DOMAIN levels : \E k \in DOMAIN sorted : sorted[k] = levels[j]
      /\ \A k \in DOMAIN sorted : \E j \in DOMAIN levels : sorted[k] = levels[j]
  BY <1>1 DEF Range
<1>5. LevelsMatch(sorted, t)
  <2>1. \A i \in DOMAIN t : \E k \in DOMAIN sorted : sorted[k].price = t[i].price
    <3> SUFFICES ASSUME NEW i \in DOMAIN t PROVE \E k \in DOMAIN sorted : sorted[k].price = t[i].price
      OBVIOUS
    <3>1. PICK j \in DOMAIN levels : levels[j].price = t[i].price
      BY DEF LevelsMatch
    <3> QED
      BY <1>4, <3>1
  <2>2. ASSUME NEW k \in DOMAIN sorted
        PROVE  /\ \E i \in DOMAIN t : t[i].price = sorted[k].price
               /\ sorted[k].bid = B!VolumeAt(t, sorted[k].price, "BID")
               /\ sorted[k].ask = B!VolumeAt(t, sorted[k].price, "ASK")
    <3>1. PICK j \in DOMAIN levels : sorted[k] = levels[j]
      BY <1>4
    <3>2. /\ \E i \in DOMAIN t : t[i].price = levels[j].price
          /\ levels[j].bid = B!VolumeAt(t, levels[j].price, "BID")
          /\ levels[j].ask = B!VolumeAt(t, levels[j].price, "ASK")
      BY DEF LevelsMatch
    <3> QED
      BY <3>1, <3>2
  <2> QED
    BY <1>1, <1>3, <2>1, <2>2 DEF LevelsMatch
<1> QED
  BY <1>1, <1>5 DEF sorted

(* What the footprint says of the levels.                                  *)
LEMMA LevelsSay ==
  ASSUME NEW t \in Seq(Trades), NEW levels, LevelsMatch(levels, t)
  PROVE  LET prices == {t[i].price : i \in DOMAIN t}
         IN  /\ Len(levels) = B!Cardinality(prices)
             /\ ToSet(levels) = {[price |-> p, bid |-> B!VolumeAt(t, p, "BID"),
                                  ask |-> B!VolumeAt(t, p, "ASK")] : p \in prices}
<1> DEFINE prices == {t[i].price : i \in DOMAIN t}
<1>1. PICK n \in Nat : n = Len(levels) /\ DOMAIN levels = 1 .. n /\ \A i \in 1 .. n : levels[i] \in Level
  BY LevelFacts DEF LevelsMatch
<1>2. Distinct(levels)
  BY DEF LevelsMatch
<1>3. \A p : p \in prices <=> \E j \in 1 .. n : levels[j].price = p
  <2>1. /\ \A i \in DOMAIN t : \E j \in 1 .. n : levels[j].price = t[i].price
        /\ \A j \in 1 .. n : \E i \in DOMAIN t : t[i].price = levels[j].price
    BY <1>1 DEF LevelsMatch
  <2> SUFFICES ASSUME NEW p PROVE p \in prices <=> \E j \in 1 .. n : levels[j].price = p
    OBVIOUS
  <2>2. ASSUME p \in prices PROVE \E j \in 1 .. n : levels[j].price = p
    <3>1. PICK i \in DOMAIN t : t[i].price = p
      BY <2>2
    <3> QED
      BY <2>1, <3>1
  <2>3. ASSUME NEW j \in 1 .. n, levels[j].price = p PROVE p \in prices
    <3>1. PICK i \in DOMAIN t : t[i].price = levels[j].price
      BY <2>1
    <3> QED
      BY <2>3, <3>1
  <2> QED
    BY <2>2, <2>3
<1>4. B!Cardinality(prices) = n
  <2> DEFINE f == [j \in 1 .. n |-> levels[j].price]
  <2> HIDE DEF prices
  <2>1. f \in [1 .. n -> prices]
    BY <1>3
  <2>2. \A i, j \in 1 .. n : f[i] = f[j] => i = j
    BY <1>1, <1>2 DEF Distinct
  <2>3. \A p \in prices : \E j \in 1 .. n : f[j] = p
    BY <1>3
  <2> HIDE DEF f
  <2>4. f \in Bijection(1 .. n, prices)
    BY <2>1, <2>2, <2>3 DEF Bijection, Injection, Surjection, IsInjective
  <2>5. ExistsBijection(1 .. n, prices)
    BY <2>4 DEF ExistsBijection
  <2> QED
    BY <2>5, FS_CountingElements, SameCardinality
<1>5. \A j \in 1 .. n :
        levels[j] = [price |-> levels[j].price, bid |-> B!VolumeAt(t, levels[j].price, "BID"),
                     ask |-> B!VolumeAt(t, levels[j].price, "ASK")]
  BY <1>1 DEF LevelsMatch, Level
<1>6. ToSet(levels) = {levels[j] : j \in 1 .. n}
  BY <1>1 DEF ToSet
<1> HIDE DEF prices
<1>7. ToSet(levels) = {[price |-> p, bid |-> B!VolumeAt(t, p, "BID"),
                        ask |-> B!VolumeAt(t, p, "ASK")] : p \in prices}
  <2> DEFINE of(p) == [price |-> p, bid |-> B!VolumeAt(t, p, "BID"), ask |-> B!VolumeAt(t, p, "ASK")]
  <2>1. \A j \in 1 .. n : levels[j] = of(levels[j].price)
    BY <1>5
  <2> HIDE DEF of
  <2>2. \A p \in prices : \E j \in 1 .. n : of(p) = levels[j]
    BY <1>3, <2>1
  <2>3. \A j \in 1 .. n : levels[j].price \in prices
    BY <1>3
  <2>4. {levels[j] : j \in 1 .. n} = {of(p) : p \in prices}
    BY <2>1, <2>2, <2>3
  <2> QED
    BY <1>6, <2>4 DEF of
<1> QED
  BY <1>1, <1>4, <1>7 DEF prices

---------------------------------------------------------------------------
(* A bar follows its trades.                                               *)
OpenBars == [open : Nat, high : Nat, low : Nat, close : Nat, opened : Nat, closed : Nat,
             volume : Nat, levels : Seq(Level), poc : Nat]

Between(bar, t) ==
  \A i \in DOMAIN t : bar.low <= t[i].price /\ t[i].price <= bar.high

Priced(price, t) == \E i \in DOMAIN t : t[i].price = price

(* All but the close, which the next trade sets: the bar when the trade    *)
(* arrives, which is a new one when there is none.                         *)
Awaits(bar, t, u) ==
  /\ bar \in OpenBars /\ LevelsMatch(bar.levels, t)
  /\ bar.volume = B!VolumeOf(t, "ASK") + B!VolumeOf(t, "BID")
  /\ bar.open = u[1].price /\ bar.opened = u[1].time
  /\ Between(bar, t) /\ Priced(bar.high, u) /\ Priced(bar.low, u)

Follows(bar, t) == t # << >> /\ Awaits(bar, t, t) /\ bar.close = t[Len(t)].price

LEMMA BarFacts ==
  ASSUME NEW bar \in OpenBars
  PROVE  /\ bar.open \in Nat /\ bar.high \in Nat /\ bar.low \in Nat /\ bar.close \in Nat
         /\ bar.opened \in Nat /\ bar.volume \in Nat /\ bar.levels \in Seq(Level)
BY DEF OpenBars

LEMMA NewBarAwaits ==
  ASSUME NEW x \in Trades
  PROVE  Awaits(B!OpenNewBar(x), << >>, Append(<< >>, x))
<1> DEFINE bar == B!OpenNewBar(x)
<1>1. x.price \in Nat \ {0} /\ x.time \in Nat
  BY DEF Trades
<1>2. << >> \in Seq(Level) /\ << >> \in Seq(Trades)
  BY EmptySeq
<1>3. /\ bar \in OpenBars /\ bar.open = x.price /\ bar.opened = x.time /\ bar.volume = 0
      /\ bar.high = x.price /\ bar.low = x.price /\ bar.levels = << >>
  BY <1>1, <1>2 DEF B!OpenNewBar, OpenBars
<1>4. LevelsMatch(<< >>, << >>)
  BY <1>2 DEF LevelsMatch, Distinct
<1>5. B!VolumeOf(<< >>, "ASK") = 0 /\ B!VolumeOf(<< >>, "BID") = 0
  BY VolumeOfNone
<1>6. DOMAIN Append(<< >>, x) = 1 .. 1 /\ Append(<< >>, x)[1] = x
  BY <1>2, OneMore
<1> HIDE DEF bar
<1> QED
  BY <1>3, <1>4, <1>5, <1>6 DEF Awaits, Between, Priced, bar

LEMMA AwaitsMore ==
  ASSUME NEW t \in Seq(Trades), NEW bar, Follows(bar, t), NEW x \in Trades
  PROVE  Awaits(bar, t, Append(t, x))
<1>1. PICK n \in Nat : n = Len(t) /\ DOMAIN t = 1 .. n
  BY TradeFacts
<1>2. n # 0
  BY <1>1, EmptySeq DEF Follows
<1>3. DOMAIN Append(t, x) = 1 .. n + 1 /\ \A i \in 1 .. n : Append(t, x)[i] = t[i]
  BY <1>1, OneMore
<1>4. Append(t, x)[1] = t[1]
  BY <1>2, <1>3
<1> QED
  BY <1>1, <1>3, <1>4 DEF Follows, Awaits, Priced

LEMMA BarGrows ==
  ASSUME NEW t \in Seq(Trades), NEW x \in Trades, NEW bar, Awaits(bar, t, Append(t, x))
  PROVE  Follows(B!Accumulate(bar, x), Append(t, x))
<1> DEFINE u == Append(t, x)
           new == B!Accumulate(bar, x)
           high == IF x.price > bar.high THEN x.price ELSE bar.high
           low == IF x.price < bar.low THEN x.price ELSE bar.low
           levels == B!AddToLevels(bar.levels, x)
           volume == bar.volume + x.volume
<1>1. PICK n \in Nat : n = Len(t) /\ DOMAIN t = 1 .. n
  BY TradeFacts
<1>2. /\ u \in Seq(Trades) /\ Len(u) = n + 1 /\ DOMAIN u = 1 .. n + 1 /\ u[n + 1] = x
      /\ \A i \in 1 .. n : u[i] = t[i]
  BY <1>1, OneMore
<1>3. bar \in OpenBars
  BY DEF Awaits
<1>4. /\ x.price \in Nat /\ x.volume \in Nat /\ x.side \in Sides
      /\ bar.high \in Nat /\ bar.low \in Nat /\ bar.volume \in Nat
  BY <1>3, BarFacts DEF Trades
<1>5. LevelsMatch(levels, u)
  BY LevelsGrow DEF Awaits
<1>6. levels \in Seq(Level)
  BY <1>5 DEF LevelsMatch
<1>7. high \in Nat /\ low \in Nat /\ volume \in Nat
  BY <1>4
<1>8. B!Accumulate(bar, x) =
        [bar EXCEPT !.levels = levels, !.volume = volume,
                    !.high = high, !.low = low, !.close = x.price]
  BY Zenon DEF B!Accumulate
<1> HIDE DEF u, levels, high, low, volume
<1>9. /\ new \in OpenBars /\ new.levels = levels /\ new.volume = volume
      /\ new.high = high /\ new.low = low /\ new.close = x.price
      /\ new.open = bar.open /\ new.opened = bar.opened
  <2>1. x.price \in Nat
    BY <1>4
  <2>2. new \in OpenBars
    BY <1>3, <1>6, <1>7, <1>8, <2>1 DEF OpenBars
  <2>3. /\ new.levels = levels /\ new.volume = volume
        /\ new.high = high /\ new.low = low /\ new.close = x.price
        /\ new.open = bar.open /\ new.opened = bar.opened
    BY <1>3, <1>8 DEF OpenBars
  <2> QED
    BY <2>2, <2>3
<1> HIDE DEF new
<1>10. new.volume = B!VolumeOf(u, "ASK") + B!VolumeOf(u, "BID")
  <2>1. /\ B!VolumeOf(u, "ASK") = B!VolumeOf(t, "ASK") + (IF x.side = "ASK" THEN x.volume ELSE 0)
        /\ B!VolumeOf(u, "BID") = B!VolumeOf(t, "BID") + (IF x.side = "BID" THEN x.volume ELSE 0)
    BY VolumeOfMore DEF u
  <2>2. B!VolumeOf(t, "ASK") \in Int /\ B!VolumeOf(t, "BID") \in Int
    BY VolumeTyped
  <2>3. bar.volume = B!VolumeOf(t, "ASK") + B!VolumeOf(t, "BID")
    BY DEF Awaits
  <2>4. new.volume = bar.volume + x.volume /\ x.volume \in Int
    BY <1>4, <1>9 DEF volume
  <2>5. CASE x.side = "ASK"
    <3>1. B!VolumeOf(u, "ASK") = B!VolumeOf(t, "ASK") + x.volume
      BY <2>1, <2>5
    <3>2. B!VolumeOf(u, "BID") = B!VolumeOf(t, "BID") + 0
      BY <2>1, <2>5
    <3> QED
      BY <2>2, <2>3, <2>4, <3>1, <3>2
  <2>6. CASE x.side = "BID"
    <3>1. B!VolumeOf(u, "BID") = B!VolumeOf(t, "BID") + x.volume
      BY <2>1, <2>6
    <3>2. B!VolumeOf(u, "ASK") = B!VolumeOf(t, "ASK") + 0
      BY <2>1, <2>6
    <3> QED
      BY <2>2, <2>3, <2>4, <3>1, <3>2
  <2> QED
    BY <1>4, <2>5, <2>6 DEF Sides
<1>11. \A i \in 1 .. n : bar.low <= t[i].price /\ t[i].price <= bar.high /\ t[i].price \in Nat
  BY <1>1, TradeFacts DEF Awaits, Between
<1>12. Between(new, u)
  <2>0. /\ low \in Int /\ low <= bar.low /\ high \in Int /\ bar.high <= high
        /\ bar.low \in Int /\ bar.high \in Int
    BY <1>4 DEF low, high
  <2>1. ASSUME NEW i \in 1 .. n PROVE low <= u[i].price /\ u[i].price <= high
    <3>1. u[i] = t[i]
      BY <1>2
    <3>2. bar.low <= t[i].price /\ t[i].price <= bar.high /\ t[i].price \in Int
      BY <1>11
    <3>3. low <= t[i].price /\ t[i].price <= high
      BY <2>0, <3>2
    <3> QED
      BY <3>1, <3>3
  <2>2. low <= x.price /\ x.price <= high
    BY <1>4 DEF low, high
  <2> QED
    BY <1>2, <1>9, <2>1, <2>2 DEF Between
<1>13. Priced(bar.high, u) /\ Priced(bar.low, u)
  BY DEF Awaits, u
<1>14. Priced(x.price, u)
  BY <1>2 DEF Priced
<1>15. Priced(new.high, u) /\ Priced(new.low, u)
  BY <1>9, <1>13, <1>14 DEF high, low
<1>16. new.open = u[1].price /\ new.opened = u[1].time
  BY <1>9 DEF Awaits, u
<1>17. u # << >>
  BY <1>2
<1>18. Awaits(new, u, u)
  BY <1>5, <1>9, <1>10, <1>12, <1>15, <1>16 DEF Awaits
<1>19. new.close = u[Len(u)].price
  BY <1>2, <1>9
<1> QED
  BY <1>17, <1>18, <1>19 DEF Follows, new, u

(* A completed bar has its levels in order.                                *)
Stands(bar, t) ==
  /\ t # << >> /\ LevelsMatch(bar.levels, t)
  /\ bar.volume = B!VolumeOf(t, "ASK") + B!VolumeOf(t, "BID")
  /\ bar.open = t[1].price /\ bar.opened = t[1].time /\ bar.close = t[Len(t)].price
  /\ Between(bar, t) /\ Priced(bar.high, t) /\ Priced(bar.low, t)

LEMMA FollowsStands == ASSUME NEW bar, NEW t, Follows(bar, t) PROVE Stands(bar, t)
BY DEF Follows, Awaits, Stands

LEMMA CompletedStands ==
  ASSUME NEW bar, NEW t, Follows(bar, t), NEW time
  PROVE  Stands(B!Completed(bar, time), t) /\ Ascending(B!Completed(bar, time).levels)
<1> DEFINE levels == B!ByPrice(bar.levels)
           done == B!Completed(bar, time)
<1>1. LevelsMatch(levels, t) /\ Ascending(levels)
  BY LevelsSort DEF Follows, Awaits
<1>2. bar \in OpenBars
  BY DEF Follows, Awaits
<1>3. \E poc : done = [bar EXCEPT !.closed = time, !.levels = levels, !.poc = poc]
  BY Zenon DEF B!Completed
<1> HIDE DEF levels, done
<1>4. /\ done.levels = levels /\ done.volume = bar.volume /\ done.open = bar.open
      /\ done.opened = bar.opened /\ done.close = bar.close
      /\ done.high = bar.high /\ done.low = bar.low
  BY <1>2, <1>3 DEF OpenBars
<1>5. Stands(done, t)
  BY <1>1, <1>4 DEF Follows, Awaits, Stands, Between
<1> QED
  BY <1>1, <1>4, <1>5 DEF done

LEMMA StandsSays ==
  ASSUME NEW t \in Seq(Trades), NEW bar, Stands(bar, t)
  PROVE  B!Footprint(bar, t)
<1> DEFINE prices == {t[i].price : i \in DOMAIN t}
<1>1. Head(t) = t[1] /\ Last(t) = t[Len(t)]
  BY DEF Stands, Last
<1>2. {bar.high, bar.low} \subseteq prices /\ \A p \in prices : bar.low <= p /\ p <= bar.high
  BY DEF Stands, Priced, Between
<1>3. /\ Len(bar.levels) = B!Cardinality(prices)
      /\ ToSet(bar.levels) = {[price |-> p, bid |-> B!VolumeAt(t, p, "BID"),
                              ask |-> B!VolumeAt(t, p, "ASK")] : p \in prices}
  BY LevelsSay DEF Stands
<1>4. /\ bar.open = Head(t).price /\ bar.close = Last(t).price /\ bar.opened = Head(t).time
      /\ bar.volume = B!VolumeOf(t, "ASK") + B!VolumeOf(t, "BID")
  BY <1>1 DEF Stands
<1>5. B!ToSet(bar.levels) = ToSet(bar.levels) /\ B!Last(t) = Last(t)
  BY Zenon DEF B!ToSet, ToSet, B!Last, Last
<1> HIDE DEF prices
<1> QED
  BY <1>2, <1>3, <1>4, <1>5, Zenon DEF B!Footprint, prices

---------------------------------------------------------------------------
(* When a bar is due.                                                      *)
LEMMA Divides ==
  ASSUME NEW a \in Nat, NEW v \in Nat \ {0}
  PROVE  a \div v \in Nat /\ v * (a \div v) <= a /\ a < v * (a \div v) + v
<1>1. a \div v \in Int /\ a % v \in 0 .. v - 1 /\ a = v * (a \div v) + (a % v)
  OBVIOUS
<1>2. a \div v >= 0
  OBVIOUS
<1> QED
  BY <1>1, <1>2

LEMMA TimesGrow ==
  ASSUME NEW q \in Nat, NEW r \in Nat, NEW v \in Nat, q <= r
  PROVE  v * q <= v * r
<1>1. PICK d \in Nat : r = q + d
  <2>1. r - q \in Nat /\ r = q + (r - q)
    OBVIOUS
  <2> QED
    BY <2>1
<1>2. v * r = v * q + v * d /\ v * d \in Nat /\ v * q \in Nat
  BY <1>1
<1> QED
  BY <1>2

LEMMA DivisionSteps ==
  ASSUME NEW a \in Nat, NEW o \in Nat, NEW v \in Nat \ {0}
  PROVE  a \div v > o \div v <=> a >= (o \div v) * v + v
<1>1. PICK r \in Nat : r = a \div v /\ v * r <= a /\ a < v * r + v
  BY Divides
<1>2. PICK q \in Nat : q = o \div v
  BY Divides
<1>3. v * q = q * v /\ v * q \in Nat /\ v * r \in Nat /\ v * (q + 1) = v * q + v
  OBVIOUS
<1>4. CASE r >= q + 1
  <2>1. v * (q + 1) <= v * r
    BY <1>4, TimesGrow
  <2> QED
    BY <1>1, <1>2, <1>3, <1>4, <2>1
<1>5. CASE r <= q
  <2>1. v * r <= v * q
    BY <1>5, TimesGrow
  <2> QED
    BY <1>1, <1>2, <1>3, <1>5, <2>1
<1> QED
  BY <1>4, <1>5

LEMMA SizeFacts ==
  ASSUME NEW size \in ValidSizes
  PROVE  size.type \in {"TIME", "RANGE", "VOLUME"} /\ size.value \in Nat \ {0}
<1>1. size.type \in {"TIME", "RANGE", "VOLUME"} /\ size.value \in Nat /\ B!IsValid(size)
  BY S1SizesAssumption DEF ValidSizes
<1> QED
  BY <1>1 DEF B!IsValid

(* The bar closes with the trade that finds it due.                        *)
Due(size, first, before, x) ==
  CASE size.type = "TIME"   -> x.time \div size.value > first.time \div size.value
    [] size.type = "RANGE"  -> x.price \notin first.price - size.value + 1 .. first.price + size.value - 1
    [] size.type = "VOLUME" -> B!VolumeOf(before, "ASK") + B!VolumeOf(before, "BID") >= size.value

LEMMA DueIs ==
  ASSUME NEW size, NEW t, NEW i
  PROVE  B!DueAt(size, t, i) = Due(size, Head(t), SubSeq(t, 1, i - 1), t[i])
BY Zenon DEF B!DueAt, Due

(* The bar closes with the trade that finds it due.                        *)
LEMMA DueMeans ==
  ASSUME NEW size \in ValidSizes, NEW t \in Seq(Trades), NEW x \in Trades,
         NEW bar, Awaits(bar, t, Append(t, x)), NEW n \in Nat, n = Len(t)
  PROVE  B!ShouldClose(size, bar, x) <=> B!DueAt(size, Append(t, x), n + 1)
<1> DEFINE u == Append(t, x)
<1>1. /\ u[n + 1] = x /\ Head(u) = u[1] /\ SubSeq(u, 1, n + 1 - 1) = t
  <2>1. /\ u \in Seq(Trades) /\ Len(u) = n + 1 /\ u[n + 1] = x
    BY OneMore
  <2>2. Head(u) = u[1]
    BY <2>1
  <2>3. n + 1 - 1 = n
    OBVIOUS
  <2>4. SubSeq(u, 1, n) = t
    <3>1. CASE n = 0
      <4>1. SubSeq(u, 1, 0) = << >>
        BY <2>1, SubSeqProperties
      <4>2. t = << >>
        BY <3>1, EmptySeq
      <4> QED
        BY <3>1, <4>1, <4>2
    <3>2. CASE n # 0
      BY <3>2, PrefixOfMore
    <3> QED
      BY <3>1, <3>2
  <2> HIDE DEF u
  <2> QED
    BY <2>1, <2>2, <2>3, <2>4
<1> DEFINE due == Due(size, u[1], t, x)
<1>2. B!DueAt(size, u, n + 1) = due
  <2> HIDE DEF u
  <2>1. B!DueAt(size, u, n + 1) = Due(size, Head(u), SubSeq(u, 1, n + 1 - 1), u[n + 1])
    BY DueIs
  <2> QED
    BY <1>1, <2>1, Zenon
<1>3. size.type \in {"TIME", "RANGE", "VOLUME"} /\ size.value \in Nat \ {0}
  BY SizeFacts
<1>4. /\ bar \in OpenBars /\ bar.opened = u[1].time /\ bar.open = u[1].price
      /\ bar.volume = B!VolumeOf(t, "ASK") + B!VolumeOf(t, "BID")
  BY DEF Awaits
<1>5. /\ bar.opened \in Nat /\ bar.open \in Nat /\ bar.volume \in Nat
      /\ x.time \in Nat /\ x.price \in Nat
  BY <1>4, BarFacts DEF Trades
<1> HIDE DEF u, due
<1>6. B!ShouldClose(size, bar, x) <=> due
  <2>1. CASE size.type = "TIME"
    <3>1. due <=> x.time \div size.value > bar.opened \div size.value
      BY <1>4, <2>1, Zenon DEF due, Due
    <3>2. B!ShouldClose(size, bar, x) <=> x.time >= (bar.opened \div size.value) * size.value + size.value
      BY <2>1, Zenon DEF B!ShouldClose
    <3> QED
      BY <1>3, <1>5, <3>1, <3>2, DivisionSteps
  <2>2. CASE size.type = "RANGE"
    <3>1. due <=> x.price \notin bar.open - size.value + 1 .. bar.open + size.value - 1
      BY <1>4, <2>2, Zenon DEF due, Due
    <3>2. B!ShouldClose(size, bar, x) <=> B!Distance(x.price, bar.open) >= size.value
      BY <2>2, Zenon DEF B!ShouldClose
    <3> QED
      BY <1>3, <1>5, <3>1, <3>2 DEF B!Distance
  <2>3. CASE size.type = "VOLUME"
    BY <1>4, <2>3, Zenon DEF B!ShouldClose, due, Due
  <2> QED
    BY <1>3, <2>1, <2>2, <2>3
<1> QED
  BY <1>2, <1>6 DEF u

(* Later trades do not change whether an earlier one found it due.         *)
LEMMA DueStays ==
  ASSUME NEW size, NEW t \in Seq(Trades), NEW x \in Trades, NEW i \in 1 .. Len(t)
  PROVE  B!DueAt(size, Append(t, x), i) <=> B!DueAt(size, t, i)
<1> DEFINE u == Append(t, x)
<1>n. PICK n \in Nat : n = Len(t)
  BY TradeFacts
<1>1. u \in Seq(Trades) /\ Len(u) = n + 1 /\ \A k \in 1 .. n : u[k] = t[k]
  BY <1>n, OneMore
<1>2. u[i] = t[i] /\ u[1] = t[1] /\ 1 <= n
  BY <1>n, <1>1
<1>3. Head(u) = u[1] /\ Head(t) = t[1]
  BY <1>n, <1>1, <1>2
<1>4. SubSeq(u, 1, i - 1) = SubSeq(t, 1, i - 1)
  <2>1. CASE i = 1
    <3>1. SubSeq(u, 1, 0) = << >> /\ SubSeq(t, 1, 0) = << >>
      BY <1>1, SubSeqProperties
    <3> QED
      BY <2>1, <3>1
  <2>2. CASE i # 1
    <3>1. i - 1 \in 1 .. n
      BY <1>n, <2>2
    <3> QED
      BY <1>n, <3>1, PrefixOfMore
  <2> QED
    BY <2>1, <2>2
<1> HIDE DEF u
<1>5. Head(u) = Head(t) /\ u[i] = t[i]
  BY <1>2, <1>3
<1> QED
  BY <1>4, <1>5, DueIs, Zenon DEF u

---------------------------------------------------------------------------
(* A series, the trades after its last bar, and those of that bar.         *)
SeriesAccount(size, s, t, p) ==
  /\ DOMAIN s = {"size", "current", "last"} /\ s.size = size
  /\ (s.current = << >>) <=> (t = << >>)
  /\ s.current # << >> => Follows(s.current[1], t)
  /\ s.last # << >> => Stands(s.last[1], p.trades) /\ Ascending(s.last[1].levels)
  /\ \A i \in DOMAIN t : ~B!DueAt(size, t, i)
  /\ \A i \in DOMAIN p.trades : B!DueAt(size, p.trades, i) <=> i = Len(p.trades) /\ ~p.forced

LEMMA NewSeriesAccount ==
  ASSUME NEW size
  PROVE  SeriesAccount(size, B!NewSeries(size), << >>, NoPast)
<1>1. DOMAIN << >> = {}
  OBVIOUS
<1>2. NoPast.trades = << >>
  BY DEF NoPast
<1>3. B!NewSeries(size) = [size |-> size, current |-> << >>, last |-> << >>]
  BY DEF B!NewSeries
<1> QED
  BY <1>1, <1>2, <1>3 DEF SeriesAccount

(* What a trade makes of a series: the bar grows, and is completed when    *)
(* the trade found it due.                                                 *)
LEMMA TickAccount ==
  ASSUME NEW size \in ValidSizes, NEW s, NEW t \in Seq(Trades), NEW p, NEW x \in Trades,
         SeriesAccount(size, s, t, p)
  PROVE  LET after == B!OnTick(s, x)
         IN  /\ after.current = << >> =>
                  /\ SeriesAccount(size, after, << >>, [trades |-> Append(t, x), forced |-> FALSE])
                  /\ after.last # << >>
             /\ after.current # << >> => SeriesAccount(size, after, Append(t, x), p)
<1> DEFINE u == Append(t, x)
           bar == IF s.current = << >> THEN B!OpenNewBar(x) ELSE s.current[1]
           grown == B!Accumulate(bar, x)
           done == B!Completed(grown, x.time)
           due == B!ShouldClose(size, bar, x)
           closed == [s EXCEPT !.current = << >>, !.last = <<done>>]
           open == [s EXCEPT !.current = <<grown>>]
<1>1. PICK n \in Nat : n = Len(t) /\ DOMAIN t = 1 .. n
  BY TradeFacts
<1>2. u \in Seq(Trades) /\ Len(u) = n + 1 /\ DOMAIN u = 1 .. n + 1 /\ u # << >>
  <2>1. u \in Seq(Trades) /\ Len(u) = n + 1 /\ DOMAIN u = 1 .. n + 1
    BY <1>1, OneMore
  <2> QED
    BY <2>1
<1>3. DOMAIN s = {"size", "current", "last"} /\ s.size = size
  BY DEF SeriesAccount
<1>4. Awaits(bar, t, u)
  <2>1. CASE s.current = << >>
    <3>1. t = << >> /\ bar = B!OpenNewBar(x)
      BY <2>1 DEF SeriesAccount
    <3> QED
      BY <3>1, NewBarAwaits
  <2>2. CASE s.current # << >>
    <3>1. Follows(bar, t)
      BY <2>2 DEF SeriesAccount
    <3> QED
      BY <3>1, AwaitsMore
  <2> QED
    BY <2>1, <2>2
<1>5. due <=> B!DueAt(size, u, n + 1)
  BY <1>1, <1>4, DueMeans
<1>6. Follows(grown, u)
  BY <1>4, BarGrows
<1>7. Stands(done, u) /\ Ascending(done.levels)
  BY <1>6, CompletedStands
<1>8. B!OnTick(s, x) = IF due THEN closed ELSE open
  <2>1. s.size = size
    BY <1>3
  <2> QED
    BY <2>1, Zenon DEF B!OnTick
<1>9. \A i \in 1 .. n : ~B!DueAt(size, u, i)
  <2> SUFFICES ASSUME NEW i \in 1 .. n PROVE ~B!DueAt(size, u, i)
    OBVIOUS
  <2>1. ~B!DueAt(size, t, i)
    BY <1>1 DEF SeriesAccount
  <2> QED
    BY <1>1, <2>1, DueStays
<1> HIDE DEF u, bar, grown, done, due
<1>10. CASE due
  <2>1. B!OnTick(s, x) = closed /\ closed.current = << >> /\ closed.last = <<done>>
    BY <1>3, <1>8, <1>10
  <2> DEFINE p2 == [trades |-> u, forced |-> FALSE]
  <2>2. p2.trades = u /\ p2.forced = FALSE
    OBVIOUS
  <2>3. \A i \in DOMAIN u : B!DueAt(size, u, i) <=> i = Len(u) /\ ~FALSE
    BY <1>2, <1>5, <1>9, <1>10
  <2>4. DOMAIN closed = {"size", "current", "last"} /\ closed.size = size
    BY <1>3
  <2>5. DOMAIN << >> = {}
    OBVIOUS
  <2>6. closed.last # << >> /\ closed.last[1] = done
    BY <2>1
  <2> HIDE DEF p2, closed
  <2>7. SeriesAccount(size, closed, << >>, p2)
    BY <1>7, <2>1, <2>2, <2>3, <2>4, <2>5, <2>6 DEF SeriesAccount
  <2> QED
    BY <2>1, <2>6, <2>7 DEF p2, u
<1>11. CASE ~due
  <2>1. B!OnTick(s, x) = open /\ open.current = <<grown>> /\ open.last = s.last
    BY <1>3, <1>8, <1>11
  <2>2. open.current # << >> /\ open.current[1] = grown
    BY <2>1
  <2>3. DOMAIN open = {"size", "current", "last"} /\ open.size = size
    BY <1>3
  <2>4. \A i \in DOMAIN u : ~B!DueAt(size, u, i)
    BY <1>2, <1>5, <1>9, <1>11
  <2> HIDE DEF open
  <2>5. SeriesAccount(size, open, u, p)
    BY <1>2, <1>6, <2>1, <2>2, <2>3, <2>4 DEF SeriesAccount
  <2> QED
    BY <2>1, <2>2, <2>5 DEF u
<1> QED
  BY <1>10, <1>11

(* What a session event makes of it.                                       *)
LEMMA ForceAccount ==
  ASSUME NEW size, NEW s, NEW t, NEW p, NEW time, SeriesAccount(size, s, t, p)
  PROVE  LET after == B!ForceCloseBar(s, time)
         IN  /\ after.current = << >>
             /\ s.current = << >> => SeriesAccount(size, after, t, p)
             /\ s.current # << >> =>
                  /\ SeriesAccount(size, after, << >>, [trades |-> t, forced |-> TRUE])
                  /\ after.last # << >>
<1>1. CASE s.current = << >>
  <2>1. B!ForceCloseBar(s, time) = s
    BY <1>1 DEF B!ForceCloseBar
  <2> QED
    BY <1>1, <2>1
<1>2. CASE s.current # << >>
  <2> DEFINE done == B!Completed(s.current[1], time)
             closed == [s EXCEPT !.current = << >>, !.last = <<done>>]
             p2 == [trades |-> t, forced |-> TRUE]
  <2>1. DOMAIN s = {"size", "current", "last"} /\ s.size = size
    BY DEF SeriesAccount
  <2>2. B!ForceCloseBar(s, time) = closed
    BY <1>2 DEF B!ForceCloseBar
  <2>3. Stands(done, t) /\ Ascending(done.levels)
    BY <1>2, CompletedStands DEF SeriesAccount
  <2> HIDE DEF done
  <2>5. /\ DOMAIN closed = {"size", "current", "last"} /\ closed.size = size
        /\ closed.current = << >> /\ closed.last # << >> /\ closed.last[1] = done
    BY <2>1
  <2>6. p2.trades = t /\ p2.forced = TRUE
    OBVIOUS
  <2>7. \A i \in DOMAIN t : B!DueAt(size, t, i) <=> i = Len(t) /\ ~TRUE
    BY DEF SeriesAccount
  <2>8. DOMAIN << >> = {}
    OBVIOUS
  <2> HIDE DEF closed, p2
  <2>9. SeriesAccount(size, closed, << >>, p2)
    BY <2>3, <2>5, <2>6, <2>7, <2>8 DEF SeriesAccount
  <2> QED
    BY <1>2, <2>2, <2>5, <2>9 DEF p2
<1> QED
  BY <1>1, <1>2

LEMMA OpenAccount ==
  ASSUME NEW size, NEW s, NEW t, NEW p, NEW time, SeriesAccount(size, s, t, p)
  PROVE  LET after == B!OnSessionOpen(s, time)
         IN  /\ after.current = << >>
             /\ s.current = << >> => SeriesAccount(size, after, t, p)
             /\ s.current # << >> => SeriesAccount(size, after, << >>, [trades |-> t, forced |-> TRUE])
<1> DEFINE f == B!ForceCloseBar(s, time)
           after == [f EXCEPT !.last = << >>]
<1>1. B!OnSessionOpen(s, time) = after
  BY DEF B!OnSessionOpen
<1>2. /\ f.current = << >>
      /\ s.current = << >> => SeriesAccount(size, f, t, p)
      /\ s.current # << >> => SeriesAccount(size, f, << >>, [trades |-> t, forced |-> TRUE])
  BY ForceAccount
<1> HIDE DEF f
<1>3. ASSUME NEW u, NEW q, SeriesAccount(size, f, u, q)
      PROVE  SeriesAccount(size, after, u, q) /\ after.current = f.current
  <2>1. DOMAIN f = {"size", "current", "last"} /\ f.size = size
    BY <1>3 DEF SeriesAccount
  <2>2. /\ DOMAIN after = {"size", "current", "last"} /\ after.size = size
        /\ after.current = f.current /\ after.last = << >>
    BY <2>1
  <2> HIDE DEF after
  <2> QED
    BY <1>3, <2>2 DEF SeriesAccount
<1> HIDE DEF after
<1> QED
  BY <1>1, <1>2, <1>3

---------------------------------------------------------------------------
(* Every series matches its trades.                                        *)
SeriesHold == \A size \in DOMAIN series : SeriesAccount(size, series[size], since[size], past[size])

LEMMA SeriesStart == Init => SeriesHold
<1> SUFFICES ASSUME Init PROVE SeriesHold
  OBVIOUS
<1>1. /\ DOMAIN series = {main} /\ series[main] = B!NewSeries(main)
      /\ since[main] = << >> /\ past[main] = NoPast
  BY DEF Init
<1>2. SeriesAccount(main, B!NewSeries(main), << >>, NoPast)
  BY NewSeriesAccount
<1> QED
  BY <1>1, <1>2 DEF SeriesHold

LEMMA SeriesStep == HistoryTyped /\ LeeTyped /\ SeriesHold /\ [Next]_vars => SeriesHold'
<1> SUFFICES ASSUME HistoryTyped, LeeTyped, SeriesHold, [Next]_vars PROVE SeriesHold'
  OBVIOUS
<1>0. ASSUME NEW size \in DOMAIN series
      PROVE  /\ size \in ValidSizes /\ since[size] \in Seq(Trades)
             /\ SeriesAccount(size, series[size], since[size], past[size])
  BY DEF HistoryTyped, SeriesHold
<1>1. DOMAIN since = DOMAIN series /\ DOMAIN past = DOMAIN series
  BY DEF HistoryTyped
<1>2. CASE UNCHANGED <<series, since, past>>
  BY <1>2 DEF SeriesHold
<1>3. CASE Trade
  <2>1. PICK x \in Trades :
           LET after == [size \in DOMAIN series |-> B!OnTick(series[size], x)]
               closed == {size \in DOMAIN series : after[size].current = << >>}
               trades == [size \in DOMAIN series |-> Append(since[size], x)]
           IN  /\ series' = after /\ Remember(closed, trades, FALSE)
    BY <1>3, TradeStep, Zenon
  <2> SUFFICES ASSUME NEW size \in DOMAIN series
               PROVE  SeriesAccount(size, series'[size], since'[size], past'[size])
    BY <2>1 DEF SeriesHold
  <2> DEFINE after == B!OnTick(series[size], x)
             t == Append(since[size], x)
  <2>2. /\ series'[size] = after
        /\ after.current = << >> =>
             since'[size] = << >> /\ past'[size] = [trades |-> t, forced |-> FALSE]
        /\ after.current # << >> => since'[size] = t /\ past'[size] = past[size]
    BY <2>1 DEF Remember
  <2>3. /\ after.current = << >> => SeriesAccount(size, after, << >>, [trades |-> t, forced |-> FALSE])
        /\ after.current # << >> => SeriesAccount(size, after, t, past[size])
    BY <1>0, TickAccount
  <2> HIDE DEF after, t
  <2> QED
    BY <2>2, <2>3
<1>4. CASE SessionClose
  <2>1. /\ series' = [size \in DOMAIN series |-> B!ForceCloseBar(series[size], clock)]
        /\ Remember(Pending, since, TRUE)
    BY <1>4 DEF SessionClose
  <2> SUFFICES ASSUME NEW size \in DOMAIN series
               PROVE  SeriesAccount(size, series'[size], since'[size], past'[size])
    BY <2>1 DEF SeriesHold
  <2> DEFINE after == B!ForceCloseBar(series[size], clock)
  <2>2. /\ series'[size] = after
        /\ series[size].current # << >> =>
             since'[size] = << >> /\ past'[size] = [trades |-> since[size], forced |-> TRUE]
        /\ series[size].current = << >> => since'[size] = since[size] /\ past'[size] = past[size]
    BY <2>1 DEF Remember, Pending
  <2>3. /\ series[size].current = << >> => SeriesAccount(size, after, since[size], past[size])
        /\ series[size].current # << >> =>
             SeriesAccount(size, after, << >>, [trades |-> since[size], forced |-> TRUE])
    BY <1>0, ForceAccount
  <2> HIDE DEF after
  <2> QED
    BY <2>2, <2>3
<1>5. CASE SessionOpen
  <2>1. /\ series' = [size \in DOMAIN series |-> B!OnSessionOpen(series[size], clock)]
        /\ Remember(Pending, since, TRUE)
    BY <1>5 DEF SessionOpen
  <2> SUFFICES ASSUME NEW size \in DOMAIN series
               PROVE  SeriesAccount(size, series'[size], since'[size], past'[size])
    BY <2>1 DEF SeriesHold
  <2> DEFINE after == B!OnSessionOpen(series[size], clock)
  <2>2. /\ series'[size] = after
        /\ series[size].current # << >> =>
             since'[size] = << >> /\ past'[size] = [trades |-> since[size], forced |-> TRUE]
        /\ series[size].current = << >> => since'[size] = since[size] /\ past'[size] = past[size]
    BY <2>1 DEF Remember, Pending
  <2>3. /\ series[size].current = << >> => SeriesAccount(size, after, since[size], past[size])
        /\ series[size].current # << >> =>
             SeriesAccount(size, after, << >>, [trades |-> since[size], forced |-> TRUE])
    BY <1>0, OpenAccount
  <2> HIDE DEF after
  <2> QED
    BY <2>2, <2>3
<1>6. CASE AddSeries
  <2>1. PICK new \in ValidSizes \ DOMAIN series :
          LET with == DOMAIN series \cup {new}
          IN  /\ series' = [s \in with |-> IF s = new THEN B!NewSeries(new) ELSE series[s]]
              /\ since' = [s \in with |-> IF s = new THEN << >> ELSE since[s]]
              /\ past' = [s \in with |-> IF s = new THEN NoPast ELSE past[s]]
    BY <1>6, Zenon DEF AddSeries
  <2> SUFFICES ASSUME NEW size \in DOMAIN series \cup {new}
               PROVE  SeriesAccount(size, series'[size], since'[size], past'[size])
    BY <2>1 DEF SeriesHold
  <2>2. CASE size = new
    <3>1. series'[size] = B!NewSeries(size) /\ since'[size] = << >> /\ past'[size] = NoPast
      BY <2>1, <2>2
    <3> QED
      BY <3>1, NewSeriesAccount
  <2>3. CASE size # new
    <3>1. series'[size] = series[size] /\ since'[size] = since[size] /\ past'[size] = past[size]
      BY <2>1, <2>3
    <3> QED
      BY <1>0, <2>3, <3>1
  <2> QED
    BY <2>2, <2>3
<1>7. CASE RemoveSeries
  <2>1. PICK old \in DOMAIN series \ {main} :
          LET without == DOMAIN series \ {old}
          IN  /\ series' = [s \in without |-> series[s]]
              /\ since' = [s \in without |-> since[s]]
              /\ past' = [s \in without |-> past[s]]
    BY <1>7, Zenon DEF RemoveSeries
  <2> SUFFICES ASSUME NEW size \in DOMAIN series \ {old}
               PROVE  SeriesAccount(size, series'[size], since'[size], past'[size])
    BY <2>1 DEF SeriesHold
  <2>2. series'[size] = series[size] /\ since'[size] = since[size] /\ past'[size] = past[size]
    BY <2>1
  <2> QED
    BY <1>0, <2>2
<1> QED
  BY <1>2, <1>3, <1>4, <1>5, <1>6, <1>7 DEF Next, Quote, TradeUnclassified, vars

LEMMA SeriesAlwaysHold == Spec => []SeriesHold
<1>1. HistoryTyped /\ LeeTyped /\ SeriesHold /\ [Next]_vars => SeriesHold'
  BY SeriesStep
<1>2. LeeTyped /\ [Next]_vars => LeeTyped'
  BY LeeStep
<1> QED
  BY <1>1, <1>2, LeeStarts, SeriesStart, HistoryStaysTyped, PTL DEF Spec

(* For every feed and every set of series: a bar, in progress or           *)
(* completed, shows exactly the trades after the one before it.            *)
THEOREM BarsAlwaysMatchTrades == Spec => []BarsMatchTrades
<1>1. HistoryTyped /\ SeriesHold => BarsMatchTrades
  <2> SUFFICES ASSUME HistoryTyped, SeriesHold, NEW size \in DOMAIN series
               PROVE  LET s == series[size]
                      IN  /\ (s.current = << >>) <=> (since[size] = << >>)
                          /\ s.current # << >> => B!Footprint(s.current[1], since[size])
                          /\ s.last # << >> => B!Footprint(s.last[1], past[size].trades)
    BY DEF BarsMatchTrades
  <2> DEFINE s == series[size]
  <2>1. SeriesAccount(size, s, since[size], past[size])
    BY DEF SeriesHold
  <2>2. since[size] \in Seq(Trades) /\ past[size].trades \in Seq(Trades)
    BY DEF HistoryTyped
  <2>3. (s.current = << >>) <=> (since[size] = << >>)
    BY <2>1 DEF SeriesAccount
  <2>4. ASSUME s.current # << >> PROVE B!Footprint(s.current[1], since[size])
    <3>1. Stands(s.current[1], since[size])
      BY <2>1, <2>4, FollowsStands DEF SeriesAccount
    <3> QED
      BY <2>2, <3>1, StandsSays
  <2>5. ASSUME s.last # << >> PROVE B!Footprint(s.last[1], past[size].trades)
    <3>1. Stands(s.last[1], past[size].trades)
      BY <2>1, <2>5 DEF SeriesAccount
    <3> QED
      BY <2>2, <3>1, StandsSays
  <2> QED
    BY <2>3, <2>4, <2>5
<1> QED
  BY <1>1, SeriesAlwaysHold, HistoryStaysTyped, PTL

(* Overdue bars are due, and due ones ripe.                                *)
LEMMA DueRipens ==
  ASSUME NEW size \in ValidSizes, NEW t \in Seq(Trades), NEW i \in DOMAIN t
  PROVE  /\ B!OverdueAt(size, t, i) => B!DueAt(size, t, i)
         /\ B!DueAt(size, t, i) => B!RipeAt(size, t, i)
<1> DEFINE before == SubSeq(t, 1, i - 1)
           upto == SubSeq(t, 1, i)
<1>n. PICK n \in Nat : n = Len(t) /\ DOMAIN t = 1 .. n
  BY TradeFacts
<1>1. size.type \in {"TIME", "RANGE", "VOLUME"} /\ size.value \in Nat \ {0}
  BY SizeFacts
<1>2. i \in 1 .. n /\ t[i] \in Trades /\ t[1] \in Trades /\ Head(t) = t[1]
  BY <1>n, ElementOfSeq
<1>3. CASE size.type = "TIME"
  BY <1>3, Zenon DEF B!OverdueAt, B!RipeAt
<1>4. CASE size.type = "RANGE"
  <2>1. B!DueAt(size, t, i)
          <=> t[i].price \notin Head(t).price - size.value + 1 .. Head(t).price + size.value - 1
    BY <1>4, Zenon DEF B!DueAt
  <2>2. B!OverdueAt(size, t, i)
          <=> t[i].price \notin Head(t).price - size.value .. Head(t).price + size.value
    BY <1>4, Zenon DEF B!OverdueAt
  <2>3. t[i].price \in Nat /\ Head(t).price \in Nat
    BY <1>2 DEF Trades
  <2>4. B!DueAt(size, t, i) => B!RipeAt(size, t, i)
    BY <1>4, Zenon DEF B!RipeAt
  <2> QED
    BY <1>1, <2>1, <2>2, <2>3, <2>4
<1>5. CASE size.type = "VOLUME"
  <2>1. B!DueAt(size, t, i)
          <=> B!VolumeOf(before, "ASK") + B!VolumeOf(before, "BID") >= size.value
    BY <1>5, Zenon DEF B!DueAt
  <2>2. B!RipeAt(size, t, i)
          <=> B!VolumeOf(upto, "ASK") + B!VolumeOf(upto, "BID") >= size.value
    BY <1>5, Zenon DEF B!RipeAt
  <2>3. before \in Seq(Trades) /\ upto = Append(before, t[i])
    BY <1>n, <1>2, PrefixAndNext
  <2>4. /\ B!VolumeOf(before, "ASK") \in Int /\ B!VolumeOf(before, "BID") \in Int
        /\ t[i].volume \in Nat
    BY <1>2, <2>3, VolumeTyped DEF Trades
  <2>5. /\ B!VolumeOf(upto, "ASK") >= B!VolumeOf(before, "ASK") /\ B!VolumeOf(upto, "ASK") \in Int
        /\ B!VolumeOf(upto, "BID") >= B!VolumeOf(before, "BID") /\ B!VolumeOf(upto, "BID") \in Int
    <3> HIDE DEF before, upto
    <3> QED
      BY <1>2, <2>3, <2>4, VolumeOfMore
  <2>6. B!OverdueAt(size, t, i) => B!DueAt(size, t, i)
    BY <1>5, Zenon DEF B!OverdueAt
  <2> HIDE DEF before, upto
  <2> QED
    BY <1>1, <2>1, <2>2, <2>4, <2>5, <2>6
<1> QED
  BY <1>1, <1>3, <1>4, <1>5

(* When the code closes a bar: a range bar on a move of exactly its size,  *)
(* where bar_engine.h:107 and the comment at bar_engine.cpp:218 say "more  *)
(* than", and a volume bar with the trade after the one that reached its   *)
(* size, where bar_engine.h:112 says "should close after this tick"; a bar *)
(* closes with the first trade that finds it so, or is forced.             *)
BarsCloseAsCoded ==
  \A size \in DOMAIN series :
    LET t == past[size].trades
    IN  /\ \A i \in DOMAIN since[size] : ~B!DueAt(size, since[size], i)
        /\ \A i \in DOMAIN t : B!DueAt(size, t, i) <=> i = Len(t) /\ ~past[size].forced

THEOREM BarsAlwaysCloseAsCoded == Spec => []BarsCloseAsCoded
<1>1. SeriesHold => BarsCloseAsCoded
  BY DEF SeriesHold, SeriesAccount, BarsCloseAsCoded
<1> QED
  BY <1>1, SeriesAlwaysHold, PTL

(* For every feed and every set of series: a bar closes with a trade that  *)
(* makes it ripe, or is forced, and none is overdue before.                *)
THEOREM BarsAlwaysCloseWhenDue == Spec => []BarsCloseWhenDue
<1>1. SeriesHold /\ HistoryTyped => BarsCloseWhenDue
  <2> SUFFICES ASSUME SeriesHold, HistoryTyped, NEW size \in DOMAIN series
               PROVE  LET t == past[size].trades
                          forced == past[size].forced
                      IN  /\ \A i \in DOMAIN since[size] : ~B!OverdueAt(size, since[size], i)
                          /\ \A i \in DOMAIN t : i < Len(t) \/ forced => ~B!OverdueAt(size, t, i)
                          /\ t # << >> => forced \/ B!RipeAt(size, t, Len(t))
    BY DEF BarsCloseWhenDue
  <2> DEFINE t == past[size].trades
             forced == past[size].forced
  <2>1. size \in ValidSizes /\ since[size] \in Seq(Trades) /\ t \in Seq(Trades)
    BY DEF HistoryTyped
  <2>2. /\ \A i \in DOMAIN since[size] : ~B!DueAt(size, since[size], i)
        /\ \A i \in DOMAIN t : B!DueAt(size, t, i) <=> i = Len(t) /\ ~forced
    BY DEF SeriesHold, SeriesAccount
  <2> HIDE DEF t, forced
  <2>n. PICK n \in Nat : n = Len(t) /\ DOMAIN t = 1 .. n
    BY <2>1, TradeFacts
  <2>3. ASSUME NEW i \in DOMAIN since[size] PROVE ~B!OverdueAt(size, since[size], i)
    BY <2>1, <2>2, DueRipens
  <2>4. ASSUME NEW i \in DOMAIN t, i < n \/ forced PROVE ~B!OverdueAt(size, t, i)
    BY <2>1, <2>2, <2>4, <2>n, DueRipens
  <2>5. ASSUME t # << >>, ~forced PROVE B!RipeAt(size, t, n)
    <3>1. n \in DOMAIN t
      BY <2>1, <2>5, <2>n, EmptySeq
    <3> QED
      BY <2>1, <2>2, <2>5, <2>n, <3>1, DueRipens
  <2> QED
    BY <2>3, <2>4, <2>5, <2>n DEF t, forced
<1> QED
  BY <1>1, SeriesAlwaysHold, HistoryStaysTyped, PTL

LEMMA DeltaStarts == Init => DeltaAccounts
<1> SUFFICES ASSUME Init PROVE DeltaAccounts
  OBVIOUS
<1>1. delta = D!DeltaState /\ since[main] = << >> /\ deltas = << >> /\ report = << >>
  BY DEF Init
<1> QED
  BY <1>1, FreshDelta DEF DeltaAccounts, Reported

LEMMA AnalyseStep ==
  ASSUME NEW dl \in DeltaStates, NEW t \in Seq(Trades), NEW bar,
         BarAccount(dl, t), SessionAccount(dl, deltas), deltas \in Seq(Int),
         Analyse(bar, dl, t), since'[main'] = << >>
  PROVE  DeltaAccounts'
<1> DEFINE left == D!OnBarClose(dl)
           more == Append(deltas, B!DeltaOf(t))
           r == <<[filled |-> D!FilledIn(dl),
                   signals |-> I!Signals(zones, bar) \cup D!DeltaSignals(bar, D!FilledIn(dl), left)]>>
<1>1. delta' = left /\ deltas' = more /\ report' = r
  BY DEF Analyse
<1>2. /\ left \in DeltaStates /\ BarAccount(left, << >>)
      /\ SessionAccount(left, more) /\ Reported(r, left, more)
  BY AnalysisAccounted
<1> HIDE DEF left, more, r
<1>3. /\ delta' \in DeltaStates /\ BarAccount(delta', << >>)
      /\ SessionAccount(delta', deltas') /\ Reported(report', delta', deltas')
  BY <1>1, <1>2
<1> QED
  BY <1>3 DEF DeltaAccounts

LEMMA DeltaStep == HistoryTyped /\ LeeTyped /\ SeriesHold /\ DeltaAccounts /\ [Next]_vars => DeltaAccounts'
<1> SUFFICES ASSUME HistoryTyped, LeeTyped, SeriesHold, DeltaAccounts, [Next]_vars PROVE DeltaAccounts'
  OBVIOUS
<1>0. /\ main \in DOMAIN series /\ since[main] \in Seq(Trades) /\ deltas \in Seq(Int)
      /\ DOMAIN since = DOMAIN series
  BY DEF HistoryTyped
<1>1. /\ delta \in DeltaStates /\ BarAccount(delta, since[main])
      /\ SessionAccount(delta, deltas) /\ Reported(report, delta, deltas)
  BY DEF DeltaAccounts
<1>2. CASE UNCHANGED <<main, delta, deltas, report, since>>
  BY <1>2 DEF DeltaAccounts
<1>3. CASE Trade
  <2>1. PICK x \in Trades :
           LET after == [size \in DOMAIN series |-> B!OnTick(series[size], x)]
               closed == {size \in DOMAIN series : after[size].current = << >>}
               trades == [size \in DOMAIN series |-> Append(since[size], x)]
           IN  /\ clock' = x.time /\ series' = after /\ main' = main
               /\ Remember(closed, trades, FALSE)
               /\ \/ /\ main \in closed
                     /\ Analyse(after[main].last[1], D!OnTick(delta, x), trades[main])
                  \/ /\ main \notin closed
                     /\ delta' = D!OnTick(delta, x)
                     /\ UNCHANGED <<zones, report, deltas>>
    BY <1>3, TradeStep
  <2> DEFINE after == [size \in DOMAIN series |-> B!OnTick(series[size], x)]
             closed == {size \in DOMAIN series : after[size].current = << >>}
             trades == [size \in DOMAIN series |-> Append(since[size], x)]
             dl == D!OnTick(delta, x)
             t == Append(since[main], x)
             bar == after[main].last[1]
  <2>2. /\ main' = main /\ trades[main] = t
        /\ since'[main] = IF main \in closed THEN << >> ELSE t
    BY <1>0, <2>1 DEF Remember
  <2>3. \/ main \in closed /\ Analyse(bar, dl, t)
        \/ main \notin closed /\ delta' = dl /\ UNCHANGED <<report, deltas>>
    BY <2>1, <2>2
  <2>4. t \in Seq(Trades)
    BY <1>0, OneMore, TradeFacts
  <2>5. /\ dl \in DeltaStates /\ BarAccount(dl, t)
        /\ dl.cumulative = delta.cumulative /\ dl.average = delta.average
        /\ dl.sessionMax = delta.sessionMax /\ dl.sessionMin = delta.sessionMin
    BY <1>0, <1>1, TickAccounted
  <2> HIDE DEF after, closed, trades, dl, t, bar
  <2>6. SessionAccount(dl, deltas) /\ Reported(report, dl, deltas)
    BY <1>1, <2>5 DEF SessionAccount, Reported
  <2>7. CASE main \in closed /\ Analyse(bar, dl, t)
    <3>1. since'[main'] = << >>
      BY <2>2, <2>7
    <3> QED
      BY <1>0, <2>4, <2>5, <2>6, <2>7, <3>1, AnalyseStep
  <2>8. CASE main \notin closed /\ delta' = dl /\ UNCHANGED <<report, deltas>>
    BY <2>2, <2>5, <2>6, <2>8 DEF DeltaAccounts
  <2> QED
    BY <2>3, <2>7, <2>8
<1>4. CASE SessionClose
  <2>1. main' = main /\ since'[main] = IF main \in Pending THEN << >> ELSE since[main]
    BY <1>0, <1>4 DEF SessionClose, Remember
  <2>2. CASE main \in Pending
    <3>1. Analyse(series'[main].last[1], delta, since[main])
      BY <1>4, <2>2 DEF SessionClose
    <3>2. since'[main'] = << >>
      BY <2>1, <2>2
    <3> QED
      BY <1>0, <1>1, <3>1, <3>2, AnalyseStep
  <2>3. CASE main \notin Pending
    <3>1. UNCHANGED <<delta, deltas, report>>
      BY <1>4, <2>3 DEF SessionClose
    <3> QED
      BY <1>1, <2>1, <2>3, <3>1 DEF DeltaAccounts
  <2> QED
    BY <2>2, <2>3
<1>5. CASE SessionOpen
  <2>1. /\ main' = main /\ delta' = D!DeltaState /\ deltas' = << >> /\ report' = << >>
        /\ since'[main] = IF main \in Pending THEN << >> ELSE since[main]
    BY <1>0, <1>5 DEF SessionOpen, Remember
  <2>2. CASE main \in Pending
    BY <2>1, <2>2, FreshDelta DEF DeltaAccounts, Reported
  <2>3. CASE main \notin Pending
    <3>1. since'[main] = since[main]
      BY <2>1, <2>3
    <3>2. series[main].current = << >>
      BY <1>0, <2>3 DEF Pending
    <3>3. since[main] = << >>
      BY <1>0, <3>2 DEF SeriesHold, SeriesAccount
    <3> QED
      BY <2>1, <3>1, <3>3, FreshDelta DEF DeltaAccounts, Reported
  <2> QED
    BY <2>2, <2>3
<1>6. CASE AddSeries
  <2>1. PICK size \in ValidSizes \ DOMAIN series :
          since' = [s \in DOMAIN series \cup {size} |-> IF s = size THEN << >> ELSE since[s]]
    BY <1>6 DEF AddSeries
  <2>2. since'[main] = since[main] /\ UNCHANGED <<main, delta, deltas, report>>
    BY <1>0, <1>6, <2>1 DEF AddSeries
  <2> QED
    BY <1>1, <2>2 DEF DeltaAccounts
<1>7. CASE RemoveSeries
  <2>1. PICK size \in DOMAIN series \ {main} :
          since' = [s \in DOMAIN series \ {size} |-> since[s]]
    BY <1>7 DEF RemoveSeries
  <2>2. since'[main] = since[main] /\ UNCHANGED <<main, delta, deltas, report>>
    BY <1>0, <1>7, <2>1 DEF RemoveSeries
  <2> QED
    BY <1>1, <2>2 DEF DeltaAccounts
<1> QED
  BY <1>2, <1>3, <1>4, <1>5, <1>6, <1>7 DEF Next, Quote, TradeUnclassified, vars

LEMMA DeltaAlwaysAccounts == Spec => []DeltaAccounts
<1>1. HistoryTyped /\ LeeTyped /\ SeriesHold /\ DeltaAccounts /\ [Next]_vars => DeltaAccounts'
  BY DeltaStep
<1> QED
  BY <1>1, DeltaStarts, HistoryStaysTyped, SeriesAlwaysHold, PTL DEF Spec

(* For every feed: the engine's own sums are those of the trades after the *)
(* last bar, of every bar and of the session, and its average lies between *)
(* the smallest and the largest delta.                                     *)
THEOREM DeltaAlwaysMatchesTrades == Spec => []DeltaMatchesTrades
<1>1. DeltaAccounts => DeltaMatchesTrades
  <2> SUFFICES ASSUME DeltaAccounts PROVE DeltaMatchesTrades
    OBVIOUS
  <2> DEFINE t == since[main]
             running == {B!DeltaOf(SubSeq(t, 1, i)) : i \in DOMAIN t}
             session == {deltas[i] : i \in DOMAIN deltas}
             sizes == {D!Magnitude(d) : d \in session}
  <2>1. BarAccount(delta, t) /\ SessionAccount(delta, deltas) /\ Reported(report, delta, deltas)
    BY DEF DeltaAccounts
  <2>2. {0} \cup running = Running(t) /\ session = Of(deltas)
    BY DEF Running, Of
  <2>3. /\ <<delta.ask, delta.bid>> = <<B!VolumeOf(t, "ASK"), B!VolumeOf(t, "BID")>>
        /\ {delta.max, delta.min} \ {0} \subseteq running
        /\ \A d \in running : delta.min <= d /\ d <= delta.max
    <3>1. /\ {delta.max, delta.min} \subseteq {0} \cup running
          /\ \A d \in {0} \cup running : delta.min <= d /\ d <= delta.max
      BY <2>1, <2>2 DEF BarAccount
    <3>2. <<delta.ask, delta.bid>> = <<B!VolumeOf(t, "ASK"), B!VolumeOf(t, "BID")>>
      BY <2>1 DEF BarAccount
    <3> HIDE DEF running
    <3> QED
      BY <3>1, <3>2
  <2>4. /\ delta.cumulative = B!SumOf(deltas)
        /\ {delta.sessionMax, delta.sessionMin} \ {0} \subseteq session
        /\ \A d \in session : delta.sessionMin <= d /\ d <= delta.sessionMax
    BY <2>1, <2>2 DEF SessionAccount
  <2>5. deltas # << >> => /\ \E d \in sizes : delta.average <= d
                         /\ \E d \in sizes : delta.average >= d
    <3> SUFFICES ASSUME deltas # << >>
                 PROVE  /\ \E d \in sizes : delta.average <= d
                        /\ \E d \in sizes : delta.average >= d
      OBVIOUS
    <3>1. PICK i \in DOMAIN deltas : delta.average <= D!Magnitude(deltas[i])
      BY <2>1 DEF SessionAccount, Averages
    <3>2. PICK j \in DOMAIN deltas : delta.average >= D!Magnitude(deltas[j])
      BY <2>1 DEF SessionAccount, Averages
    <3>3. D!Magnitude(deltas[i]) \in sizes /\ D!Magnitude(deltas[j]) \in sizes
      OBVIOUS
    <3> QED
      BY <3>1, <3>2, <3>3
  <2>6. report # << >> => /\ report[1].filled.delta = Last(deltas)
                         /\ report[1].filled.cumulative = delta.cumulative
    BY <2>1 DEF Reported
  <2> HIDE DEF t, running, session, sizes
  <2> QED
    BY <2>3, <2>4, <2>5, <2>6, Zenon DEF DeltaMatchesTrades, t, running, session, sizes
<1> QED
  BY <1>1, DeltaAlwaysAccounts, PTL

(* Where the engine's extremes start: they are those of the running deltas *)
(* and of zero, of the session's bars and of zero.  delta_engine.h:32 and  *)
(* :40 say otherwise ("Highest running_delta seen in current bar",         *)
(* "Highest bar_delta seen this session"): while all are negative, the     *)
(* highest is one that no trade and no bar had.                            *)
ExtremesTakeZero ==
  LET running == {0} \cup {B!DeltaOf(SubSeq(since[main], 1, i)) : i \in DOMAIN since[main]}
      session == {0} \cup {deltas[i] : i \in DOMAIN deltas}
  IN  /\ {delta.max, delta.min} \subseteq running
      /\ \A d \in running : delta.min <= d /\ d <= delta.max
      /\ {delta.sessionMax, delta.sessionMin} \subseteq session
      /\ \A d \in session : delta.sessionMin <= d /\ d <= delta.sessionMax

THEOREM ExtremesAlwaysTakeZero == Spec => []ExtremesTakeZero
<1>1. DeltaAccounts => ExtremesTakeZero
  BY DEF DeltaAccounts, BarAccount, SessionAccount, Running, Of, ExtremesTakeZero
<1> QED
  BY <1>1, DeltaAlwaysAccounts, PTL

(* No bar is an extreme of a session that already includes it: the signal  *)
(* EXTREME_DELTA is never given.  delta_engine.h:133 says it "Fires when   *)
(* ABS(bar_delta) exceeds the session maximum" times the threshold; the    *)
(* code asks after on_bar_close() has made the bar part of the session.    *)
ExtremeDeltaNeverGiven ==
  report # << >> =>
    \A direction \in {"LONG", "SHORT"} : <<"EXTREME_DELTA", direction>> \notin report[1].signals

THEOREM ExtremeDeltaIsNeverGiven == Spec => []ExtremeDeltaNeverGiven
<1>1. DeltaAccounts => ExtremeDeltaNeverGiven
  BY Zenon DEF DeltaAccounts, Reported, ExtremeDeltaNeverGiven
<1> QED
  BY <1>1, DeltaAlwaysAccounts, PTL

(* For every feed: a surge is three times some earlier bar of its session. *)
THEOREM SurgesStandOut == Spec => []SurgeStandsOut
<1>1. DeltaAccounts => SurgeStandsOut
  <2> SUFFICES ASSUME DeltaAccounts, report # << >> PROVE SurgeStandsOut
    BY DEF SurgeStandsOut
  <2>1. Reported(report, delta, deltas)
    BY DEF DeltaAccounts
  <2> QED
    BY <2>1, Zenon DEF Reported, SurgeStandsOut
<1> QED
  BY <1>1, DeltaAlwaysAccounts, PTL

---------------------------------------------------------------------------
(* The registry of stacked zones.                                          *)
Zone == [direction : {"LONG", "SHORT"}, low : Nat, high : Nat, created : Int, resolved : Int]
Streak == [low : Nat, high : Nat]

(* The zones after the streaks of one direction, added one by one.         *)
Adds(f, base, d, ss, number) ==
  f = [s \in SUBSET (DOMAIN ss) |->
         IF s = {} THEN base
         ELSE I!AddStreak(f[s \ {Largest(s)}], d, ss[Largest(s)], number)]

AllAdded(base, d, ss, number) == (CHOOSE f : Adds(f, base, d, ss, number))[DOMAIN ss]

Buys(levels) == {i \in DOMAIN levels : I!IsBuyImbalance(levels, i)}
Sells(levels) == {i \in DOMAIN levels : I!IsSellImbalance(levels, i)}

LEMMA DetectIs ==
  ASSUME NEW zs, NEW levels, NEW number
  PROVE  I!DetectStacked(zs, levels, number)
           = AllAdded(AllAdded(zs, "LONG", I!Streaks(levels, Buys(levels)), number),
                      "SHORT", I!Streaks(levels, Sells(levels)), number)
BY Zenon DEF I!DetectStacked, I!FoldLeft, I!MapThenFoldSet, I!Max, Adds, AllAdded, Largest, Buys, Sells

LEMMA AddsExist ==
  ASSUME NEW n \in Nat, NEW ss, DOMAIN ss = 1 .. n, NEW base, NEW d, NEW number
  PROVE  \E f : Adds(f, base, d, ss, number)
<1> DEFINE P == SUBSET (1 .. n)
           Small(k) == {s \in P : Cardinality(s) <= k}
           Then(z, s) == I!AddStreak(z, d, ss[Largest(s)], number)
           UpTo(f, k) == f = [s \in Small(k) |->
                                IF s = {} THEN base ELSE Then(f[s \ {Largest(s)}], s)]
           N == {k \in Nat : \E f : UpTo(f, k)}
<1> HIDE DEF Then
<1>0. IsFiniteSet(1 .. n) /\ Cardinality(1 .. n) = n
  BY FS_Interval
<1>1. \A s \in P : IsFiniteSet(s) /\ Cardinality(s) \in Nat /\ Cardinality(s) <= n
  BY <1>0, FS_Subset, FS_CardinalityType
<1>2. \A s \in P : s # {} => Largest(s) \in s
  BY LastIn
<1>3. 0 \in N
  <2> DEFINE f == [s \in Small(0) |-> base]
  <2>1. \A s \in Small(0) : s = {}
    BY <1>1, FS_EmptySet
  <2>2. UpTo(f, 0)
    BY <2>1
  <2> HIDE DEF f, UpTo
  <2> QED
    BY <2>2
<1>4. ASSUME NEW k \in Nat, k \in N PROVE k + 1 \in N
  <2>1. PICK f : UpTo(f, k)
    BY <1>4
  <2> DEFINE g == [s \in Small(k + 1) |->
                     IF Cardinality(s) <= k THEN f[s] ELSE Then(f[s \ {Largest(s)}], s)]
  <2>2. ASSUME NEW s \in Small(k + 1)
        PROVE  g[s] = IF s = {} THEN base ELSE Then(g[s \ {Largest(s)}], s)
    <3>1. s # {} => /\ s \ {Largest(s)} \in P
                    /\ Cardinality(s \ {Largest(s)}) = Cardinality(s) - 1
      BY <1>1, <1>2, FS_RemoveElement
    <3>2. s # {} => s \ {Largest(s)} \in Small(k) /\ g[s \ {Largest(s)}] = f[s \ {Largest(s)}]
      BY <1>1, <3>1
    <3>3. CASE Cardinality(s) <= k
      <4>1. f[s] = IF s = {} THEN base ELSE Then(f[s \ {Largest(s)}], s)
        BY <2>1, <3>3
      <4> QED
        BY <3>2, <3>3, <4>1
    <3>4. CASE ~(Cardinality(s) <= k)
      <4>1. s # {}
        BY <1>1, <3>4, FS_EmptySet
      <4> QED
        BY <3>2, <3>4, <4>1
    <3> QED
      BY <3>3, <3>4
  <2>3. UpTo(g, k + 1)
    BY <2>2
  <2> HIDE DEF g, UpTo
  <2> QED
    BY <2>3
<1>5. n \in N
  <2> HIDE DEF N
  <2> QED
    BY <1>3, <1>4, Induction
<1>6. Small(n) = P
  BY <1>1
<1>7. PICK f : UpTo(f, n)
  BY <1>5
<1> QED
  BY <1>6, <1>7, Zenon DEF Adds, Then

(* Zones of one direction are added after the others, which stay as they   *)
(* are when none of that direction is active.                              *)
Grown(zs, base, d, number, ss, k) ==
  /\ zs \in Seq(Zone) /\ Len(zs) >= Len(base)
  /\ \A i \in 1 .. Len(base) : zs[i] = base[i]
  /\ \A i \in Len(base) + 1 .. Len(zs) :
       /\ zs[i].direction = d /\ zs[i].resolved = 0 /\ zs[i].created = number
       /\ \E j \in 1 .. k : zs[i].low = ss[j].low /\ zs[i].high = ss[j].high
  /\ k > 0 => Len(zs) > Len(base)

LEMMA StreakAdded ==
  ASSUME NEW base \in Seq(Zone), NEW d \in {"LONG", "SHORT"}, NEW number \in Int,
         \A i \in 1 .. Len(base) : ~(base[i].resolved = 0 /\ base[i].direction = d),
         NEW n \in Nat, NEW ss, \A j \in 1 .. n : ss[j] \in Streak,
         NEW k \in 0 .. n - 1, NEW zs, Grown(zs, base, d, number, ss, k)
  PROVE  Grown(I!AddStreak(zs, d, ss[k + 1], number), base, d, number, ss, k + 1)
<1> DEFINE s == ss[k + 1]
           known == {i \in DOMAIN zs : I!Extends(zs[i], d, s)}
           first == CHOOSE i \in known : \A j \in known : i <= j
           new == I!AddStreak(zs, d, s, number)
<1>1. k + 1 \in 1 .. n /\ s \in Streak /\ s.low \in Nat /\ s.high \in Nat
  BY DEF Streak
<1>2. PICK m \in Nat : m = Len(base)
  BY LenProperties
<1>3. PICK l \in Nat : l = Len(zs) /\ DOMAIN zs = 1 .. l /\ l >= m
  BY <1>2, LenProperties DEF Grown
<1>4. zs \in Seq(Zone) /\ \A i \in 1 .. l : zs[i] \in Zone
  BY <1>3, ElementOfSeq DEF Grown
<1>5. /\ \A i \in 1 .. m : zs[i] = base[i]
      /\ \A i \in m + 1 .. l :
           /\ zs[i].direction = d /\ zs[i].resolved = 0 /\ zs[i].created = number
           /\ \E j \in 1 .. k : zs[i].low = ss[j].low /\ zs[i].high = ss[j].high
  BY <1>2, <1>3 DEF Grown
<1> HIDE DEF s
<1>6. CASE known = {}
  <2> DEFINE z == [direction |-> d, low |-> s.low, high |-> s.high, created |-> number, resolved |-> 0]
  <2>1. new = Append(zs, z)
    BY <1>6 DEF I!AddStreak
  <2>2. /\ z \in Zone /\ z.direction = d /\ z.resolved = 0 /\ z.created = number
      /\ z.low = s.low /\ z.high = s.high
    BY <1>1 DEF Zone
  <2> HIDE DEF z, new
  <2>3. /\ new \in Seq(Zone) /\ Len(new) = l + 1 /\ new[l + 1] = z
        /\ \A i \in 1 .. l : new[i] = zs[i]
    BY <1>3, <1>4, <2>1, <2>2, AppendProperties
  <2>4. ASSUME NEW i \in m + 1 .. l + 1
        PROVE  /\ new[i].direction = d /\ new[i].resolved = 0 /\ new[i].created = number
               /\ \E j \in 1 .. k + 1 : new[i].low = ss[j].low /\ new[i].high = ss[j].high
    <3>1. CASE i = l + 1
      BY <1>1, <2>2, <2>3, <3>1 DEF s
    <3>2. CASE i \in m + 1 .. l
      <4>1. new[i] = zs[i]
        BY <2>3, <3>2
      <4>2. PICK j \in 1 .. k : zs[i].low = ss[j].low /\ zs[i].high = ss[j].high
        BY <1>5, <3>2
      <4>3. j \in 1 .. k + 1
        OBVIOUS
      <4> QED
        BY <1>5, <3>2, <4>1, <4>2, <4>3
    <3> QED
      BY <1>3, <3>1, <3>2
  <2>5. \A i \in 1 .. m : new[i] = base[i]
    BY <1>3, <1>5, <2>3
  <2> QED
    BY <1>2, <1>3, <2>3, <2>4, <2>5 DEF Grown, new, s
<1>7. CASE known # {}
  <2>1. first \in known
    <3>1. known \in SUBSET Nat
      BY <1>3
    <3> HIDE DEF known
    <3> QED
      BY <1>7, <3>1, LeastElement
  <2> HIDE DEF first
  <2>2. first \in 1 .. l /\ zs[first].resolved = 0 /\ zs[first].direction = d
    BY <1>3, <2>1 DEF I!Extends
  <2>3. first \in m + 1 .. l
    BY <1>2, <1>3, <1>5, <2>2
  <2> DEFINE z == [zs[first] EXCEPT !.low = s.low, !.high = s.high]
  <2>4. /\ z \in Zone /\ z.direction = d /\ z.resolved = 0 /\ z.created = number
        /\ z.low = s.low /\ z.high = s.high
    <3>1. zs[first] \in Zone
      BY <1>4, <2>2
    <3>2. zs[first].created = number
      BY <1>5, <2>3
    <3> QED
      BY <1>1, <2>2, <3>1, <3>2 DEF Zone
  <2>5. new = [zs EXCEPT ![first].low = s.low, ![first].high = s.high]
    BY <1>7 DEF I!AddStreak, first
  <2>6. new = [zs EXCEPT ![first] = z]
    BY <1>3, <2>2, <2>5
  <2> HIDE DEF z, new
  <2>7. /\ new \in Seq(Zone) /\ Len(new) = l
        /\ \A i \in 1 .. l : new[i] = IF i = first THEN z ELSE zs[i]
    BY <1>3, <1>4, <2>2, <2>4, <2>6, ExceptSeq
  <2>8. ASSUME NEW i \in m + 1 .. l
        PROVE  /\ new[i].direction = d /\ new[i].resolved = 0 /\ new[i].created = number
               /\ \E j \in 1 .. k + 1 : new[i].low = ss[j].low /\ new[i].high = ss[j].high
    <3>1. CASE i = first
      BY <1>1, <2>2, <2>4, <2>7, <3>1 DEF s
    <3>2. CASE i # first
      <4>1. new[i] = zs[i]
        BY <2>7, <3>2
      <4>2. PICK j \in 1 .. k : zs[i].low = ss[j].low /\ zs[i].high = ss[j].high
        BY <1>5
      <4>3. j \in 1 .. k + 1
        OBVIOUS
      <4> QED
        BY <1>5, <4>1, <4>2, <4>3
    <3> QED
      BY <3>1, <3>2
  <2>9. ASSUME NEW i \in 1 .. m PROVE new[i] = base[i]
    <3>1. i \in 1 .. l /\ i # first
      BY <2>3
    <3>2. new[i] = zs[i]
      BY <2>7, <3>1
    <3> QED
      BY <1>5, <3>2
  <2>10. l > m
    BY <2>3
  <2> QED
    BY <1>2, <1>3, <2>7, <2>8, <2>9, <2>10 DEF Grown, new, s
<1> QED
  BY <1>6, <1>7

LEMMA AllAddedGrown ==
  ASSUME NEW base \in Seq(Zone), NEW d \in {"LONG", "SHORT"}, NEW number \in Int,
         \A i \in 1 .. Len(base) : ~(base[i].resolved = 0 /\ base[i].direction = d),
         NEW n \in Nat, NEW ss, DOMAIN ss = 1 .. n, \A j \in 1 .. n : ss[j] \in Streak
  PROVE  Grown(AllAdded(base, d, ss, number), base, d, number, ss, n)
<1> DEFINE f == CHOOSE g : Adds(g, base, d, ss, number)
           T == {k \in Nat : k <= n => Grown(f[1 .. k], base, d, number, ss, k)}
<1>1. Adds(f, base, d, ss, number)
  BY AddsExist
<1> HIDE DEF f
<1>2. f = [s \in SUBSET (1 .. n) |->
             IF s = {} THEN base
             ELSE I!AddStreak(f[s \ {Largest(s)}], d, ss[Largest(s)], number)]
  BY <1>1 DEF Adds
<1>3. f[1 .. 0] = base
  <2>1. 1 .. 0 = {}
    OBVIOUS
  <2> QED
    BY <1>2, <2>1
<1>4. Grown(base, base, d, number, ss, 0)
  <2>1. Len(base) \in Nat
    BY LenProperties
  <2> QED
    BY <2>1 DEF Grown
<1>5. 0 \in T
  BY <1>3, <1>4
<1>6. ASSUME NEW k \in Nat, k \in T PROVE k + 1 \in T
  <2> SUFFICES ASSUME k + 1 <= n PROVE Grown(f[1 .. k + 1], base, d, number, ss, k + 1)
    OBVIOUS
  <2>1. Grown(f[1 .. k], base, d, number, ss, k)
    BY <1>6
  <2>2. Largest(1 .. k + 1) = k + 1
    <3> DEFINE s == 1 .. k + 1
    <3>1. k + 1 \in Nat /\ k + 1 \in s /\ \A x \in s : x \in Int /\ x <= k + 1
      OBVIOUS
    <3>2. s \in SUBSET (1 .. k + 1)
      OBVIOUS
    <3> HIDE DEF s
    <3>3. Largest(s) \in s /\ Largest(s) >= k + 1
      BY <3>1, <3>2, LastIn
    <3>4. Largest(s) = k + 1
      BY <3>1, <3>3
    <3> QED
      BY <3>4 DEF s
  <2>3. (1 .. k + 1) \ {k + 1} = 1 .. k /\ 1 .. k + 1 # {} /\ 1 .. k + 1 \in SUBSET (1 .. n)
    <3>1. \A x \in 1 .. k + 1 : x \in 1 .. n
      OBVIOUS
    <3>2. k + 1 \in 1 .. k + 1
      OBVIOUS
    <3>3. \A x : x \in (1 .. k + 1) \ {k + 1} <=> x \in 1 .. k
      OBVIOUS
    <3> QED
      BY <3>1, <3>2, <3>3
  <2>4. f[1 .. k + 1] = I!AddStreak(f[1 .. k], d, ss[k + 1], number)
    BY <1>2, <2>2, <2>3
  <2>5. k \in 0 .. n - 1
    OBVIOUS
  <2> QED
    BY <2>1, <2>4, <2>5, StreakAdded
<1>7. n \in T
  <2> HIDE DEF T
  <2> QED
    BY <1>5, <1>6, Induction
<1>8. AllAdded(base, d, ss, number) = f[1 .. n]
  BY DEF AllAdded, f
<1> QED
  BY <1>7, <1>8

(* What a bar adds to a registry without active zones.                     *)
Settled(zs) ==
  zs \in Seq(Zone) /\ \A i \in 1 .. Len(zs) : zs[i].resolved # 0 /\ zs[i].resolved = zs[i].created

Detected(new, zs, number, buys, sells) ==
  /\ new \in Seq(Zone) /\ Len(new) >= Len(zs)
  /\ \A i \in 1 .. Len(zs) : new[i] = zs[i]
  /\ \A i \in Len(zs) + 1 .. Len(new) : new[i].created = number /\ new[i].resolved = 0
  /\ \A i \in Len(zs) + 1 .. Len(new) :
       \/ new[i].direction = "LONG" /\ \E j \in DOMAIN buys : new[i].low = buys[j].low
       \/ new[i].direction = "SHORT" /\ \E j \in DOMAIN sells : new[i].high = sells[j].high
  /\ (\E i \in Len(zs) + 1 .. Len(new) : new[i].direction = "LONG") <=> DOMAIN buys # {}
  /\ (\E i \in Len(zs) + 1 .. Len(new) : new[i].direction = "SHORT") <=> DOMAIN sells # {}

IsStreaks(ss) == \E n \in Nat : DOMAIN ss = 1 .. n /\ \A j \in 1 .. n : ss[j] \in Streak

LEMMA BothAdded ==
  ASSUME NEW zs, Settled(zs), NEW number \in Int,
         NEW buys, IsStreaks(buys), NEW sells, IsStreaks(sells)
  PROVE  Detected(AllAdded(AllAdded(zs, "LONG", buys, number), "SHORT", sells, number),
                  zs, number, buys, sells)
<1>p. PICK n \in Nat : DOMAIN buys = 1 .. n /\ \A j \in 1 .. n : buys[j] \in Streak
  BY DEF IsStreaks
<1>q. PICK m \in Nat : DOMAIN sells = 1 .. m /\ \A j \in 1 .. m : sells[j] \in Streak
  BY DEF IsStreaks
<1> USE <1>p, <1>q
<1> DEFINE mid == AllAdded(zs, "LONG", buys, number)
           new == AllAdded(mid, "SHORT", sells, number)
<1>1. zs \in Seq(Zone) /\ \A i \in 1 .. Len(zs) : zs[i].resolved # 0
  BY DEF Settled
<1>2. Grown(mid, zs, "LONG", number, buys, n)
  BY <1>1, AllAddedGrown
<1>3. PICK a, b \in Nat : a = Len(zs) /\ b = Len(mid) /\ a <= b
  BY <1>1, <1>2, LenProperties DEF Grown
<1> HIDE DEF mid
<1>4. /\ mid \in Seq(Zone) /\ (n > 0 => b > a)
      /\ \A i \in 1 .. a : mid[i] = zs[i]
      /\ \A i \in a + 1 .. b : mid[i].created = number /\ mid[i].resolved = 0
      /\ \A i \in a + 1 .. b : mid[i].direction = "LONG" /\ \E j \in 1 .. n : mid[i].low = buys[j].low
  BY <1>2, <1>3 DEF Grown
<1>5. \A i \in 1 .. b : ~(mid[i].resolved = 0 /\ mid[i].direction = "SHORT")
  <2> SUFFICES ASSUME NEW i \in 1 .. b
               PROVE  mid[i].resolved # 0 \/ mid[i].direction # "SHORT"
    OBVIOUS
  <2>1. CASE i \in 1 .. a
    <3>1. mid[i] = zs[i] /\ zs[i].resolved # 0
      BY <1>1, <1>3, <1>4, <2>1
    <3> QED
      BY <3>1
  <2>2. CASE i \in a + 1 .. b
    BY <1>4, <2>2
  <2>3. i \in 1 .. a \/ i \in a + 1 .. b
    BY <1>3
  <2> QED
    BY <2>1, <2>2, <2>3
<1>6. Grown(new, mid, "SHORT", number, sells, m)
  BY <1>3, <1>4, <1>5, AllAddedGrown
<1>7. PICK c \in Nat : c = Len(new) /\ b <= c
  BY <1>3, <1>6, LenProperties DEF Grown
<1> HIDE DEF new
<1>8. /\ new \in Seq(Zone) /\ (m > 0 => c > b)
      /\ \A i \in 1 .. b : new[i] = mid[i]
      /\ \A i \in b + 1 .. c : new[i].created = number /\ new[i].resolved = 0
      /\ \A i \in b + 1 .. c : new[i].direction = "SHORT" /\ \E j \in 1 .. m : new[i].high = sells[j].high
  BY <1>3, <1>6, <1>7 DEF Grown
<1>9. \A i \in 1 .. a : new[i] = zs[i]
  BY <1>3, <1>4, <1>8
<1>10. \A i \in a + 1 .. b :
          new[i].direction = "LONG" /\ \E j \in 1 .. n : new[i].low = buys[j].low
  BY <1>3, <1>4, <1>8
<1>11. \A i \in a + 1 .. c :
          \/ new[i].direction = "LONG" /\ \E j \in DOMAIN buys : new[i].low = buys[j].low
          \/ new[i].direction = "SHORT" /\ \E j \in DOMAIN sells : new[i].high = sells[j].high
  <2> SUFFICES ASSUME NEW i \in a + 1 .. c
               PROVE  \/ new[i].direction = "LONG" /\ \E j \in 1 .. n : new[i].low = buys[j].low
                      \/ new[i].direction = "SHORT" /\ \E j \in 1 .. m : new[i].high = sells[j].high
    OBVIOUS
  <2>1. i \in a + 1 .. b \/ i \in b + 1 .. c
    OBVIOUS
  <2> QED
    BY <1>8, <1>10, <2>1
<1>12. (\E i \in a + 1 .. c : new[i].direction = "LONG") <=> DOMAIN buys # {}
  <2>1. ASSUME DOMAIN buys # {} PROVE \E i \in a + 1 .. c : new[i].direction = "LONG"
    <3>1. a + 1 \in a + 1 .. b /\ a + 1 \in a + 1 .. c
      BY <1>3, <1>4, <1>7, <2>1
    <3> QED
      BY <1>10, <3>1
  <2>2. ASSUME NEW i \in a + 1 .. c, new[i].direction = "LONG" PROVE DOMAIN buys # {}
    BY <1>11, <2>2
  <2> QED
    BY <2>1, <2>2
<1>13. (\E i \in a + 1 .. c : new[i].direction = "SHORT") <=> DOMAIN sells # {}
  <2>1. ASSUME DOMAIN sells # {} PROVE \E i \in a + 1 .. c : new[i].direction = "SHORT"
    <3>1. b + 1 \in b + 1 .. c /\ b + 1 \in a + 1 .. c
      BY <1>3, <1>7, <1>8, <2>1
    <3> QED
      BY <1>8, <3>1
  <2>2. ASSUME NEW i \in a + 1 .. c, new[i].direction = "SHORT" PROVE DOMAIN sells # {}
    BY <1>11, <2>2
  <2> QED
    BY <2>1, <2>2
<1>14. \A i \in a + 1 .. c : new[i].created = number /\ new[i].resolved = 0
  <2> SUFFICES ASSUME NEW i \in a + 1 .. c PROVE new[i].created = number /\ new[i].resolved = 0
    OBVIOUS
  <2>1. i \in a + 1 .. b \/ i \in b + 1 .. c
    OBVIOUS
  <2> QED
    BY <1>3, <1>4, <1>8, <2>1
<1> QED
  BY <1>3, <1>7, <1>8, <1>9, <1>11, <1>12, <1>13, <1>14 DEF Detected, new, mid

---------------------------------------------------------------------------
(* The streaks of flagged levels.                                          *)
Ends(F) == {x \in F \X F : /\ x[2] - x[1] + 1 >= StackedMin
                           /\ x[1] .. x[2] \subseteq F
                           /\ {x[1] - 1, x[2] + 1} \cap F = {}}

LEMMA StackedMinTyped == StackedMin \in Nat \ {0} /\ Ratio \in Nat \ {0}
BY S1ConfigAssumption

(* No two streaks start at the same level.                                 *)
LEMMA EndsDiffer ==
  ASSUME NEW F \in SUBSET Nat, NEW x \in Ends(F), NEW y \in Ends(F), x[1] = y[1]
  PROVE  x = y
<1>1. /\ x \in F \X F /\ x[1] \in Nat /\ x[2] \in Nat
      /\ y \in F \X F /\ y[1] \in Nat /\ y[2] \in Nat
  BY DEF Ends
<1>2. /\ x[1] .. x[2] \subseteq F /\ x[2] + 1 \notin F /\ x[2] - x[1] + 1 >= 1
      /\ y[1] .. y[2] \subseteq F /\ y[2] + 1 \notin F /\ y[2] - y[1] + 1 >= 1
  <2>1. /\ x[2] - x[1] + 1 >= StackedMin /\ y[2] - y[1] + 1 >= StackedMin
    BY DEF Ends
  <2>2. x[2] - x[1] + 1 >= 1 /\ y[2] - y[1] + 1 >= 1
    BY <1>1, <2>1, StackedMinTyped
  <2> QED
    BY <2>2 DEF Ends
<1>3. ~(x[2] < y[2])
  <2> SUFFICES ASSUME x[2] < y[2] PROVE FALSE
    OBVIOUS
  <2>1. x[2] + 1 \in y[1] .. y[2]
    BY <1>1, <1>2
  <2> QED
    BY <1>2, <2>1
<1>4. ~(y[2] < x[2])
  <2> SUFFICES ASSUME y[2] < x[2] PROVE FALSE
    OBVIOUS
  <2>1. y[2] + 1 \in x[1] .. x[2]
    BY <1>1, <1>2
  <2> QED
    BY <1>2, <2>1
<1>5. x[2] = y[2]
  BY <1>1, <1>3, <1>4
<1> QED
  BY <1>1, <1>5

LEMMA EndsFinite ==
  ASSUME NEW n \in Nat, NEW F \in SUBSET (1 .. n)
  PROVE  IsFiniteSet(Ends(F))
<1> DEFINE f == [x \in Ends(F) |-> x[1]]
<1>1. F \in SUBSET Nat
  OBVIOUS
<1>2. IsFiniteSet(1 .. n)
  BY FS_Interval
<1>3. \A x \in Ends(F) : x[1] \in 1 .. n
  BY DEF Ends
<1>4. \A x, y \in Ends(F) : f[x] = f[y] => x = y
  BY <1>1, EndsDiffer
<1>5. f \in Injection(Ends(F), 1 .. n)
  BY <1>3, <1>4 DEF Injection, IsInjective
<1> HIDE DEF f
<1> QED
  BY <1>2, <1>5, FS_Injection

(* A run of flagged levels that is long enough lies in a streak.           *)
LEMMA RunInStreak ==
  ASSUME NEW n \in Nat, NEW F \in SUBSET (1 .. n), NEW i \in F, NEW j \in F,
         j - i + 1 >= StackedMin, i .. j \subseteq F
  PROVE  Ends(F) # {}
<1>1. i \in 1 .. n /\ j \in 1 .. n /\ StackedMin \in Nat \ {0} /\ i <= j
  BY StackedMinTyped
<1> DEFINE A == {a \in Nat : a <= i /\ a .. i \subseteq F}
<1>2. PICK a \in A : \A k \in A : a <= k
  <2>1. i \in A
    BY <1>1
  <2>2. A \in SUBSET Nat
    OBVIOUS
  <2> HIDE DEF A
  <2> QED
    BY <2>1, <2>2, LeastElement
<1>3. a \in Nat /\ a <= i /\ a .. i \subseteq F /\ a \in F
  BY <1>2
<1>4. a - 1 \notin F
  <2> SUFFICES ASSUME a - 1 \in F PROVE FALSE
    OBVIOUS
  <2>1. a - 1 \in Nat
    OBVIOUS
  <2>2. \A x \in a - 1 .. i : x = a - 1 \/ x \in a .. i
    BY <1>1, <1>3, <2>1
  <2>3. a - 1 \in A
    BY <1>1, <1>3, <2>1, <2>2
  <2> QED
    BY <1>1, <1>2, <1>3, <2>3
<1> DEFINE C == {b \in 1 .. n : j <= b /\ j .. b \subseteq F}
           b == Largest(C)
<1>5. b \in C /\ \A k \in C : b >= k
  <2>1. j \in C
    BY <1>1
  <2>2. C \in SUBSET (1 .. n)
    OBVIOUS
  <2> HIDE DEF C
  <2> QED
    BY <2>1, <2>2, LastIn
<1> HIDE DEF b
<1>6. b \in 1 .. n /\ j <= b /\ j .. b \subseteq F /\ b \in F
  BY <1>1, <1>5
<1>7. b + 1 \notin F
  <2> SUFFICES ASSUME b + 1 \in F PROVE FALSE
    OBVIOUS
  <2>1. b + 1 \in 1 .. n
    OBVIOUS
  <2>2. \A x \in j .. b + 1 : x = b + 1 \/ x \in j .. b
    BY <1>1, <1>6
  <2>3. b + 1 \in C
    BY <1>1, <1>6, <2>1, <2>2
  <2> QED
    BY <1>5, <1>6, <2>3
<1>8. a .. b \subseteq F
  <2>1. \A x \in a .. b : x \in a .. i \/ x \in i .. j \/ x \in j .. b
    BY <1>1, <1>3, <1>6
  <2> QED
    BY <1>3, <1>6, <2>1
<1>9. b - a + 1 >= StackedMin
  BY <1>1, <1>3, <1>6
<1> DEFINE x == <<a, b>>
<1>10. x[1] = a /\ x[2] = b /\ x \in F \X F
  BY <1>3, <1>6
<1> HIDE DEF x
<1>11. x \in Ends(F)
  BY <1>4, <1>7, <1>8, <1>9, <1>10 DEF Ends
<1> QED
  BY <1>11

(* The streaks of flagged levels: each runs from one of them to another,   *)
(* and there is one exactly when a run of them is long enough.             *)
Streaked(ss, levels, F) ==
  \E m \in Nat :
    /\ DOMAIN ss = 1 .. m /\ (m # 0 <=> Ends(F) # {})
    /\ \A k \in 1 .. m :
         /\ ss[k] \in Streak
         /\ \E a \in F : ss[k].low = levels[a].price
         /\ \E a \in F : ss[k].high = levels[a].price

LEMMA StreaksAre ==
  ASSUME NEW n \in Nat, NEW levels, \A i \in 1 .. n : levels[i].price \in Nat,
         NEW F \in SUBSET (1 .. n)
  PROVE  Streaked(I!Streaks(levels, F), levels, F)
<1> DEFINE E == Ends(F)
           v == [x \in E |-> x[1]]
           m == Cardinality(E)
           nth(k) == CHOOSE x \in E : Cardinality(Below(E, v, x)) = k - 1
           ss == [k \in 1 .. m |-> [low |-> levels[nth(k)[1]].price, high |-> levels[nth(k)[2]].price]]
<1>1. IsFiniteSet(E) /\ m \in Nat /\ (m = 0 <=> E = {})
  BY EndsFinite, FS_CardinalityType, FS_EmptySet
<1>2. F \in SUBSET Nat
  OBVIOUS
<1>3. \A x \in E : v[x] \in Int /\ x[1] \in F /\ x[2] \in F
  <2>1. \A x \in E : x[1] \in F /\ x[2] \in F
    BY DEF Ends
  <2> HIDE DEF E
  <2>2. \A a \in F : a \in Int
    BY <1>2
  <2>3. \A x \in E : v[x] = x[1]
    OBVIOUS
  <2> HIDE DEF v
  <2> QED
    BY <2>1, <2>2, <2>3
<1>4. \A x, y \in E : v[x] = v[y] => x = y
  BY <1>2, EndsDiffer
<1>5. \A x \in E : {y \in E : y[1] < x[1]} = Below(E, v, x)
  BY DEF Below
<1>6. I!Streaks(levels, F) = ss
  <2> DEFINE other(k) == CHOOSE x \in E : I!Cardinality({y \in E : y[1] < x[1]}) = k - 1
  <2>1. I!Streaks(levels, F) =
          [k \in 1 .. I!Cardinality(E) |-> [low |-> levels[other(k)[1]].price,
                                            high |-> levels[other(k)[2]].price]]
    BY Zenon DEF I!Streaks, Ends
  <2>2. \A x \in E : I!Cardinality({y \in E : y[1] < x[1]}) = Cardinality(Below(E, v, x))
    BY <1>5, SameCardinality
  <2>3. I!Cardinality(E) = m
    BY SameCardinality
  <2> HIDE DEF E, v, m
  <2>4. ASSUME NEW k PROVE other(k) = nth(k)
    BY <2>2
  <2> HIDE DEF other, nth
  <2> QED
    BY <2>1, <2>3, <2>4
<1> HIDE DEF E, v, m
<1>7. \A k \in 1 .. m : \E x \in E : Cardinality(Below(E, v, x)) = k - 1
  <2>1. Cardinality(E) = m
    BY DEF m
  <2> QED
    BY <1>1, <1>3, <1>4, <2>1, Ranks
<1>8. \A k \in 1 .. m : nth(k) \in E
  BY <1>7
<1> HIDE DEF nth
<1>9. ASSUME NEW k \in 1 .. m
      PROVE  /\ ss[k] \in Streak
             /\ \E a \in F : ss[k].low = levels[a].price
             /\ \E a \in F : ss[k].high = levels[a].price
  <2>1. PICK a \in F : a = nth(k)[1]
    BY <1>3, <1>8
  <2>2. PICK b \in F : b = nth(k)[2]
    BY <1>3, <1>8
  <2>3. ss[k] = [low |-> levels[a].price, high |-> levels[b].price]
    BY <2>1, <2>2
  <2>4. levels[a].price \in Nat /\ levels[b].price \in Nat
    OBVIOUS
  <2> QED
    BY <2>3, <2>4 DEF Streak
<1>10. DOMAIN ss = 1 .. m
  OBVIOUS
<1> HIDE DEF ss
<1>11. m # 0 <=> Ends(F) # {}
  BY <1>1 DEF E
<1>12. Streaked(ss, levels, F)
  BY <1>1, <1>9, <1>10, <1>11 DEF Streaked
<1> QED
  BY <1>6, <1>12

---------------------------------------------------------------------------
(* A streak of levels is a run of adjacent prices, when flagged neighbours *)
(* are at adjacent prices.                                                 *)
Rising(levels, n) ==
  /\ DOMAIN levels = 1 .. n /\ \A i \in 1 .. n : levels[i].price \in Nat
  /\ \A i, j \in 1 .. n : i < j => levels[i].price < levels[j].price

Adjacent(levels, F) == \A i \in F : i + 1 \in F => levels[i + 1].price = levels[i].price + 1

PricesOf(Q, levels, F) == \A p \in Int : p \in Q <=> \E i \in F : levels[i].price = p

Run(Q) == \E p \in Nat : \A k \in 0 .. StackedMin - 1 : p + k \in Q

LEMMA StreaksAreRuns ==
  ASSUME NEW n \in Nat, NEW levels, Rising(levels, n), NEW F \in SUBSET (1 .. n),
         Adjacent(levels, F), NEW Q, PricesOf(Q, levels, F)
  PROVE  Ends(F) # {} <=> Run(Q)
<1>0. StackedMin \in Nat \ {0}
  BY StackedMinTyped
<1>a. \A i \in 1 .. n : levels[i].price \in Nat
  BY DEF Rising
<1>b. \A i, j \in 1 .. n : i < j => levels[i].price < levels[j].price
  BY DEF Rising
<1>c. \A i \in F : i + 1 \in F => levels[i + 1].price = levels[i].price + 1
  BY DEF Adjacent
<1>d. \A p \in Int : p \in Q <=> \E i \in F : levels[i].price = p
  BY DEF PricesOf
<1> USE <1>a, <1>b, <1>c, <1>d
<1>1. ASSUME NEW x \in Ends(F)
      PROVE  \E p \in Nat : \A k \in 0 .. StackedMin - 1 : p + k \in Q
  <2>1. PICK a \in F, b \in F : b - a + 1 >= StackedMin /\ a .. b \subseteq F
    <3>1. x[1] \in F /\ x[2] \in F /\ x[2] - x[1] + 1 >= StackedMin /\ x[1] .. x[2] \subseteq F
      BY DEF Ends
    <3> QED
      BY <3>1
  <2>2. a \in 1 .. n /\ b \in 1 .. n
    OBVIOUS
  <2>3. \A k \in 0 .. StackedMin - 1 : a + k \in F
    BY <1>0, <2>1, <2>2
  <2> DEFINE T == {k \in Nat : k <= StackedMin - 1 => levels[a + k].price = levels[a].price + k}
  <2>4. 0 \in T
    BY <2>2
  <2>5. ASSUME NEW k \in Nat, k \in T PROVE k + 1 \in T
    <3> SUFFICES ASSUME k + 1 <= StackedMin - 1
                 PROVE  levels[a + (k + 1)].price = levels[a].price + (k + 1)
      OBVIOUS
    <3>1. levels[a + k].price = levels[a].price + k
      BY <1>0, <2>5
    <3>2. a + k \in F /\ (a + k) + 1 \in F /\ a + (k + 1) = (a + k) + 1
      <4>1. a + (k + 1) = (a + k) + 1
        BY <2>2
      <4>2. k \in 0 .. StackedMin - 1 /\ k + 1 \in 0 .. StackedMin - 1
        BY <1>0
      <4>3. a + k \in F /\ a + (k + 1) \in F
        BY <2>3, <4>2
      <4> QED
        BY <4>1, <4>3
    <3>3. levels[a + (k + 1)].price = levels[a + k].price + 1
      BY <3>2
    <3>4. levels[a].price \in Nat
      BY <2>2
    <3> DEFINE p == levels[a].price
               q == levels[a + k].price
               r == levels[a + (k + 1)].price
    <3>5. q = p + k /\ r = q + 1 /\ p \in Nat
      BY <3>1, <3>3, <3>4
    <3> HIDE DEF p, q, r
    <3>6. r = p + (k + 1)
      BY <3>5
    <3> QED
      BY <3>6 DEF p, r
  <2>6. \A k \in Nat : k \in T
    <3> HIDE DEF T
    <3> QED
      BY <2>4, <2>5, Induction
  <2>7. ASSUME NEW k \in 0 .. StackedMin - 1 PROVE levels[a].price + k \in Q
    <3>1. levels[a + k].price = levels[a].price + k /\ a + k \in F
      BY <1>0, <2>3, <2>6
    <3>2. levels[a].price + k \in Int
      BY <1>0, <2>2
    <3> QED
      BY <3>1, <3>2
  <2>8. levels[a].price \in Nat
    BY <2>2
  <2> QED
    BY <2>7, <2>8
<1>2. ASSUME NEW p \in Nat, \A k \in 0 .. StackedMin - 1 : p + k \in Q
      PROVE  Ends(F) # {}
  <2>1. PICK a \in F : levels[a].price = p
    <3>1. p + 0 \in Q /\ p + 0 = p
      BY <1>0, <1>2
    <3> QED
      BY <3>1
  <2>2. a \in 1 .. n
    OBVIOUS
  <2> DEFINE T == {k \in Nat : k <= StackedMin - 1 => a + k \in F /\ levels[a + k].price = p + k}
  <2>3. 0 \in T
    BY <2>1, <2>2
  <2>4. ASSUME NEW k \in Nat, k \in T PROVE k + 1 \in T
    <3> SUFFICES ASSUME k + 1 <= StackedMin - 1
                 PROVE  a + (k + 1) \in F /\ levels[a + (k + 1)].price = p + (k + 1)
      OBVIOUS
    <3>1. a + k \in F /\ levels[a + k].price = p + k
      BY <1>0, <2>4
    <3>2. p + (k + 1) \in Q /\ p + (k + 1) \in Int
      BY <1>0, <1>2
    <3>3. PICK j \in F : levels[j].price = p + (k + 1)
      BY <3>2
    <3> DEFINE i == a + k
    <3>4. i \in 1 .. n /\ j \in 1 .. n /\ levels[i].price < levels[j].price
      BY <3>1, <3>3
    <3> HIDE DEF i
    <3>5. i < j
      <4>1. ~(j < i)
        BY <3>4
      <4>2. i # j
        BY <3>4
      <4> QED
        BY <3>4, <4>1, <4>2
    <3>6. j = i + 1
      <4> SUFFICES ASSUME i + 1 < j PROVE FALSE
        BY <3>4, <3>5
      <4>1. i + 1 \in 1 .. n /\ levels[i + 1].price \in Nat
        BY <3>4
      <4>2. levels[i].price < levels[i + 1].price /\ levels[i + 1].price < levels[j].price
        BY <3>4, <4>1
      <4> QED
        BY <3>1, <3>3, <4>1, <4>2 DEF i
    <3>7. j = a + (k + 1)
      BY <2>2, <3>6 DEF i
    <3> QED
      BY <3>3, <3>7
  <2>5. \A k \in Nat : k \in T
    <3> HIDE DEF T
    <3> QED
      BY <2>3, <2>4, Induction
  <2>6. \A k \in 0 .. StackedMin - 1 : a + k \in F
    BY <1>0, <2>5
  <2> DEFINE b == a + (StackedMin - 1)
  <2>7. b \in F /\ b - a + 1 >= StackedMin
    <3>1. StackedMin - 1 \in 0 .. StackedMin - 1
      BY <1>0
    <3>2. b \in F
      BY <2>6, <3>1
    <3> QED
      BY <1>0, <2>2, <3>2
  <2>8. a .. b \subseteq F
    <3> SUFFICES ASSUME NEW x \in a .. b PROVE x \in F
      OBVIOUS
    <3>1. x - a \in 0 .. StackedMin - 1 /\ a + (x - a) = x
      BY <1>0, <2>2
    <3> QED
      BY <2>6, <3>1
  <2> HIDE DEF b
  <2> QED
    BY <2>7, <2>8, RunInStreak
<1> QED
  BY <1>1, <1>2 DEF Run

(* Buy and sell imbalances, of prices rather than levels.                  *)
BuyAt(t, p) ==
  /\ B!VolumeAt(t, p - 1, "BID") > 0
  /\ B!VolumeAt(t, p, "ASK") >= Ratio * B!VolumeAt(t, p - 1, "BID")

SellAt(t, p) ==
  /\ B!VolumeAt(t, p + 1, "ASK") > 0
  /\ B!VolumeAt(t, p, "BID") >= Ratio * B!VolumeAt(t, p + 1, "ASK")

LEMMA AtLeast ==
  ASSUME NEW a \in Int, NEW b \in Int, NEW r \in Nat \ {0}, b > 0, a >= r * b
  PROVE  a > 0
<1>1. r * b >= 1 * b
  BY TimesGrow
<1> QED
  BY <1>1

LEMMA LevelOrNone ==
  ASSUME NEW t \in Seq(Trades), NEW levels, LevelsMatch(levels, t), NEW n \in Nat,
         DOMAIN levels = 1 .. n, NEW p \in Int, NEW side \in Sides,
         B!VolumeAt(t, p, side) > 0
  PROVE  \E j \in 1 .. n : levels[j].price = p
<1> SUFFICES ASSUME \A j \in 1 .. n : levels[j].price # p PROVE FALSE
  OBVIOUS
<1>1. \A i \in DOMAIN t : t[i].price # p
  BY DEF LevelsMatch
<1>2. B!VolumeAt(t, p, side) = 0
  BY <1>1, VolumeAtNone
<1> QED
  BY <1>2

LEMMA BuysAre ==
  ASSUME NEW t \in Seq(Trades), NEW levels, LevelsMatch(levels, t), NEW p \in Int
  PROVE  BuyAt(t, p) <=> \E i \in Buys(levels) : levels[i].price = p
<1>1. PICK n \in Nat : DOMAIN levels = 1 .. n /\ \A i \in 1 .. n : levels[i].price \in Nat \ {0}
  BY LevelFacts DEF LevelsMatch
<1>2. \A i \in 1 .. n : /\ levels[i].bid = B!VolumeAt(t, levels[i].price, "BID")
                       /\ levels[i].ask = B!VolumeAt(t, levels[i].price, "ASK")
  BY <1>1 DEF LevelsMatch
<1>3. /\ B!VolumeAt(t, p, "ASK") \in Int /\ B!VolumeAt(t, p - 1, "BID") \in Int
  BY VolumeAtTyped
<1>4. ASSUME BuyAt(t, p) PROVE \E i \in Buys(levels) : levels[i].price = p
  <2>1. /\ B!VolumeAt(t, p - 1, "BID") > 0
        /\ B!VolumeAt(t, p, "ASK") >= Ratio * B!VolumeAt(t, p - 1, "BID")
    BY <1>4 DEF BuyAt
  <2>2. B!VolumeAt(t, p, "ASK") > 0
    BY <1>3, <2>1, StackedMinTyped, AtLeast
  <2>3. PICK j \in 1 .. n : levels[j].price = p - 1
    <3>1. p - 1 \in Int /\ "BID" \in Sides
      BY DEF Sides
    <3> QED
      BY <1>1, <2>1, <3>1, LevelOrNone
  <2>4. PICK i \in 1 .. n : levels[i].price = p
    <3>1. "ASK" \in Sides
      BY DEF Sides
    <3> QED
      BY <1>1, <2>2, <3>1, LevelOrNone
  <2>5. I!IsBuyImbalance(levels, i)
    <3>1. j \in I!LevelAt(levels, levels[i].price - 1)
      BY <1>1, <2>3, <2>4 DEF I!LevelAt
    <3>2. levels[j].bid > 0 /\ levels[i].ask >= Ratio * levels[j].bid
      BY <1>2, <2>1, <2>3, <2>4
    <3> QED
      BY <3>1, <3>2 DEF I!IsBuyImbalance
  <2> QED
    BY <1>1, <2>4, <2>5 DEF Buys
<1>5. ASSUME NEW i \in Buys(levels), levels[i].price = p PROVE BuyAt(t, p)
  <2>1. i \in 1 .. n /\ I!IsBuyImbalance(levels, i)
    BY <1>1 DEF Buys
  <2>2. PICK j \in I!LevelAt(levels, p - 1) : levels[j].bid > 0 /\ levels[i].ask >= Ratio * levels[j].bid
    BY <1>5, <2>1 DEF I!IsBuyImbalance
  <2>3. j \in 1 .. n /\ levels[j].price = p - 1
    BY <1>1 DEF I!LevelAt
  <2> QED
    BY <1>2, <1>5, <2>1, <2>2, <2>3 DEF BuyAt
<1> QED
  BY <1>4, <1>5

LEMMA SellsAre ==
  ASSUME NEW t \in Seq(Trades), NEW levels, LevelsMatch(levels, t), NEW p \in Int
  PROVE  SellAt(t, p) <=> \E i \in Sells(levels) : levels[i].price = p
<1>1. PICK n \in Nat : DOMAIN levels = 1 .. n /\ \A i \in 1 .. n : levels[i].price \in Nat \ {0}
  BY LevelFacts DEF LevelsMatch
<1>2. \A i \in 1 .. n : /\ levels[i].bid = B!VolumeAt(t, levels[i].price, "BID")
                       /\ levels[i].ask = B!VolumeAt(t, levels[i].price, "ASK")
  BY <1>1 DEF LevelsMatch
<1>3. /\ B!VolumeAt(t, p, "BID") \in Int /\ B!VolumeAt(t, p + 1, "ASK") \in Int
  BY VolumeAtTyped
<1>4. ASSUME SellAt(t, p) PROVE \E i \in Sells(levels) : levels[i].price = p
  <2>1. /\ B!VolumeAt(t, p + 1, "ASK") > 0
        /\ B!VolumeAt(t, p, "BID") >= Ratio * B!VolumeAt(t, p + 1, "ASK")
    BY <1>4 DEF SellAt
  <2>2. B!VolumeAt(t, p, "BID") > 0
    BY <1>3, <2>1, StackedMinTyped, AtLeast
  <2>3. PICK j \in 1 .. n : levels[j].price = p + 1
    <3>1. p + 1 \in Int /\ "ASK" \in Sides
      BY DEF Sides
    <3> QED
      BY <1>1, <2>1, <3>1, LevelOrNone
  <2>4. PICK i \in 1 .. n : levels[i].price = p
    <3>1. "BID" \in Sides
      BY DEF Sides
    <3> QED
      BY <1>1, <2>2, <3>1, LevelOrNone
  <2>5. I!IsSellImbalance(levels, i)
    <3>1. j \in I!LevelAt(levels, levels[i].price + 1)
      BY <1>1, <2>3, <2>4 DEF I!LevelAt
    <3>2. levels[j].ask > 0 /\ levels[i].bid >= Ratio * levels[j].ask
      BY <1>2, <2>1, <2>3, <2>4
    <3> QED
      BY <3>1, <3>2 DEF I!IsSellImbalance
  <2> QED
    BY <1>1, <2>4, <2>5 DEF Sells
<1>5. ASSUME NEW i \in Sells(levels), levels[i].price = p PROVE SellAt(t, p)
  <2>1. i \in 1 .. n /\ I!IsSellImbalance(levels, i)
    BY <1>1 DEF Sells
  <2>2. PICK j \in I!LevelAt(levels, p + 1) : levels[j].ask > 0 /\ levels[i].bid >= Ratio * levels[j].ask
    BY <1>5, <2>1 DEF I!IsSellImbalance
  <2>3. j \in 1 .. n /\ levels[j].price = p + 1
    BY <1>1 DEF I!LevelAt
  <2> QED
    BY <1>2, <1>5, <2>1, <2>2, <2>3 DEF SellAt
<1> QED
  BY <1>4, <1>5

---------------------------------------------------------------------------
(* What a completed bar does to the registry: it resolves its own zones.   *)
LEMMA BuysAdjacent ==
  ASSUME NEW n \in Nat, NEW levels, DOMAIN levels = 1 .. n,
         \A i \in 1 .. n : levels[i].price \in Nat, Ascending(levels),
         NEW i \in Buys(levels), i + 1 \in Buys(levels)
  PROVE  levels[i + 1].price = levels[i].price + 1
<1>1. i \in 1 .. n /\ i + 1 \in 1 .. n
  BY DEF Buys
<1>2. PICK j \in 1 .. n : levels[j].price = levels[i + 1].price - 1
  BY DEF Buys, I!IsBuyImbalance, I!LevelAt
<1>3. \A a, b \in 1 .. n : a < b => levels[a].price < levels[b].price
  BY DEF Ascending
<1>4. ~(i + 1 <= j)
  <2> SUFFICES ASSUME i + 1 <= j PROVE FALSE
    OBVIOUS
  <2>1. i + 1 = j \/ levels[i + 1].price < levels[j].price
    BY <1>1, <1>3
  <2> QED
    BY <1>1, <1>2, <2>1
<1>5. j = i \/ levels[j].price < levels[i].price
  BY <1>1, <1>3, <1>4
<1>6. levels[i].price < levels[i + 1].price
  BY <1>1, <1>3
<1> QED
  BY <1>1, <1>2, <1>5, <1>6

LEMMA SellsAdjacent ==
  ASSUME NEW n \in Nat, NEW levels, DOMAIN levels = 1 .. n,
         \A i \in 1 .. n : levels[i].price \in Nat, Ascending(levels),
         NEW i \in Sells(levels), i + 1 \in Sells(levels)
  PROVE  levels[i + 1].price = levels[i].price + 1
<1>1. i \in 1 .. n /\ i + 1 \in 1 .. n
  BY DEF Sells
<1>2. PICK j \in 1 .. n : levels[j].price = levels[i].price + 1
  BY DEF Sells, I!IsSellImbalance, I!LevelAt
<1>3. \A a, b \in 1 .. n : a < b => levels[a].price < levels[b].price
  BY DEF Ascending
<1>4. ~(j <= i)
  <2> SUFFICES ASSUME j <= i PROVE FALSE
    OBVIOUS
  <2>1. j = i \/ levels[j].price < levels[i].price
    BY <1>1, <1>3
  <2> QED
    BY <1>1, <1>2, <2>1
<1>5. j = i + 1 \/ levels[i + 1].price < levels[j].price
  BY <1>1, <1>3, <1>4
<1>6. levels[i].price < levels[i + 1].price
  BY <1>1, <1>3
<1> QED
  BY <1>1, <1>2, <1>5, <1>6

BuyRun(t) == Run({p \in Int : BuyAt(t, p)})
SellRun(t) == Run({p \in Int : SellAt(t, p)})

(* The zones a bar adds: one exactly when there is a run of imbalances,    *)
(* each from a price of such a run.                                        *)
Found(new, zs, number, levels, t) ==
  \E buys, sells :
    /\ Detected(new, zs, number, buys, sells)
    /\ DOMAIN buys # {} <=> BuyRun(t)
    /\ DOMAIN sells # {} <=> SellRun(t)
    /\ \A j \in DOMAIN buys : \E a \in Buys(levels) : buys[j].low = levels[a].price
    /\ \A j \in DOMAIN sells : \E a \in Sells(levels) : sells[j].high = levels[a].price

LEMMA Nonempty ==
  ASSUME NEW k \in Nat
  PROVE  1 .. k # {} <=> k # 0
<1>1. CASE k = 0
  <2>1. 1 .. 0 = {}
    OBVIOUS
  <2> QED
    BY <1>1, <2>1
<1>2. CASE k # 0
  <2>1. k \in 1 .. k
    BY <1>2
  <2> QED
    BY <1>2, <2>1
<1> QED
  BY <1>1, <1>2

LEMMA BarDetects ==
  ASSUME NEW zs, Settled(zs), NEW t \in Seq(Trades), NEW bar, Stands(bar, t),
         Ascending(bar.levels), NEW number \in Int
  PROVE  Found(I!DetectStacked(zs, bar.levels, number), zs, number, bar.levels, t)
<1> DEFINE levels == bar.levels
           buys == I!Streaks(levels, Buys(levels))
           sells == I!Streaks(levels, Sells(levels))
           BQ == {p \in Int : BuyAt(t, p)}
           SQ == {p \in Int : SellAt(t, p)}
<1>1. LevelsMatch(levels, t)
  BY DEF Stands
<1>2. PICK n \in Nat : DOMAIN levels = 1 .. n /\ \A i \in 1 .. n : levels[i].price \in Nat
  BY <1>1, LevelFacts DEF LevelsMatch
<1>3. Ascending(levels)
  OBVIOUS
<1> HIDE DEF levels
<1>4. Buys(levels) \in SUBSET (1 .. n) /\ Sells(levels) \in SUBSET (1 .. n)
  BY <1>2 DEF Buys, Sells
<1>5. Rising(levels, n)
  BY <1>2, <1>3 DEF Rising, Ascending
<1>6. Streaked(buys, levels, Buys(levels)) /\ Streaked(sells, levels, Sells(levels))
  <2>1. \A F \in SUBSET (1 .. n) : Streaked(I!Streaks(levels, F), levels, F)
    <3> SUFFICES ASSUME NEW F \in SUBSET (1 .. n) PROVE Streaked(I!Streaks(levels, F), levels, F)
      OBVIOUS
    <3>1. \A i \in 1 .. n : levels[i].price \in Nat
      BY <1>2
    <3> QED
      BY <3>1, StreaksAre
  <2>2. Streaked(I!Streaks(levels, Buys(levels)), levels, Buys(levels))
    BY <1>4, <2>1, Zenon
  <2>3. Streaked(I!Streaks(levels, Sells(levels)), levels, Sells(levels))
    BY <1>4, <2>1, Zenon
  <2> QED
    BY <2>2, <2>3, Zenon
<1>7. PricesOf(BQ, levels, Buys(levels)) /\ PricesOf(SQ, levels, Sells(levels))
  <2>1. \A p \in Int : p \in BQ <=> \E i \in Buys(levels) : levels[i].price = p
    BY <1>1, BuysAre
  <2>2. \A p \in Int : p \in SQ <=> \E i \in Sells(levels) : levels[i].price = p
    BY <1>1, SellsAre
  <2> QED
    BY <2>1, <2>2 DEF PricesOf
<1>8. Adjacent(levels, Buys(levels)) /\ Adjacent(levels, Sells(levels))
  <2>1. \A i \in Buys(levels) : i + 1 \in Buys(levels) => levels[i + 1].price = levels[i].price + 1
    BY <1>2, <1>3, BuysAdjacent
  <2>2. \A i \in Sells(levels) : i + 1 \in Sells(levels) => levels[i + 1].price = levels[i].price + 1
    BY <1>2, <1>3, SellsAdjacent
  <2> QED
    BY <2>1, <2>2, Zenon DEF Adjacent
<1>9. (Ends(Buys(levels)) # {} <=> BuyRun(t)) /\ (Ends(Sells(levels)) # {} <=> SellRun(t))
  <2> HIDE DEF BQ, SQ
  <2>1. Ends(Buys(levels)) # {} <=> Run(BQ)
    BY <1>4, <1>5, <1>7, <1>8, StreaksAreRuns
  <2>2. Ends(Sells(levels)) # {} <=> Run(SQ)
    BY <1>4, <1>5, <1>7, <1>8, StreaksAreRuns
  <2> QED
    BY <2>1, <2>2 DEF BQ, SQ, BuyRun, SellRun
<1> DEFINE new == AllAdded(AllAdded(zs, "LONG", buys, number), "SHORT", sells, number)
<1>10. new = I!DetectStacked(zs, levels, number)
  BY DetectIs
<1> HIDE DEF buys, sells
<1>11. PICK m \in Nat :
         /\ DOMAIN buys = 1 .. m /\ (m # 0 <=> Ends(Buys(levels)) # {})
         /\ \A k \in 1 .. m :
              /\ buys[k] \in Streak
              /\ \E a \in Buys(levels) : buys[k].low = levels[a].price
  BY <1>6 DEF Streaked
<1>12. PICK l \in Nat :
         /\ DOMAIN sells = 1 .. l /\ (l # 0 <=> Ends(Sells(levels)) # {})
         /\ \A k \in 1 .. l :
              /\ sells[k] \in Streak
              /\ \E a \in Sells(levels) : sells[k].high = levels[a].price
  BY <1>6 DEF Streaked
<1>13. Detected(new, zs, number, buys, sells)
  <2>1. IsStreaks(buys) /\ IsStreaks(sells)
    BY <1>11, <1>12 DEF IsStreaks
  <2> QED
    BY <2>1, BothAdded
<1>14. (DOMAIN buys # {} <=> m # 0) /\ (DOMAIN sells # {} <=> l # 0)
  <2>1. DOMAIN buys = 1 .. m /\ DOMAIN sells = 1 .. l
    BY <1>11, <1>12
  <2> QED
    BY <2>1, Nonempty
<1> HIDE DEF new
<1>15. /\ DOMAIN buys # {} <=> BuyRun(t)
       /\ DOMAIN sells # {} <=> SellRun(t)
       /\ \A j \in DOMAIN buys : \E a \in Buys(levels) : buys[j].low = levels[a].price
       /\ \A j \in DOMAIN sells : \E a \in Sells(levels) : sells[j].high = levels[a].price
  <2>1. \A j \in DOMAIN buys : \E a \in Buys(levels) : buys[j].low = levels[a].price
    BY <1>11
  <2>2. \A j \in DOMAIN sells : \E a \in Sells(levels) : sells[j].high = levels[a].price
    BY <1>12
  <2>3. m # 0 <=> BuyRun(t)
    BY <1>9, <1>11
  <2>4. l # 0 <=> SellRun(t)
    BY <1>9, <1>12
  <2>5. (DOMAIN buys # {} <=> BuyRun(t)) /\ (DOMAIN sells # {} <=> SellRun(t))
    BY <1>14, <2>3, <2>4, Zenon
  <2> QED
    BY <2>1, <2>2, <2>5, Zenon
<1>16. Found(new, zs, number, levels, t)
  BY <1>13, <1>15, Zenon DEF Found
<1> QED
  BY <1>10, <1>16 DEF levels

---------------------------------------------------------------------------
LEMMA ZonesResolve ==
  ASSUME NEW zs, Settled(zs), NEW t \in Seq(Trades), NEW bar, Stands(bar, t),
         Ascending(bar.levels), NEW number \in Int, number # 0
  PROVE  Settled(I!Zones(zs, bar, number))
<1> DEFINE new == I!DetectStacked(zs, bar.levels, number)
<1>0. Found(new, zs, number, bar.levels, t)
  BY BarDetects
<1> HIDE DEF new
<1>1. PICK buys, sells :
           /\ Detected(new, zs, number, buys, sells)
           /\ \A j \in DOMAIN buys : \E a \in Buys(bar.levels) : buys[j].low = bar.levels[a].price
           /\ \A j \in DOMAIN sells : \E a \in Sells(bar.levels) : sells[j].high = bar.levels[a].price
  BY <1>0 DEF Found
<1>2. PICK n, m \in Nat :
           /\ n = Len(zs) /\ m = Len(new) /\ n <= m /\ new \in Seq(Zone) /\ DOMAIN new = 1 .. m
           /\ \A i \in 1 .. n : new[i] = zs[i] /\ zs[i].resolved # 0 /\ zs[i].resolved = zs[i].created
  BY <1>1, LenProperties DEF Settled, Detected
<1>3. \A i \in 1 .. m : new[i] \in Zone
  BY <1>2, ElementOfSeq
<1>4. bar.low \in Nat /\ bar.high \in Nat
  BY TradeFacts DEF Stands, Priced
<1>5. ASSUME NEW a \in DOMAIN bar.levels
      PROVE  bar.low <= bar.levels[a].price /\ bar.levels[a].price <= bar.high /\ bar.levels[a].price \in Nat
  <2>1. PICK i \in DOMAIN t : t[i].price = bar.levels[a].price
    BY DEF Stands, LevelsMatch
  <2> QED
    BY <2>1, TradeFacts DEF Stands, Between
<1>5a. \A i \in n + 1 .. m : new[i].created = number /\ new[i].resolved = 0
  BY <1>1, <1>2 DEF Detected
<1>6. ASSUME NEW i \in n + 1 .. m PROVE I!Through(new[i], bar)
  <2>1. CASE new[i].direction = "LONG"
    <3>1. PICK j \in DOMAIN buys : new[i].low = buys[j].low
      BY <1>1, <1>2, <2>1 DEF Detected
    <3>2. PICK a \in Buys(bar.levels) : new[i].low = bar.levels[a].price
      BY <1>1, <3>1
    <3>3. PICK b \in DOMAIN bar.levels : bar.levels[b].price = bar.levels[a].price - 1
      BY DEF Buys, I!IsBuyImbalance, I!LevelAt
    <3>4. a \in DOMAIN bar.levels
      BY DEF Buys
    <3>5. bar.low <= new[i].low - 1 /\ new[i].low \in Nat
      BY <1>5, <3>2, <3>3, <3>4
    <3> QED
      BY <1>4, <2>1, <3>5 DEF I!Through
  <2>2. CASE new[i].direction # "LONG"
    <3>1. PICK j \in DOMAIN sells : new[i].high = sells[j].high
      BY <1>1, <1>2, <2>2 DEF Detected
    <3>2. PICK a \in Sells(bar.levels) : new[i].high = bar.levels[a].price
      BY <1>1, <3>1
    <3>3. PICK b \in DOMAIN bar.levels : bar.levels[b].price = bar.levels[a].price + 1
      BY DEF Sells, I!IsSellImbalance, I!LevelAt
    <3>4. a \in DOMAIN bar.levels
      BY DEF Sells
    <3>5. bar.high >= new[i].high + 1 /\ new[i].high \in Nat
      BY <1>5, <3>2, <3>3, <3>4
    <3> QED
      BY <1>4, <2>2, <3>5 DEF I!Through
  <2> QED
    BY <2>1, <2>2
<1> DEFINE left == I!Zones(zs, bar, number)
<1>7. left = [i \in DOMAIN new |->
                IF new[i].resolved = 0 /\ I!Through(new[i], bar)
                  THEN [new[i] EXCEPT !.resolved = number] ELSE new[i]]
  BY DEF new, I!Zones, I!UpdateZoneRegistry
<1> HIDE DEF left
<1>8. DOMAIN left = 1 .. m /\ left = [i \in 1 .. m |-> left[i]]
  BY <1>2, <1>7
<1>9. ASSUME NEW i \in 1 .. m PROVE left[i] \in Zone /\ left[i].resolved # 0 /\ left[i].resolved = left[i].created
  <2> DEFINE z == [new[i] EXCEPT !.resolved = number]
  <2>1. z \in Zone /\ z.resolved = number /\ z.created = new[i].created
    BY <1>3 DEF Zone
  <2>2. left[i] = IF new[i].resolved = 0 /\ I!Through(new[i], bar) THEN z ELSE new[i]
    BY <1>2, <1>7
  <2> HIDE DEF z
  <2>3. CASE i \in 1 .. n
    <3>1. new[i] = zs[i] /\ new[i].resolved # 0 /\ new[i].resolved = new[i].created
      BY <1>2, <2>3
    <3>2. left[i] = new[i]
      BY <2>2, <3>1
    <3> QED
      BY <1>3, <3>1, <3>2
  <2>4. CASE i \in n + 1 .. m
    BY <1>3, <1>5a, <1>6, <2>1, <2>2, <2>4
  <2> QED
    BY <1>2, <2>3, <2>4
<1>10. left \in Seq(Zone) /\ Len(left) = m
  BY <1>8, <1>9, IsSequence
<1>11. Settled(left)
  BY <1>9, <1>10 DEF Settled
<1> QED
  BY <1>11 DEF left

(* The signals of a stacked imbalance among all those of a bar.            *)
StackBuy == <<"STACKED_IMBALANCE_BUY", "LONG">>
StackSell == <<"STACKED_IMBALANCE_SELL", "SHORT">>

Given(signals, zs, bar) ==
  \E filled, left : signals = I!Signals(zs, bar) \cup D!DeltaSignals(bar, filled, left)

LEMMA StackSignals ==
  ASSUME NEW zs, NEW bar, NEW signals, Given(signals, zs, bar), NEW new,
         new = I!DetectStacked(zs, bar.levels, 1)
  PROVE  /\ StackBuy \in signals <=> \E i \in Len(zs) + 1 .. Len(new) : new[i].direction = "LONG"
         /\ StackSell \in signals <=> \E i \in Len(zs) + 1 .. Len(new) : new[i].direction = "SHORT"
<1>0. PICK filled, left : signals = I!Signals(zs, bar) \cup D!DeltaSignals(bar, filled, left)
  BY DEF Given
<1>1. StackBuy \notin D!DeltaSignals(bar, filled, left) /\ StackSell \notin D!DeltaSignals(bar, filled, left)
  BY DEF D!DeltaSignals, D!Divergence, D!Surge, D!ExtremeDelta, D!SmallRange, StackBuy, StackSell
<1> DEFINE created(d) == \E i \in Len(zs) + 1 .. Len(new) : new[i].direction = d
<1>2. /\ StackBuy \in I!Signals(zs, bar) <=> created("LONG")
      /\ StackSell \in I!Signals(zs, bar) <=> created("SHORT")
  BY DEF I!Signals, I!When, StackBuy, StackSell
<1> QED
  BY <1>0, <1>1, <1>2

LEMMA StackSignalsSay ==
  ASSUME NEW zs, Settled(zs), NEW t \in Seq(Trades), NEW bar, Stands(bar, t),
         Ascending(bar.levels), NEW signals, Given(signals, zs, bar)
  PROVE  (StackBuy \in signals <=> BuyRun(t)) /\ (StackSell \in signals <=> SellRun(t))
<1> DEFINE new == I!DetectStacked(zs, bar.levels, 1)
<1>1. Found(new, zs, 1, bar.levels, t)
  BY BarDetects
<1>2. /\ StackBuy \in signals <=> \E i \in Len(zs) + 1 .. Len(new) : new[i].direction = "LONG"
      /\ StackSell \in signals <=> \E i \in Len(zs) + 1 .. Len(new) : new[i].direction = "SHORT"
  BY StackSignals
<1> HIDE DEF new
<1> QED
  BY <1>1, <1>2 DEF Found, Detected

---------------------------------------------------------------------------
(* The registry and what the last analysis told of stacked imbalances.     *)
Told(r, t) ==
  r # << >> => /\ StackBuy \in r[1].signals <=> BuyRun(t)
               /\ StackSell \in r[1].signals <=> SellRun(t)

StacksHold ==
  /\ count \in [ticks : Nat, sessions : Nat, changes : Nat]
  /\ Settled(zones)
  /\ Told(report, past[main].trades)

LEMMA StacksStart == Init => StacksHold
<1> SUFFICES ASSUME Init PROVE StacksHold
  OBVIOUS
<1>1. zones = << >> /\ report = << >> /\ count = [ticks |-> 0, sessions |-> 0, changes |-> 0]
  BY DEF Init
<1>2. << >> \in Seq(Zone) /\ Len(<< >>) = 0
  BY EmptySeq
<1> QED
  BY <1>1, <1>2 DEF StacksHold, Settled, Told

LEMMA NowIs ==
  ASSUME count \in [ticks : Nat, sessions : Nat, changes : Nat]
  PROVE  Now \in Int /\ Now # 0
BY DEF Now

LEMMA CountStep ==
  ASSUME count \in [ticks : Nat, sessions : Nat, changes : Nat],
         NEW what \in {"ticks", "sessions", "changes"}, Counted(what)
  PROVE  count' \in [ticks : Nat, sessions : Nat, changes : Nat]
BY DEF Counted

LEMMA AnalysisTells ==
  ASSUME StacksHold, NEW t \in Seq(Trades), NEW bar, Stands(bar, t), Ascending(bar.levels),
         NEW dl, Analyse(bar, dl, t)
  PROVE  Settled(zones') /\ Told(report', t)
<1> DEFINE signals == I!Signals(zones, bar) \cup D!DeltaSignals(bar, D!FilledIn(dl), D!OnBarClose(dl))
<1>1. zones' = I!Zones(zones, bar, Now) /\ report' = <<[filled |-> D!FilledIn(dl), signals |-> signals]>>
  BY DEF Analyse
<1>2. Given(signals, zones, bar)
  BY DEF Given
<1> HIDE DEF signals
<1>3. Settled(zones) /\ Now \in Int /\ Now # 0
  BY NowIs DEF StacksHold
<1>4. Settled(zones')
  BY <1>1, <1>3, ZonesResolve
<1>5. (StackBuy \in signals <=> BuyRun(t)) /\ (StackSell \in signals <=> SellRun(t))
  BY <1>2, <1>3, StackSignalsSay
<1>6. report'[1].signals = signals
  BY <1>1
<1> QED
  BY <1>4, <1>5, <1>6 DEF Told

LEMMA ForcedStands ==
  ASSUME NEW size, NEW s, NEW t, NEW p, NEW time, SeriesAccount(size, s, t, p), s.current # << >>
  PROVE  LET bar == B!ForceCloseBar(s, time).last[1]
         IN  Stands(bar, t) /\ Ascending(bar.levels)
<1> DEFINE after == B!ForceCloseBar(s, time)
           p2 == [trades |-> t, forced |-> TRUE]
<1>1. SeriesAccount(size, after, << >>, p2) /\ after.last # << >>
  BY ForceAccount
<1>2. p2.trades = t
  OBVIOUS
<1> HIDE DEF after, p2
<1>3. Stands(after.last[1], t) /\ Ascending(after.last[1].levels)
  BY <1>1, <1>2 DEF SeriesAccount
<1> QED
  BY <1>3 DEF after

LEMMA StacksStep == HistoryTyped /\ LeeTyped /\ SeriesHold /\ StacksHold /\ [Next]_vars => StacksHold'
<1> SUFFICES ASSUME HistoryTyped, LeeTyped, SeriesHold, StacksHold, [Next]_vars PROVE StacksHold'
  OBVIOUS
<1>0. /\ main \in DOMAIN series /\ main \in ValidSizes /\ since[main] \in Seq(Trades)
      /\ SeriesAccount(main, series[main], since[main], past[main])
      /\ DOMAIN since = DOMAIN series /\ DOMAIN past = DOMAIN series
  BY DEF HistoryTyped, SeriesHold
<1>1. /\ count \in [ticks : Nat, sessions : Nat, changes : Nat]
      /\ Settled(zones) /\ Told(report, past[main].trades)
  BY DEF StacksHold
<1>2. CASE UNCHANGED <<main, zones, report, past>> /\ (UNCHANGED count \/ Counted("ticks"))
  <2>1. count' \in [ticks : Nat, sessions : Nat, changes : Nat]
    BY <1>1, <1>2, CountStep
  <2> QED
    BY <1>1, <1>2, <2>1 DEF StacksHold
<1>3. CASE Trade
  <2>0. count' \in [ticks : Nat, sessions : Nat, changes : Nat]
    BY <1>1, <1>3, CountStep DEF Trade
  <2>1. PICK x \in Trades :
           LET after == [size \in DOMAIN series |-> B!OnTick(series[size], x)]
               closed == {size \in DOMAIN series : after[size].current = << >>}
               trades == [size \in DOMAIN series |-> Append(since[size], x)]
           IN  /\ clock' = x.time /\ series' = after /\ main' = main
               /\ Remember(closed, trades, FALSE)
               /\ \/ /\ main \in closed
                     /\ Analyse(after[main].last[1], D!OnTick(delta, x), trades[main])
                  \/ /\ main \notin closed
                     /\ delta' = D!OnTick(delta, x)
                     /\ UNCHANGED <<zones, report, deltas>>
    BY <1>3, TradeStep
  <2> DEFINE after == B!OnTick(series[main], x)
             t == Append(since[main], x)
             dl == D!OnTick(delta, x)
  <2>2. /\ main' = main
        /\ after.current = << >> =>
             /\ past'[main] = [trades |-> t, forced |-> FALSE]
             /\ Analyse(after.last[1], dl, t)
        /\ after.current # << >> => past'[main] = past[main] /\ UNCHANGED <<zones, report>>
    BY <1>0, <2>1 DEF Remember
  <2>3. /\ after.current = << >> =>
             /\ SeriesAccount(main, after, << >>, [trades |-> t, forced |-> FALSE])
             /\ after.last # << >>
    BY <1>0, TickAccount
  <2>4. t \in Seq(Trades)
    BY <1>0, OneMore, TradeFacts
  <2> HIDE DEF after, t, dl
  <2>5. CASE after.current = << >>
    <3>1. Stands(after.last[1], t) /\ Ascending(after.last[1].levels)
      BY <2>3, <2>5 DEF SeriesAccount
    <3>2. Analyse(after.last[1], dl, t)
      BY <2>2, <2>5
    <3>3. Settled(zones') /\ Told(report', t)
      BY <2>4, <3>1, <3>2, AnalysisTells
    <3> QED
      BY <2>0, <2>2, <2>5, <3>3 DEF StacksHold
  <2>6. CASE after.current # << >>
    BY <1>1, <2>0, <2>2, <2>6 DEF StacksHold
  <2> QED
    BY <2>5, <2>6
<1>4. CASE SessionClose
  <2>0. count' \in [ticks : Nat, sessions : Nat, changes : Nat]
    BY <1>1, <1>4, CountStep DEF SessionClose
  <2>1. /\ main' = main /\ series'[main] = B!ForceCloseBar(series[main], clock)
        /\ past'[main] = IF main \in Pending THEN [trades |-> since[main], forced |-> TRUE] ELSE past[main]
    BY <1>0, <1>4 DEF SessionClose, Remember
  <2>2. CASE main \in Pending
    <3> DEFINE after == B!ForceCloseBar(series[main], clock)
    <3>1. Analyse(after.last[1], delta, since[main])
      BY <1>4, <2>1, <2>2 DEF SessionClose
    <3>2. series[main].current # << >>
      BY <2>2 DEF Pending
    <3>4. Stands(after.last[1], since[main]) /\ Ascending(after.last[1].levels)
      BY <1>0, <3>2, ForcedStands
    <3> HIDE DEF after
    <3>5. Settled(zones') /\ Told(report', since[main])
      BY <1>0, <3>1, <3>4, AnalysisTells
    <3> QED
      BY <2>0, <2>1, <2>2, <3>5 DEF StacksHold
  <2>3. CASE main \notin Pending
    <3>1. UNCHANGED <<zones, report>>
      BY <1>4, <2>3 DEF SessionClose
    <3> QED
      BY <1>1, <2>0, <2>1, <2>3, <3>1 DEF StacksHold
  <2> QED
    BY <2>2, <2>3
<1>5. CASE SessionOpen
  <2>0. count' \in [ticks : Nat, sessions : Nat, changes : Nat]
    BY <1>1, <1>5, CountStep DEF SessionOpen
  <2> DEFINE after == B!ForceCloseBar(series[main], clock)
  <2>1. /\ main' = main /\ report' = << >>
        /\ zones' = IF main \in Pending THEN I!Zones(zones, after.last[1], Now) ELSE zones
    BY <1>5 DEF SessionOpen
  <2>2. CASE main \in Pending
    <3>1. series[main].current # << >>
      BY <2>2 DEF Pending
    <3>3. Stands(after.last[1], since[main]) /\ Ascending(after.last[1].levels)
      BY <1>0, <3>1, ForcedStands
    <3> HIDE DEF after
    <3>4. Settled(I!Zones(zones, after.last[1], Now))
      BY <1>0, <1>1, <3>3, NowIs, ZonesResolve
    <3> QED
      BY <2>0, <2>1, <2>2, <3>4 DEF StacksHold, Told
  <2>3. CASE main \notin Pending
    BY <1>1, <2>0, <2>1, <2>3 DEF StacksHold, Told
  <2> QED
    BY <2>2, <2>3
<1>6. CASE AddSeries
  <2>0. count' \in [ticks : Nat, sessions : Nat, changes : Nat]
    BY <1>1, <1>6, CountStep DEF AddSeries
  <2>1. PICK size \in ValidSizes \ DOMAIN series :
          past' = [s \in DOMAIN series \cup {size} |-> IF s = size THEN NoPast ELSE past[s]]
    BY <1>6 DEF AddSeries
  <2>2. past'[main] = past[main] /\ UNCHANGED <<main, zones, report>>
    BY <1>0, <1>6, <2>1 DEF AddSeries
  <2> QED
    BY <1>1, <2>0, <2>2 DEF StacksHold
<1>7. CASE RemoveSeries
  <2>0. count' \in [ticks : Nat, sessions : Nat, changes : Nat]
    BY <1>1, <1>7, CountStep DEF RemoveSeries
  <2>1. PICK size \in DOMAIN series \ {main} :
          past' = [s \in DOMAIN series \ {size} |-> past[s]]
    BY <1>7 DEF RemoveSeries
  <2>2. past'[main] = past[main] /\ UNCHANGED <<main, zones, report>>
    BY <1>0, <1>7, <2>1 DEF RemoveSeries
  <2> QED
    BY <1>1, <2>0, <2>2 DEF StacksHold
<1> QED
  BY <1>2, <1>3, <1>4, <1>5, <1>6, <1>7 DEF Next, Quote, TradeUnclassified, vars

LEMMA StacksAlwaysHold == Spec => []StacksHold
<1>1. HistoryTyped /\ LeeTyped /\ SeriesHold /\ StacksHold /\ [Next]_vars => StacksHold'
  BY StacksStep
<1> QED
  BY <1>1, StacksStart, HistoryStaysTyped, SeriesAlwaysHold, PTL DEF Spec

(* The bar that creates a zone resolves it, in the same pass of detect_all *)
(* and through update_zone_registry.                                       *)
ZonesEndWithTheirBar ==
  \A i \in 1 .. Len(zones) : zones[i].resolved = zones[i].created /\ zones[i].created # 0

(* For every feed and every configuration no zone survives the bar that    *)
(* created it: an imbalance takes volume beyond the zone's edge.           *)
THEOREM ZonesAlwaysEndWithTheirBar == Spec => []ZonesEndWithTheirBar
<1>1. StacksHold => ZonesEndWithTheirBar
  BY DEF StacksHold, Settled, ZonesEndWithTheirBar
<1> QED
  BY <1>1, StacksAlwaysHold, PTL

LEMMA BuyRunIs ==
  ASSUME NEW t \in Seq(Trades)
  PROVE  BuyRun(t) <=> \E p \in {t[i].price : i \in DOMAIN t} : \A k \in 0 .. StackedMin - 1 : BuyAt(t, p + k)
<1>0. 0 \in 0 .. StackedMin - 1 /\ \A k \in 0 .. StackedMin - 1 : k \in Nat
  BY StackedMinTyped
<1>1. ASSUME NEW p \in Nat, \A k \in 0 .. StackedMin - 1 : p + k \in {q \in Int : BuyAt(t, q)}
      PROVE  \E i \in DOMAIN t : t[i].price = p
  <2>1. BuyAt(t, p)
    <3>1. p + 0 = p
      OBVIOUS
    <3> QED
      BY <1>0, <1>1, <3>1
  <2>2. /\ B!VolumeAt(t, p - 1, "BID") > 0
        /\ B!VolumeAt(t, p, "ASK") >= Ratio * B!VolumeAt(t, p - 1, "BID")
    BY <2>1 DEF BuyAt
  <2>3. B!VolumeAt(t, p, "ASK") \in Int /\ B!VolumeAt(t, p - 1, "BID") \in Int
    BY VolumeAtTyped
  <2>4. B!VolumeAt(t, p, "ASK") > 0
    BY <2>2, <2>3, StackedMinTyped, AtLeast
  <2> SUFFICES ASSUME \A i \in DOMAIN t : t[i].price # p PROVE FALSE
    OBVIOUS
  <2>5. B!VolumeAt(t, p, "ASK") = 0
    BY VolumeAtNone
  <2> QED
    BY <2>4, <2>5
<1>2. \A i \in DOMAIN t : t[i].price \in Nat
  BY TradeFacts
<1>3. \A p, k \in Nat : p + k \in Int
  OBVIOUS
<1> QED
  BY <1>0, <1>1, <1>2, <1>3 DEF BuyRun, Run

LEMMA SellRunIs ==
  ASSUME NEW t \in Seq(Trades)
  PROVE  SellRun(t) <=> \E p \in {t[i].price : i \in DOMAIN t} : \A k \in 0 .. StackedMin - 1 : SellAt(t, p + k)
<1>0. 0 \in 0 .. StackedMin - 1 /\ \A k \in 0 .. StackedMin - 1 : k \in Nat
  BY StackedMinTyped
<1>1. ASSUME NEW p \in Nat, \A k \in 0 .. StackedMin - 1 : p + k \in {q \in Int : SellAt(t, q)}
      PROVE  \E i \in DOMAIN t : t[i].price = p
  <2>1. SellAt(t, p)
    <3>1. p + 0 = p
      OBVIOUS
    <3> QED
      BY <1>0, <1>1, <3>1
  <2>2. /\ B!VolumeAt(t, p + 1, "ASK") > 0
        /\ B!VolumeAt(t, p, "BID") >= Ratio * B!VolumeAt(t, p + 1, "ASK")
    BY <2>1 DEF SellAt
  <2>3. B!VolumeAt(t, p, "BID") \in Int /\ B!VolumeAt(t, p + 1, "ASK") \in Int
    BY VolumeAtTyped
  <2>4. B!VolumeAt(t, p, "BID") > 0
    BY <2>2, <2>3, StackedMinTyped, AtLeast
  <2> SUFFICES ASSUME \A i \in DOMAIN t : t[i].price # p PROVE FALSE
    OBVIOUS
  <2>5. B!VolumeAt(t, p, "BID") = 0
    BY VolumeAtNone
  <2> QED
    BY <2>4, <2>5
<1>2. \A i \in DOMAIN t : t[i].price \in Nat
  BY TradeFacts
<1>3. \A p, k \in Nat : p + k \in Int
  OBVIOUS
<1> QED
  BY <1>0, <1>1, <1>2, <1>3 DEF SellRun, Run

(* For every feed and every ratio and length: the signal of a stacked      *)
(* imbalance is given exactly when adjacent prices of the bar show one.    *)
THEOREM StackSignalsAlwaysExact == Spec => []StackSignalsExact
<1>1. HistoryTyped /\ StacksHold => StackSignalsExact
  <2> SUFFICES ASSUME HistoryTyped, StacksHold, report # << >> PROVE StackSignalsExact
    BY DEF StackSignalsExact
  <2> DEFINE t == past[main].trades
  <2>1. t \in Seq(Trades)
    BY DEF HistoryTyped
  <2>2. /\ StackBuy \in report[1].signals <=> BuyRun(t)
        /\ StackSell \in report[1].signals <=> SellRun(t)
    BY DEF StacksHold, Told
  <2> HIDE DEF t
  <2>3. /\ BuyRun(t) <=> \E p \in {t[i].price : i \in DOMAIN t} : \A k \in 0 .. StackedMin - 1 : BuyAt(t, p + k)
        /\ SellRun(t) <=> \E p \in {t[i].price : i \in DOMAIN t} : \A k \in 0 .. StackedMin - 1 : SellAt(t, p + k)
    BY <2>1, BuyRunIs, SellRunIs
  <2>4. /\ StackBuy \in report[1].signals <=>
             \E p \in {t[i].price : i \in DOMAIN t} : \A k \in 0 .. StackedMin - 1 : BuyAt(t, p + k)
        /\ StackSell \in report[1].signals <=>
             \E p \in {t[i].price : i \in DOMAIN t} : \A k \in 0 .. StackedMin - 1 : SellAt(t, p + k)
    BY <2>2, <2>3, Zenon
  <2> QED
    BY <2>4, Zenon DEF StackSignalsExact, StackBuy, StackSell, BuyAt, SellAt, t
<1> QED
  BY <1>1, StacksAlwaysHold, HistoryStaysTyped, PTL
===========================================================================
