------------------------ MODULE SymbolPipelineProofs ------------------------
(***************************************************************************)
(* For every feed, every kind of series and every ratio, whenever series   *)
(* are added, read, cleared and the session is reset: bars partition the   *)
(* ticks, say what their ticks say and close where they should, the delta  *)
(* engine follows the bars, the two classifiers differ on one kind of      *)
(* trade only, a signal fits the session, and an imbalance of both edges   *)
(* is a sweep.                                                             *)
(***************************************************************************)
EXTENDS SymbolPipeline, SequenceTheorems, FiniteSetTheorems, WellFoundedInduction, TLAPS

(* Where update_bar() takes a side, classify() takes the other one inside  *)
(* a locked or crossed quote whose ask has no size, and only there.        *)
LEMMA SidesDiffer ==
  ASSUME NEW tick,
         tick.price \in Int, tick.quote.bid \in Int, tick.quote.ask \in Int,
         tick.quote.askSize \in Nat, B!BarSide(tick) # "unknown"
  PROVE  L!Classify(tick.quote, tick.price, L!NoOverride) # B!BarSide(tick)
           <=> /\ tick.quote.ask <= tick.price /\ tick.price <= tick.quote.bid
               /\ tick.quote.askSize = 0
<1> DEFINE bid == tick.quote.bid
           ask == tick.quote.ask
           price == tick.price
           proper == ask > bid
<1>1. CASE price >= ask /\ tick.quote.askSize > 0
  <2>1. B!BarSide(tick) = "buy"
    BY <1>1 DEF B!BarSide
  <2>2. L!Classify(tick.quote, tick.price, L!NoOverride) = "buy"
    <3>1. CASE proper
      BY <1>1, <3>1 DEF L!Classify
    <3>2. CASE ~proper
      <4>1. ~(price < ask)
        BY <1>1
      <4> QED
        BY <1>1, <3>2, <4>1 DEF L!Classify, L!NoOverride
    <3> QED
      BY <3>1, <3>2
  <2> QED
    BY <1>1, <2>1, <2>2
<1>2. CASE price >= ask /\ ~(tick.quote.askSize > 0)
  <2>1. B!BarSide(tick) = "sell" /\ price <= bid
    BY <1>2 DEF B!BarSide
  <2>2. ~proper /\ ~(price > bid) /\ ~(price < ask)
    BY <1>2, <2>1
  <2>3. L!Classify(tick.quote, tick.price, L!NoOverride) = "buy"
    BY <1>2, <2>2 DEF L!Classify, L!NoOverride
  <2> QED
    BY <1>2, <2>1, <2>3
<1>3. CASE ~(price >= ask)
  <2>1. B!BarSide(tick) = "sell" /\ price <= bid
    BY <1>3 DEF B!BarSide
  <2>2. price < ask /\ ~(price > bid)
    BY <1>3, <2>1
  <2>3. L!Classify(tick.quote, tick.price, L!NoOverride) = "sell"
    <3>1. CASE proper
      BY <1>3, <2>1, <3>1 DEF L!Classify
    <3>2. CASE ~proper
      BY <2>1, <2>2, <3>2 DEF L!Classify
    <3> QED
      BY <3>1, <3>2
  <2> QED
    BY <1>3, <2>1, <2>3
<1> QED
  BY <1>1, <1>2, <1>3

TicksFed == ticks \in Seq(Feed)

LEMMA TicksFromFeed == Spec => []TicksFed
<1>1. Init => TicksFed
  BY DEF Init, TicksFed
<1>2. TicksFed /\ [Next]_vars => TicksFed'
  <2> SUFFICES ASSUME ticks \in Seq(Feed), [Next]_vars
               PROVE  ticks' \in Seq(Feed)
    BY DEF TicksFed
  <2>1. CASE Ingest
    <3>1. PICK tick \in Feed : ticks' = Append(ticks, tick)
      BY <2>1 DEF Ingest
    <3> QED
      BY <3>1
  <2>2. CASE ~Ingest
    BY <2>2 DEF Next, AddSeries, ReadCompleted, ResetSession, vars
  <2> QED
    BY <2>1, <2>2
<1> QED
  BY <1>1, <1>2, PTL DEF Spec

(* On every tick ever ingested, the two classifiers take opposite sides of *)
(* a trade inside a locked or crossed quote without size on the ask, and   *)
(* of no other.                                                            *)
THEOREM ClassifiersOnlyDifferInside == Spec => []ClassifiersDifferInside
<1>1. TicksFed => ClassifiersDifferInside
  <2> SUFFICES ASSUME ticks \in Seq(Feed), NEW i \in DOMAIN ticks,
                      B!BarSide(ticks[i]) # "unknown"
               PROVE  L!Classify(ticks[i].quote, ticks[i].price, L!NoOverride) # B!BarSide(ticks[i])
                        <=> /\ ticks[i].quote.ask <= ticks[i].price
                            /\ ticks[i].price <= ticks[i].quote.bid
                            /\ ticks[i].quote.askSize = 0
    BY DEF ClassifiersDifferInside, TicksFed
  <2>1. ticks[i] \in Feed
    OBVIOUS
  <2> QED
    BY <2>1, FeedAssumption, SidesDiffer
<1> QED
  BY <1>1, TicksFromFeed, PTL

(* A side that is imbalanced by a ratio above one is really the larger.    *)
LEMMA ImbalanceIsLarger ==
  ASSUME NEW at \in Nat, NEW facing \in Nat,
         IF at <= 0 THEN facing > 0 ELSE facing >= at * Threshold
  PROVE  facing > at
<1> DEFINE product == at * Threshold
<1>1. Threshold \in Nat /\ Threshold > 1
  BY LevelsAssumption
<1>2. product \in Nat /\ (at > 0 => product > at)
  BY <1>1
<1>3. at > 0 => facing >= product
  OBVIOUS
<1> HIDE DEF product
<1> QED
  BY <1>2, <1>3

(* compare() cannot flag both edges without the absorption that makes the  *)
(* signal a sweep.  A ratio of one would be enough to break it.            *)
THEOREM TwoSidedAlwaysSweep == Spec => []TwoSidedIsSweep
<1>1. TwoSidedIsSweep
  <2> SUFFICES ASSUME NEW imbalance \in Imbalances, imbalance.buy, imbalance.sell
               PROVE  S!Evaluate(delta, imbalance, vwap, Poc, "unknown").type = "SweepBuy"
    BY DEF TwoSidedIsSweep
  <2>1. PICK a \in Levels, b \in Levels, c \in Levels, d \in Levels :
          imbalance = I!Compare(a, b, c, d, Threshold)
    BY DEF Imbalances
  <2>2. a \in Nat /\ b \in Nat /\ c \in Nat /\ d \in Nat
    BY LevelsAssumption
  <2>3. I!IsBuyImbalance(a, b, Threshold) => b > a
    BY <2>2, ImbalanceIsLarger DEF I!IsBuyImbalance
  <2>4. I!IsSellImbalance(c, d, Threshold) => d > c
    BY <2>2, ImbalanceIsLarger DEF I!IsSellImbalance
  <2>5. imbalance.absorption
    BY <2>1, <2>3, <2>4 DEF I!Compare
  <2>6. S!Score(delta, imbalance, vwap, Poc, "unknown").sweep = [num |-> 1, den |-> 1]
    BY <2>5 DEF S!Score, S!Whole
  <2> QED
    BY <2>6 DEF S!Evaluate, S!SelectSignalType
<1> QED
  BY <1>1, PTL

---------------------------------------------------------------------------
(* A series and what its operations make of it.                            *)
Bars ==
  [start : Nat, end : Nat, open : Int, high : Int, low : Int, close : Int,
   volume : Nat, count : Nat, buy : Nat, sell : Nat, cvd : Int,
   maxDelta : Int, minDelta : Int, notional : Int, index : Nat]

SeriesStates ==
  [type : B!BarTypes, threshold : Nat, active : BOOLEAN,
   current : Bars, sessionCvd : Int, completed : Seq(Bars)]

TickTyped(tick) ==
  /\ tick.price \in Int /\ tick.quote.bid \in Int /\ tick.quote.ask \in Int
  /\ tick.time \in Nat /\ tick.size \in Nat
  /\ tick.quote.bidSize \in Nat /\ tick.quote.askSize \in Nat

LEMMA FeedTyped == \A tick \in Feed : TickTyped(tick)
BY FeedAssumption DEF TickTyped

LEMMA EmptyBarTyped == B!EmptyBar \in Bars
BY DEF B!EmptyBar, Bars

(* The operations of a series: what they set and what they leave.          *)
LEMMA StartBarGives ==
  ASSUME NEW s \in SeriesStates, NEW tick, TickTyped(tick)
  PROVE  LET u == B!StartBar(s, tick)
         IN  /\ u \in SeriesStates /\ u.active
             /\ u.type = s.type /\ u.threshold = s.threshold /\ u.completed = s.completed
             /\ u.current.start = tick.time /\ u.current.open = tick.price
             /\ u.current.high = tick.price /\ u.current.low = tick.price
             /\ u.current.count = 0 /\ u.current.volume = 0 /\ u.current.notional = 0
             /\ u.current.buy = 0 /\ u.current.sell = 0
             /\ u.current.cvd = 0 /\ u.sessionCvd = 0
<1>1. s.completed \in Seq(Bars) /\ Len(s.completed) \in Nat
  BY LenProperties DEF SeriesStates
<1> DEFINE number == Len(s.completed)
           time == tick.time
           price == tick.price
           bar == [B!EmptyBar EXCEPT !.start = time, !.end = time, !.open = price,
                     !.high = price, !.low = price, !.close = price, !.index = number]
<1>2. number \in Nat /\ time \in Nat /\ price \in Int
  BY <1>1 DEF TickTyped
<1>3. B!StartBar(s, tick) = [s EXCEPT !.active = TRUE, !.sessionCvd = 0, !.current = bar]
  BY DEF B!StartBar, B!EmptyBar
<1> HIDE DEF number, time, price
<1>4. bar \in Bars
  BY <1>2, EmptyBarTyped DEF Bars
<1>5. /\ bar.start = time /\ bar.open = price /\ bar.high = price /\ bar.low = price
      /\ bar.count = 0 /\ bar.volume = 0 /\ bar.notional = 0 /\ bar.buy = 0 /\ bar.sell = 0
      /\ bar.cvd = 0
  BY DEF B!EmptyBar
<1> HIDE DEF bar
<1>6. [s EXCEPT !.active = TRUE, !.sessionCvd = 0, !.current = bar] \in SeriesStates
  <2>1. TRUE \in BOOLEAN /\ 0 \in Int
    OBVIOUS
  <2> QED
    BY <1>4, <2>1, Zenon DEF SeriesStates
<1> QED
  BY <1>3, <1>5, <1>6 DEF SeriesStates, time, price

(* What update_bar() makes of the bar in progress.                         *)
BuyOf(tick) == IF B!BarSide(tick) = "buy" THEN tick.size ELSE 0
SellOf(tick) == IF B!BarSide(tick) = "sell" THEN tick.size ELSE 0

Updated(c, tick, b) ==
  LET buy == c.buy + BuyOf(tick)
      sell == c.sell + SellOf(tick)
  IN  /\ b.start = c.start /\ b.open = c.open
      /\ b.end = tick.time /\ b.close = tick.price
      /\ b.high = B!Larger(c.high, tick.price) /\ b.low = B!Smaller(c.low, tick.price)
      /\ b.volume = c.volume + tick.size /\ b.count = c.count + 1
      /\ b.notional = c.notional + tick.price * tick.size
      /\ b.buy = buy /\ b.sell = sell
      /\ b.cvd = c.cvd + (buy - sell)
      /\ b.maxDelta = IF c.count = 0 THEN buy - sell ELSE B!Larger(c.maxDelta, buy - sell)
      /\ b.minDelta = IF c.count = 0 THEN buy - sell ELSE B!Smaller(c.minDelta, buy - sell)

LEMMA UpdateBarGives ==
  ASSUME NEW s \in SeriesStates, NEW tick, TickTyped(tick), s.sessionCvd = s.current.cvd
  PROVE  LET u == B!UpdateBar(s, tick)
         IN  /\ u \in SeriesStates
             /\ u.type = s.type /\ u.threshold = s.threshold /\ u.completed = s.completed
             /\ u.active = s.active /\ u.sessionCvd = u.current.cvd
             /\ Updated(s.current, tick, u.current)
<1> DEFINE c == s.current
           buy == c.buy + BuyOf(tick)
           sell == c.sell + SellOf(tick)
           high == B!Larger(c.high, tick.price)
           low == B!Smaller(c.low, tick.price)
           volume == c.volume + tick.size
           count == c.count + 1
           notional == c.notional + tick.price * tick.size
           cvd == s.sessionCvd + buy - sell
           maxDelta == IF c.count = 0 THEN buy - sell ELSE B!Larger(c.maxDelta, buy - sell)
           minDelta == IF c.count = 0 THEN buy - sell ELSE B!Smaller(c.minDelta, buy - sell)
           end == tick.time
           close == tick.price
           bar == [c EXCEPT !.end = end, !.close = close, !.high = high, !.low = low,
                       !.volume = volume, !.count = count, !.notional = notional,
                       !.buy = buy, !.sell = sell, !.cvd = cvd,
                       !.maxDelta = maxDelta, !.minDelta = minDelta]
<1>1. c \in Bars /\ s.sessionCvd \in Int
  BY DEF SeriesStates
<1>2. buy \in Nat /\ sell \in Nat
  BY <1>1 DEF Bars, TickTyped, BuyOf, SellOf
<1>3. B!UpdateBar(s, tick) = [s EXCEPT !.sessionCvd = cvd, !.current = bar]
  BY Zenon DEF B!UpdateBar, BuyOf, SellOf
<1>4. /\ end \in Nat /\ close \in Int /\ high \in Int /\ low \in Int /\ volume \in Nat
      /\ count \in Nat /\ cvd \in Int
  BY <1>1, <1>2 DEF Bars, TickTyped, B!Larger, B!Smaller
<1>5. notional \in Int
  BY <1>1 DEF Bars, TickTyped
<1>6. maxDelta \in Int /\ minDelta \in Int
  BY <1>1, <1>2 DEF Bars, B!Larger, B!Smaller
<1> HIDE DEF c, buy, sell, high, low, volume, count, notional, cvd, maxDelta, minDelta, end, close
<1>7. /\ bar \in Bars
      /\ bar.start = c.start /\ bar.open = c.open /\ bar.index = c.index
      /\ bar.end = end /\ bar.close = close /\ bar.high = high /\ bar.low = low
      /\ bar.volume = volume /\ bar.count = count /\ bar.notional = notional
      /\ bar.buy = buy /\ bar.sell = sell /\ bar.cvd = cvd
      /\ bar.maxDelta = maxDelta /\ bar.minDelta = minDelta
  BY <1>1, <1>2, <1>4, <1>5, <1>6 DEF Bars
<1> HIDE DEF bar
<1>8. [s EXCEPT !.sessionCvd = cvd, !.current = bar] \in SeriesStates
  BY <1>4, <1>7 DEF SeriesStates
<1>9. Updated(c, tick, bar)
  <2>1. cvd = c.cvd + (buy - sell)
    <3>1. c.cvd \in Int /\ s.sessionCvd = c.cvd
      BY <1>1 DEF Bars, c
    <3> QED
      BY <1>2, <3>1 DEF cvd
  <2> QED
    BY <1>7, <2>1 DEF Updated, buy, sell, high, low, volume, count, notional, maxDelta, minDelta, end, close
<1>10. Updated(s.current, tick, bar)
  BY <1>9 DEF c
<1> QED
  BY <1>3, <1>7, <1>8, <1>10 DEF SeriesStates

LEMMA FinalizeBarGives ==
  ASSUME NEW s \in SeriesStates, NEW t \in Nat
  PROVE  LET u == B!FinalizeBar(s, t)
             b == [s.current EXCEPT !.end = t]
         IN  /\ u \in SeriesStates /\ b \in Bars
             /\ u.type = s.type /\ u.threshold = s.threshold /\ u.active = s.active
             /\ u.completed = Append(s.completed, b)
             /\ u.current = B!EmptyBar
<1> DEFINE b == [s.current EXCEPT !.end = t]
           q == Append(s.completed, b)
<1>1. s.current \in Bars /\ s.completed \in Seq(Bars)
  BY DEF SeriesStates
<1>2. b \in Bars
  BY <1>1 DEF Bars
<1>3. B!FinalizeBar(s, t) = [s EXCEPT !.completed = q, !.current = B!EmptyBar]
  BY DEF B!FinalizeBar
<1> HIDE DEF b
<1>4. q \in Seq(Bars)
  BY <1>1, <1>2, AppendProperties
<1> HIDE DEF q
<1>5. [s EXCEPT !.completed = q, !.current = B!EmptyBar] \in SeriesStates
  BY <1>4, EmptyBarTyped DEF SeriesStates
<1> QED
  BY <1>2, <1>3, <1>5 DEF SeriesStates, b, q

(* A bar on which a trade opens, and what closing leaves of a bar.         *)
Begins(b, tick) ==
  /\ b.start = tick.time /\ b.open = tick.price
  /\ b.high = tick.price /\ b.low = tick.price
  /\ b.count = 0 /\ b.volume = 0 /\ b.notional = 0 /\ b.buy = 0 /\ b.sell = 0
  /\ b.cvd = 0

Closes(b, time, x) ==
  /\ x.end = time
  /\ x.start = b.start /\ x.open = b.open /\ x.close = b.close
  /\ x.high = b.high /\ x.low = b.low
  /\ x.count = b.count /\ x.volume = b.volume /\ x.notional = b.notional
  /\ x.buy = b.buy /\ x.sell = b.sell /\ x.cvd = b.cvd
  /\ x.maxDelta = b.maxDelta /\ x.minDelta = b.minDelta

LEMMA ClosedBar ==
  ASSUME NEW b \in Bars, NEW t \in Nat
  PROVE  [b EXCEPT !.end = t] \in Bars /\ Closes(b, t, [b EXCEPT !.end = t])
BY DEF Bars, Closes

(* The three ways to take up a tick (the bar goes on, the first bar opens, *)
(* a time bar is over) and the two ways to end: not due, or closed.        *)
Due(s, b) ==
  \/ s.type = "Range" /\ B!BarRange(b) >= s.threshold
  \/ s.type = "Volume" /\ b.volume >= s.threshold

Starts(s, bars, tick, base, mid) ==
  \/ s.active /\ ~B!TimeIsUp(s, tick) /\ base = s.current /\ mid = bars
  \/ ~s.active /\ Begins(base, tick) /\ mid = bars
  \/ /\ s.active /\ B!TimeIsUp(s, tick) /\ Begins(base, tick)
     /\ \E x \in Bars : Closes(s.current, tick.time, x) /\ mid = Append(bars, x)

Ends(s, mid, tick, b, u, after) ==
  \/ ~Due(s, b) /\ u.active /\ u.current = b /\ u.sessionCvd = b.cvd /\ after = mid
  \/ Due(s, b) /\ ~u.active /\ \E x \in Bars : Closes(b, tick.time, x) /\ after = Append(mid, x)

(* What ingest() makes of a series and of its completed bars.              *)
Outcome(s, bars, tick, u, after) ==
  /\ u \in SeriesStates /\ u.type = s.type /\ u.threshold = s.threshold
  /\ \E base \in Bars, b \in Bars, mid \in Seq(Bars) :
       /\ Starts(s, bars, tick, base, mid)
       /\ Updated(base, tick, b)
       /\ Ends(s, mid, tick, b, u, after)

(* session_cvd_ follows the field of the bar in progress.                  *)
Counting(s) == s.active => s.current.count > 0 /\ s.sessionCvd = s.current.cvd

LEMMA IngestGives ==
  ASSUME NEW s \in SeriesStates, Counting(s), NEW tick, TickTyped(tick)
  PROVE  Outcome(s, s.completed, tick, B!Ingest(s, tick), B!Ingest(s, tick).completed)
<1> DEFINE opened == IF s.active THEN s ELSE B!StartBar(s, tick)
           turned == IF B!TimeIsUp(opened, tick)
                       THEN B!StartBar(B!FinalizeBar(opened, tick.time), tick) ELSE opened
           updated == B!UpdateBar(turned, tick)
           last == B!FinalizeBar(updated, tick.time)
           u == IF B!ShouldFinalize(updated) THEN [last EXCEPT !.active = FALSE] ELSE updated
<1>1. B!Ingest(s, tick) = u
  BY Zenon DEF B!Ingest
<1> DEFINE base == turned.current
           mid == turned.completed
           b == updated.current
<1>2. tick.time \in Nat
  BY DEF TickTyped
<1>3. /\ turned \in SeriesStates /\ turned.active /\ turned.sessionCvd = turned.current.cvd
      /\ turned.type = s.type /\ turned.threshold = s.threshold
      /\ Starts(s, s.completed, tick, base, mid)
  <2>1. CASE ~s.active
    <3>1. opened = B!StartBar(s, tick)
      BY <2>1
    <3>2. /\ opened \in SeriesStates /\ opened.active /\ opened.type = s.type
          /\ opened.threshold = s.threshold /\ opened.completed = s.completed
          /\ Begins(opened.current, tick) /\ opened.sessionCvd = opened.current.cvd
      BY <3>1, StartBarGives DEF Begins
    <3> HIDE DEF opened
    <3>3. turned = opened
      BY <3>2 DEF Begins, B!TimeIsUp
    <3> QED
      BY <2>1, <3>2, <3>3 DEF Starts
  <2>2. CASE s.active /\ ~B!TimeIsUp(s, tick)
    <3>1. turned = s
      BY <2>2
    <3> QED
      BY <2>2, <3>1 DEF Starts, Counting
  <2>3. CASE s.active /\ B!TimeIsUp(s, tick)
    <3> DEFINE f == B!FinalizeBar(s, tick.time)
               x == [s.current EXCEPT !.end = tick.time]
    <3>1. turned = B!StartBar(f, tick)
      BY <2>3
    <3>2. /\ f \in SeriesStates /\ f.type = s.type /\ f.threshold = s.threshold
          /\ f.completed = Append(s.completed, x)
      BY <1>2, FinalizeBarGives
    <3>3. x \in Bars /\ Closes(s.current, tick.time, x)
      BY <1>2, ClosedBar DEF SeriesStates
    <3> HIDE DEF f, x
    <3>4. /\ turned \in SeriesStates /\ turned.active /\ turned.type = s.type
          /\ turned.threshold = s.threshold /\ turned.completed = Append(s.completed, x)
          /\ Begins(turned.current, tick) /\ turned.sessionCvd = turned.current.cvd
      BY <3>1, <3>2, StartBarGives DEF Begins
    <3> HIDE DEF turned
    <3> QED
      BY <2>3, <3>3, <3>4 DEF Starts
  <2> QED
    BY <2>1, <2>2, <2>3
<1> HIDE DEF turned
<1>4. /\ updated \in SeriesStates /\ updated.active
      /\ updated.type = s.type /\ updated.threshold = s.threshold
      /\ updated.completed = mid /\ Updated(base, tick, b) /\ updated.sessionCvd = b.cvd
  BY <1>3, UpdateBarGives
<1> HIDE DEF updated
<1>5. base \in Bars /\ b \in Bars /\ mid \in Seq(Bars)
  BY <1>3, <1>4 DEF SeriesStates
<1>6. s.type \in {"Time", "Range", "Volume"}
  BY DEF SeriesStates, B!BarTypes
<1>7. B!ShouldFinalize(updated) <=> Due(s, b)
  <2>1. CASE s.type = "Time"
    BY <1>4, <2>1 DEF B!ShouldFinalize, Due
  <2>2. CASE s.type = "Range"
    BY <1>4, <2>2 DEF B!ShouldFinalize, Due
  <2>3. CASE s.type = "Volume"
    BY <1>4, <2>3 DEF B!ShouldFinalize, Due
  <2> QED
    BY <1>6, <2>1, <2>2, <2>3
<1>8. /\ u \in SeriesStates /\ u.type = s.type /\ u.threshold = s.threshold
      /\ Ends(s, mid, tick, b, u, u.completed)
  <2>1. CASE ~B!ShouldFinalize(updated)
    <3>1. u = updated
      BY <2>1
    <3> QED
      BY <1>4, <1>7, <2>1, <3>1 DEF Ends
  <2>2. CASE B!ShouldFinalize(updated)
    <3> DEFINE x == [b EXCEPT !.end = tick.time]
    <3>1. /\ last \in SeriesStates /\ last.type = s.type /\ last.threshold = s.threshold
          /\ last.completed = Append(mid, x)
      BY <1>2, <1>4, FinalizeBarGives
    <3>2. x \in Bars /\ Closes(b, tick.time, x)
      BY <1>2, <1>5, ClosedBar
    <3>3. u = [last EXCEPT !.active = FALSE]
      BY <2>2
    <3> HIDE DEF x, last, u
    <3>4. FALSE \in BOOLEAN
      OBVIOUS
    <3>5. u \in SeriesStates
      BY <3>1, <3>3, <3>4, Zenon DEF SeriesStates
    <3>6. /\ ~u.active /\ u.type = last.type /\ u.threshold = last.threshold
          /\ u.completed = last.completed
      BY <3>1, <3>3 DEF SeriesStates
    <3> QED
      BY <1>7, <2>2, <3>1, <3>2, <3>5, <3>6 DEF Ends
  <2> QED
    BY <2>1, <2>2
<1> HIDE DEF u, base, b, mid
<1> QED
  BY <1>1, <1>3, <1>4, <1>5, <1>8 DEF Outcome

(* The bars that were read and cleared do not matter.                      *)
LEMMA AppendJoins ==
  ASSUME NEW a \in Seq(Bars), NEW q \in Seq(Bars), NEW x \in Bars
  PROVE  a \o Append(q, x) = Append(a \o q, x)
<1>1. <<x>> \in Seq(Bars) /\ a \o q \in Seq(Bars)
  BY ConcatProperties
<1>2. Append(q, x) = q \o <<x>> /\ Append(a \o q, x) = (a \o q) \o <<x>>
  BY <1>1, AppendIsConcat
<1> QED
  BY <1>1, <1>2, ConcatAssociative

LEMMA OutcomeShifts ==
  ASSUME NEW s \in SeriesStates, NEW tick, NEW u, NEW a \in Seq(Bars),
         Outcome(s, s.completed, tick, u, u.completed)
  PROVE  Outcome(s, a \o s.completed, tick, u, a \o u.completed)
<1>1. PICK base \in Bars, b \in Bars, mid \in Seq(Bars) :
        /\ Starts(s, s.completed, tick, base, mid)
        /\ Updated(base, tick, b)
        /\ Ends(s, mid, tick, b, u, u.completed)
  BY DEF Outcome
<1>2. s.completed \in Seq(Bars)
  BY DEF SeriesStates
<1>3. a \o mid \in Seq(Bars)
  BY ConcatProperties
<1>4. Starts(s, a \o s.completed, tick, base, a \o mid)
  <2>1. ASSUME NEW x \in Bars, mid = Append(s.completed, x)
        PROVE  a \o mid = Append(a \o s.completed, x)
    BY <1>2, <2>1, AppendJoins
  <2> QED
    BY <1>1, <2>1 DEF Starts
<1>5. Ends(s, a \o mid, tick, b, u, a \o u.completed)
  <2>1. ASSUME NEW x \in Bars, u.completed = Append(mid, x)
        PROVE  a \o u.completed = Append(a \o mid, x)
    BY <2>1, AppendJoins
  <2> QED
    BY <1>1, <2>1 DEF Ends
<1> QED
  BY <1>1, <1>3, <1>4, <1>5 DEF Outcome

---------------------------------------------------------------------------
(* The series of the pipeline, action by action.                           *)
SeriesTypes ==
  /\ ticks \in Seq(Feed)
  /\ series \in Seq(SeriesStates) /\ archive \in Seq(Seq(Bars)) /\ since \in Seq(Nat)
  /\ Len(archive) = Len(series) /\ Len(since) = Len(series)
  /\ \A i \in DOMAIN series : Counting(series[i])

LEMMA BarsTyped ==
  ASSUME SeriesTypes, NEW i \in DOMAIN series
  PROVE  /\ series[i] \in SeriesStates /\ archive[i] \in Seq(Bars) /\ since[i] \in Nat
         /\ BarsOf(i) \in Seq(Bars) /\ Counting(series[i])
<1>1. i \in 1 .. Len(series) /\ Len(series) \in Nat
  BY LenProperties DEF SeriesTypes
<1>2. series[i] \in SeriesStates /\ archive[i] \in Seq(Bars) /\ since[i] \in Nat
  BY <1>1, ElementOfSeq DEF SeriesTypes
<1> QED
  BY <1>2, ConcatProperties DEF BarsOf, SeriesStates, SeriesTypes

(* What a step does to a series: it is added, it is fed a tick, or its     *)
(* bars and their number stay.                                             *)
Added(i) ==
  /\ i = Len(series) + 1
  /\ \E kind \in Kinds : series'[i] = B!NewSeries(kind[1], kind[2])
  /\ BarsOf(i)' = << >> /\ since'[i] = Len(ticks) /\ ticks' = ticks

Fed(i) ==
  /\ i \in DOMAIN series /\ since'[i] = since[i]
  /\ \E tick \in Feed :
       /\ ticks' = Append(ticks, tick)
       /\ Outcome(series[i], BarsOf(i), tick, series'[i], BarsOf(i)')

Kept(i) ==
  /\ i \in DOMAIN series /\ since'[i] = since[i]
  /\ ticks' = ticks /\ BarsOf(i)' = BarsOf(i)
  /\ series'[i].type = series[i].type /\ series'[i].threshold = series[i].threshold
  /\ series'[i].active = series[i].active /\ series'[i].current = series[i].current

LEMMA OutcomeCounts ==
  ASSUME NEW s, NEW bars, NEW tick, NEW u, NEW after, Outcome(s, bars, tick, u, after)
  PROVE  Counting(u)
<1>1. PICK base \in Bars, b \in Bars, mid \in Seq(Bars) :
        Updated(base, tick, b) /\ Ends(s, mid, tick, b, u, after)
  BY DEF Outcome
<1>2. b.count = base.count + 1 /\ base.count \in Nat
  BY <1>1 DEF Updated, Bars
<1> QED
  BY <1>1, <1>2 DEF Ends, Counting

LEMMA NewSeriesTyped ==
  ASSUME NEW kind \in Kinds
  PROVE  /\ B!NewSeries(kind[1], kind[2]) \in SeriesStates
         /\ ~B!NewSeries(kind[1], kind[2]).active
         /\ B!NewSeries(kind[1], kind[2]).completed = << >>
<1>1. kind[1] \in B!BarTypes /\ kind[2] \in Nat
  BY KindsAssumption
<1>2. << >> \in Seq(Bars) /\ FALSE \in BOOLEAN /\ 0 \in Int
  BY EmptySeq
<1>3. B!NewSeries(kind[1], kind[2]) \in SeriesStates
  BY <1>1, <1>2, EmptyBarTyped, Zenon DEF B!NewSeries, SeriesStates
<1> QED
  BY <1>3 DEF B!NewSeries

LEMMA AddSeriesSteps ==
  ASSUME SeriesTypes, AddSeries
  PROVE  SeriesTypes' /\ \A i \in DOMAIN series' : Added(i) \/ Kept(i)
<1>1. PICK kind \in Kinds : series' = Append(series, B!NewSeries(kind[1], kind[2]))
  BY DEF AddSeries
<1>n. PICK n \in Nat : n = Len(series)
  BY LenProperties DEF SeriesTypes
<1> DEFINE s == B!NewSeries(kind[1], kind[2])
<1>2. /\ s \in SeriesStates /\ ~s.active /\ s.completed = << >>
      /\ Len(ticks) \in Nat /\ << >> \in Seq(Bars)
  BY NewSeriesTyped, LenProperties, EmptySeq DEF SeriesTypes
<1>3. /\ series' = Append(series, s) /\ since' = Append(since, Len(ticks))
      /\ archive' = Append(archive, << >>) /\ ticks' = ticks
  BY <1>1 DEF AddSeries
<1> HIDE DEF s
<1>4. /\ series' \in Seq(SeriesStates) /\ archive' \in Seq(Seq(Bars)) /\ since' \in Seq(Nat)
      /\ Len(series') = n + 1 /\ Len(archive') = n + 1 /\ Len(since') = n + 1
      /\ series'[n + 1] = s /\ archive'[n + 1] = << >> /\ since'[n + 1] = Len(ticks)
      /\ \A i \in 1 .. n : series'[i] = series[i] /\ archive'[i] = archive[i]
                             /\ since'[i] = since[i]
  BY <1>n, <1>2, <1>3, AppendProperties DEF SeriesTypes
<1>5. DOMAIN series = 1 .. n /\ DOMAIN series' = 1 .. n + 1
  BY <1>n, <1>2, <1>4, LenProperties DEF SeriesTypes
<1>6. SeriesTypes'
  BY <1>n, <1>2, <1>3, <1>4, <1>5 DEF SeriesTypes, Counting
<1>7. Added(n + 1)
  <2>1. BarsOf(n + 1)' = << >>
    <3>1. << >> \o << >> = << >>
      BY <1>2, ConcatEmptySeq
    <3> QED
      BY <1>2, <1>4, <3>1 DEF BarsOf
  <2> QED
    BY <1>n, <1>1, <1>3, <1>4, <2>1 DEF Added, s
<1>8. \A i \in 1 .. n : Kept(i)
  BY <1>3, <1>4, <1>5 DEF Kept, BarsOf
<1> QED
  BY <1>2, <1>5, <1>6, <1>7, <1>8

LEMMA IngestSteps ==
  ASSUME SeriesTypes, Ingest
  PROVE  SeriesTypes' /\ \A i \in DOMAIN series' : Fed(i)
<1>1. PICK tick \in Feed :
        /\ series' = [i \in DOMAIN series |-> B!Ingest(series[i], tick)]
        /\ ticks' = Append(ticks, tick)
  BY Zenon DEF Ingest
<1>2. TickTyped(tick) /\ UNCHANGED <<since, archive>>
  BY FeedTyped DEF Ingest
<1>3. ASSUME NEW i \in DOMAIN series
      PROVE  /\ series'[i] \in SeriesStates /\ Counting(series'[i])
             /\ Outcome(series[i], BarsOf(i), tick, series'[i], BarsOf(i)')
  <2>1. series'[i] = B!Ingest(series[i], tick)
    BY <1>1
  <2>2. series[i] \in SeriesStates /\ archive[i] \in Seq(Bars) /\ Counting(series[i])
    BY BarsTyped
  <2>3. Outcome(series[i], series[i].completed, tick, series'[i], series'[i].completed)
    BY <1>2, <2>1, <2>2, IngestGives
  <2>4. Outcome(series[i], archive[i] \o series[i].completed, tick, series'[i],
                archive[i] \o series'[i].completed)
    BY <2>2, <2>3, OutcomeShifts
  <2> QED
    BY <1>2, <2>3, <2>4, OutcomeCounts DEF BarsOf, Outcome
<1>4. DOMAIN series' = DOMAIN series /\ DOMAIN series = 1 .. Len(series) /\ Len(series) \in Nat
  BY <1>1, LenProperties DEF SeriesTypes
<1>5. series' \in Seq(SeriesStates) /\ Len(series') = Len(series)
  BY <1>1, <1>3, <1>4, IsASeq
<1>6. SeriesTypes'
  BY <1>1, <1>2, <1>3, <1>4, <1>5, AppendProperties DEF SeriesTypes
<1> QED
  BY <1>1, <1>2, <1>3, <1>4, <1>6 DEF Fed

LEMMA ReadCompletedSteps ==
  ASSUME SeriesTypes, ReadCompleted
  PROVE  SeriesTypes' /\ \A i \in DOMAIN series' : Kept(i)
<1>1. PICK k \in DOMAIN series :
        /\ archive' = [archive EXCEPT ![k] = BarsOf(k)]
        /\ series' = [series EXCEPT ![k] = B!ClearCompleted(series[k])]
  BY DEF ReadCompleted
<1> DEFINE s == B!ClearCompleted(series[k])
<1>2. series[k] \in SeriesStates /\ BarsOf(k) \in Seq(Bars) /\ Counting(series[k])
  BY BarsTyped
<1>3. /\ s \in SeriesStates /\ s.completed = << >>
      /\ s.type = series[k].type /\ s.threshold = series[k].threshold
      /\ s.active = series[k].active /\ s.current = series[k].current
      /\ s.sessionCvd = series[k].sessionCvd
  <2>1. << >> \in Seq(Bars)
    BY EmptySeq
  <2>2. s \in SeriesStates
    BY <1>2, <2>1, Zenon DEF B!ClearCompleted, SeriesStates
  <2> QED
    BY <1>2, <2>2 DEF B!ClearCompleted, SeriesStates
<1> HIDE DEF s
<1>4. series' = [series EXCEPT ![k] = s] /\ UNCHANGED <<ticks, since>>
  BY <1>1 DEF ReadCompleted, s
<1>5. DOMAIN series = 1 .. Len(series) /\ DOMAIN archive = DOMAIN series /\ Len(series) \in Nat
  BY LenProperties DEF SeriesTypes
<1>6. /\ series' \in Seq(SeriesStates) /\ Len(series') = Len(series)
      /\ archive' \in Seq(Seq(Bars)) /\ Len(archive') = Len(archive)
  BY <1>1, <1>2, <1>3, <1>4, <1>5, ExceptSeq DEF SeriesTypes
<1>7. /\ DOMAIN series' = DOMAIN series
      /\ series'[k] = s /\ archive'[k] = BarsOf(k)
      /\ \A i \in DOMAIN series : i # k => series'[i] = series[i] /\ archive'[i] = archive[i]
  BY <1>1, <1>4, <1>5
<1>8. BarsOf(k)' = BarsOf(k)
  BY <1>2, <1>3, <1>7, ConcatEmptySeq DEF BarsOf
<1>9. SeriesTypes'
  <2>1. Counting(s)
    BY <1>2, <1>3 DEF Counting
  <2>2. \A i \in DOMAIN series' : Counting(series'[i])
    BY <1>7, <2>1 DEF SeriesTypes
  <2> QED
    BY <1>4, <1>6, <2>2 DEF SeriesTypes
<1>10. ASSUME NEW i \in DOMAIN series PROVE Kept(i)
  <2>1. CASE i = k
    BY <1>3, <1>4, <1>7, <1>8, <2>1 DEF Kept
  <2>2. CASE i # k
    BY <1>4, <1>7, <2>2 DEF Kept, BarsOf
  <2> QED
    BY <2>1, <2>2
<1> QED
  BY <1>7, <1>9, <1>10

LEMMA SeriesSteps ==
  ASSUME SeriesTypes, [Next]_vars
  PROVE  SeriesTypes' /\ \A i \in DOMAIN series' : Added(i) \/ Fed(i) \/ Kept(i)
<1>1. CASE UNCHANGED <<series, ticks, since, archive>>
  BY <1>1 DEF SeriesTypes, Kept, BarsOf
<1> QED
  BY <1>1, AddSeriesSteps, IngestSteps, ReadCompletedSteps DEF Next, ResetSession, vars

LEMMA BeginsTyped == Init => SeriesTypes
BY EmptySeq DEF Init, SeriesTypes

LEMMA SeriesStayTyped == Spec => []SeriesTypes
<1>1. SeriesTypes /\ [Next]_vars => SeriesTypes'
  BY SeriesSteps
<1> QED
  BY <1>1, BeginsTyped, PTL DEF Spec

---------------------------------------------------------------------------
(* Where bars close.                                                       *)
ClosedOnTime(s, bars) ==
  \A j \in DOMAIN bars :
    /\ bars[j].end >= bars[j].start + s.threshold
    /\ s.active /\ bars[j].end = (IF j < Len(bars) THEN bars[j + 1] ELSE s.current).start

ClosedOnRange(s, bars) ==
  /\ \A j \in DOMAIN bars : B!BarRange(bars[j]) >= s.threshold
  /\ s.active => B!BarRange(s.current) < s.threshold

ClosedOnVolume(s, bars) ==
  /\ \A j \in DOMAIN bars : bars[j].volume >= s.threshold
  /\ s.active => s.current.volume < s.threshold

ClosedOnThreshold(s, bars) ==
  /\ s.type = "Time" => ClosedOnTime(s, bars)
  /\ s.type = "Range" => ClosedOnRange(s, bars)
  /\ s.type = "Volume" => ClosedOnVolume(s, bars)

LEMMA RangeTyped == \A b \in Bars : B!BarRange(b) \in Int /\ b.volume \in Nat
BY DEF Bars, B!BarRange

LEMMA LastOrBefore == \A n \in Nat : \A j \in 1 .. n : j < n \/ j = n
OBVIOUS

LEMMA OutcomeClosesOnTime ==
  ASSUME NEW s \in SeriesStates, NEW bars \in Seq(Bars), NEW tick, NEW u, NEW after,
         Outcome(s, bars, tick, u, after), TickTyped(tick),
         s.type = "Time", ClosedOnTime(s, bars)
  PROVE  ClosedOnTime(u, after)
<1>1. PICK base \in Bars, b \in Bars, mid \in Seq(Bars) :
        /\ Starts(s, bars, tick, base, mid)
        /\ Updated(base, tick, b)
        /\ Ends(s, mid, tick, b, u, after)
  BY DEF Outcome
<1>2. /\ u.active /\ u.current = b /\ after = mid /\ b.start = base.start
      /\ u.threshold = s.threshold
  BY <1>1 DEF Ends, Due, Updated, Outcome
<1>3. DOMAIN bars = 1 .. Len(bars) /\ Len(bars) \in Nat
  BY LenProperties
<1>4. CASE s.active /\ ~B!TimeIsUp(s, tick) /\ base = s.current /\ mid = bars
  BY <1>2, <1>4 DEF ClosedOnTime
<1>5. CASE ~s.active /\ mid = bars
  BY <1>2, <1>5 DEF ClosedOnTime
<1>6. ASSUME s.active, B!TimeIsUp(s, tick), Begins(base, tick), NEW x \in Bars,
             Closes(s.current, tick.time, x), mid = Append(bars, x)
      PROVE  ClosedOnTime(u, after)
  <2>1. /\ Len(mid) = Len(bars) + 1 /\ DOMAIN mid = 1 .. Len(bars) + 1
        /\ mid[Len(bars) + 1] = x
        /\ \A j \in 1 .. Len(bars) : mid[j] = bars[j]
    BY <1>6, AppendProperties, LenProperties
  <2>2. /\ x.end = tick.time /\ x.start = s.current.start
        /\ tick.time >= s.current.start + s.threshold /\ b.start = tick.time
    BY <1>2, <1>6 DEF Closes, Begins, B!TimeIsUp
  <2>3. ASSUME NEW j \in 1 .. Len(bars)
        PROVE  /\ mid[j].end >= mid[j].start + s.threshold
               /\ mid[j].end = (IF j < Len(mid) THEN mid[j + 1] ELSE b).start
    <3>1. /\ bars[j].end >= bars[j].start + s.threshold
          /\ bars[j].end = (IF j < Len(bars) THEN bars[j + 1] ELSE s.current).start
      BY <1>3 DEF ClosedOnTime
    <3>2. CASE j < Len(bars)
      <4>1. j + 1 \in 1 .. Len(bars) /\ j < Len(mid)
        BY <1>3, <2>1, <3>2
      <4>2. mid[j] = bars[j] /\ mid[j + 1] = bars[j + 1]
        BY <2>1, <4>1
      <4> QED
        BY <3>1, <3>2, <4>1, <4>2
    <3>3. CASE j = Len(bars)
      <4>1. ~(j < Len(bars)) /\ Len(bars) \in Nat
        BY <1>3, <3>3
      <4>2. Len(mid) = Len(bars) + 1 /\ mid[Len(bars) + 1] = x
        BY <2>1, Zenon
      <4>3. mid[j + 1] = x
        BY <3>3, <4>2
      <4>4. j < Len(mid)
        <5>1. Len(mid) = Len(bars) + 1
          BY <2>1, Zenon
        <5>2. Len(bars) \in Nat
          BY SMTT(30), <1>3
        <5> QED
          BY <3>3, <5>1, <5>2
      <4> QED
        BY <2>1, <2>2, <3>1, <4>1, <4>3, <4>4
    <3>4. j < Len(bars) \/ j = Len(bars)
      BY <1>3, LastOrBefore
    <3> QED
      BY <3>2, <3>3, <3>4
  <2>4. /\ mid[Len(mid)].end >= mid[Len(mid)].start + s.threshold
        /\ mid[Len(mid)].end = b.start
    BY <2>1, <2>2
  <2> QED
    BY <1>2, <1>3, <2>1, <2>3, <2>4 DEF ClosedOnTime
<1> QED
  BY <1>1, <1>4, <1>5, <1>6 DEF Starts

LEMMA OutcomeClosesOnSize ==
  ASSUME NEW s \in SeriesStates, NEW bars \in Seq(Bars), NEW tick, NEW u, NEW after,
         Outcome(s, bars, tick, u, after), s.type # "Time"
  PROVE  /\ s.type = "Range" /\ ClosedOnRange(s, bars) => ClosedOnRange(u, after)
         /\ s.type = "Volume" /\ ClosedOnVolume(s, bars) => ClosedOnVolume(u, after)
<1>1. PICK base \in Bars, b \in Bars, mid \in Seq(Bars) :
        /\ Starts(s, bars, tick, base, mid)
        /\ Updated(base, tick, b)
        /\ Ends(s, mid, tick, b, u, after)
  BY DEF Outcome
<1>2. mid = bars /\ u.threshold = s.threshold /\ s.threshold \in Nat
  BY <1>1 DEF Starts, B!TimeIsUp, Outcome, SeriesStates
<1>3. CASE ~Due(s, b) /\ u.active /\ u.current = b /\ after = bars
  <2>1. B!BarRange(b) \in Int /\ b.volume \in Nat
    BY RangeTyped
  <2>2. /\ s.type = "Range" => B!BarRange(b) < s.threshold
        /\ s.type = "Volume" => b.volume < s.threshold
    BY <1>2, <1>3, <2>1 DEF Due
  <2>3. s.type = "Range" /\ ClosedOnRange(s, bars) => ClosedOnRange(u, after)
    BY <1>2, <1>3, <2>2 DEF ClosedOnRange
  <2>4. s.type = "Volume" /\ ClosedOnVolume(s, bars) => ClosedOnVolume(u, after)
    BY <1>2, <1>3, <2>2 DEF ClosedOnVolume
  <2> QED
    BY <2>3, <2>4
<1>4. ASSUME Due(s, b), ~u.active, NEW x \in Bars, Closes(b, tick.time, x),
             after = Append(bars, x)
      PROVE  /\ s.type = "Range" /\ ClosedOnRange(s, bars) => ClosedOnRange(u, after)
             /\ s.type = "Volume" /\ ClosedOnVolume(s, bars) => ClosedOnVolume(u, after)
  <2>1. /\ DOMAIN after = 1 .. Len(bars) + 1 /\ Len(bars) \in Nat
        /\ DOMAIN bars = 1 .. Len(bars) /\ after[Len(bars) + 1] = x
        /\ \A j \in 1 .. Len(bars) : after[j] = bars[j]
    BY <1>4, AppendProperties, LenProperties
  <2>2. x.volume = b.volume /\ B!BarRange(x) = B!BarRange(b)
    BY <1>4 DEF Closes, B!BarRange
  <2>3. \A j \in DOMAIN after : j \in DOMAIN bars \/ j = Len(bars) + 1
    BY <2>1
  <2> QED
    BY <1>2, <1>4, <2>1, <2>2, <2>3 DEF Due, ClosedOnRange, ClosedOnVolume
<1> QED
  BY <1>1, <1>2, <1>3, <1>4 DEF Ends

LEMMA OutcomeClosesOnThreshold ==
  ASSUME NEW s \in SeriesStates, NEW bars \in Seq(Bars), NEW tick, NEW u, NEW after,
         Outcome(s, bars, tick, u, after), TickTyped(tick), ClosedOnThreshold(s, bars)
  PROVE  ClosedOnThreshold(u, after)
<1>1. u.type = s.type
  BY DEF Outcome
<1>2. s.type = "Time" => ClosedOnTime(u, after)
  BY OutcomeClosesOnTime DEF ClosedOnThreshold
<1>3. /\ s.type = "Range" => ClosedOnRange(u, after)
      /\ s.type = "Volume" => ClosedOnVolume(u, after)
  BY OutcomeClosesOnSize DEF ClosedOnThreshold
<1> QED
  BY <1>1, <1>2, <1>3 DEF ClosedOnThreshold

Thresholds == \A i \in DOMAIN series : ClosedOnThreshold(series[i], BarsOf(i))

LEMMA ThresholdsHold == Spec => [](SeriesTypes /\ Thresholds)
<1>1. Init => Thresholds
  BY DEF Init, Thresholds
<1>2. SeriesTypes /\ Thresholds /\ [Next]_vars => Thresholds'
  <2> SUFFICES ASSUME SeriesTypes, Thresholds, [Next]_vars, NEW i \in DOMAIN series'
               PROVE  ClosedOnThreshold(series'[i], BarsOf(i)')
    BY DEF Thresholds
  <2>1. Added(i) \/ Fed(i) \/ Kept(i)
    BY SeriesSteps
  <2>2. CASE Added(i)
    <3>1. PICK kind \in Kinds : series'[i] = B!NewSeries(kind[1], kind[2])
      BY <2>2 DEF Added
    <3>2. ~series'[i].active /\ BarsOf(i)' = << >>
      BY <2>2, <3>1, NewSeriesTyped DEF Added
    <3> QED
      BY <3>2 DEF ClosedOnThreshold, ClosedOnTime, ClosedOnRange, ClosedOnVolume
  <2>3. CASE Fed(i)
    <3>1. PICK tick \in Feed : Outcome(series[i], BarsOf(i), tick, series'[i], BarsOf(i)')
      BY <2>3 DEF Fed
    <3>2. /\ series[i] \in SeriesStates /\ BarsOf(i) \in Seq(Bars)
          /\ ClosedOnThreshold(series[i], BarsOf(i))
      BY <2>3, BarsTyped DEF Fed, Thresholds
    <3> QED
      BY <3>1, <3>2, FeedTyped, OutcomeClosesOnThreshold
  <2>4. CASE Kept(i)
    BY <2>4 DEF Kept, Thresholds, ClosedOnThreshold, ClosedOnTime, ClosedOnRange, ClosedOnVolume
  <2> QED
    BY <2>1, <2>2, <2>3, <2>4
<1> QED
  BY <1>1, <1>2, SeriesStayTyped, PTL DEF Spec

---------------------------------------------------------------------------
(* Sums.  SumOf() folds a sequence from its end: it is a function on the   *)
(* sets of its positions that exists, and on 1 .. k it is the sum of the   *)
(* first k elements.                                                       *)
LEMMA LeastElement ==
  ASSUME NEW T \in SUBSET Nat, T # {}
  PROVE  \E n \in T : \A m \in T : n <= m
<1>1. PICK n \in T : \A m \in T : ~(<<m, n>> \in OpToRel(<, Nat))
  BY NatLessThanWellFounded, WFMin
<1>2. ASSUME NEW m \in T PROVE n <= m
  <2>1. ~(m < n)
    BY <1>1 DEF OpToRel
  <2> QED
    BY <2>1
<1> QED
  BY <1>2

LEMMA Induction ==
  ASSUME NEW T, 0 \in T, \A n \in Nat : n \in T => n + 1 \in T
  PROVE  \A n \in Nat : n \in T
<1> SUFFICES ASSUME Nat \ T # {} PROVE FALSE
  OBVIOUS
<1>1. PICK n \in Nat \ T : \A m \in Nat \ T : n <= m
  BY LeastElement
<1>2. n # 0 /\ n - 1 \in Nat /\ n - 1 \in T
  BY <1>1
<1> QED
  BY <1>1, <1>2

Largest(s) == CHOOSE x \in s : \A y \in s : x >= y

LEMMA LastIn ==
  ASSUME NEW n \in Nat, NEW s \in SUBSET (1 .. n), s # {}
  PROVE  Largest(s) \in s /\ \A y \in s : Largest(s) >= y
<1> DEFINE T == {m \in Nat : \A y \in s : y <= m}
<1>1. n \in T
  OBVIOUS
<1>2. PICK m \in T : \A k \in T : m <= k
  <2> HIDE DEF T
  <2>1. T \in SUBSET Nat
    BY DEF T
  <2> QED
    BY <1>1, <2>1, LeastElement
<1>3. m \in s
  <2> SUFFICES ASSUME m \notin s PROVE FALSE
    OBVIOUS
  <2>1. m \in Nat /\ \A y \in s : y \in Int /\ 1 <= y /\ y <= m /\ y # m
    BY <1>2
  <2>2. PICK y \in s : TRUE
    OBVIOUS
  <2>3. m - 1 \in T
    BY <2>1, <2>2
  <2> QED
    BY <1>2, <2>1, <2>3
<1>4. \A y \in s : m >= y
  BY <1>2
<1> QED
  BY <1>3, <1>4 DEF Largest

Folds(f, a) ==
  f = [s \in SUBSET (DOMAIN a) |->
         IF s = {} THEN 0 ELSE f[s \ {Largest(s)}] + a[Largest(s)]]

LEMMA FoldsExist ==
  ASSUME NEW n \in Nat, NEW a, DOMAIN a = 1 .. n
  PROVE  \E f : Folds(f, a)
<1> DEFINE All == SUBSET (1 .. n)
           Small(k) == {s \in All : Cardinality(s) <= k}
           UpTo(f, k) == f = [s \in Small(k) |->
                                IF s = {} THEN 0 ELSE f[s \ {Largest(s)}] + a[Largest(s)]]
           N == {k \in Nat : \E f : UpTo(f, k)}
<1>0. IsFiniteSet(1 .. n) /\ Cardinality(1 .. n) = n
  BY FS_Interval
<1>1. \A s \in All : IsFiniteSet(s) /\ Cardinality(s) \in Nat /\ Cardinality(s) <= n
  BY <1>0, FS_Subset, FS_CardinalityType
<1>2. \A s \in All : s # {} => Largest(s) \in s
  BY LastIn
<1>3. 0 \in N
  <2> DEFINE f == [s \in Small(0) |-> 0]
  <2>1. \A s \in Small(0) : s = {}
    BY <1>1, FS_EmptySet
  <2>2. UpTo(f, 0)
    BY <2>1
  <2> HIDE DEF f, UpTo
  <2> QED
    BY <2>2
<1>4. ASSUME NEW k \in Nat, k \in N PROVE k + 1 \in N
  <2>1. PICK f : UpTo(f, k)
    BY <1>4
  <2> DEFINE g == [s \in Small(k + 1) |->
                     IF Cardinality(s) <= k THEN f[s] ELSE f[s \ {Largest(s)}] + a[Largest(s)]]
  <2>2. ASSUME NEW s \in Small(k + 1)
        PROVE  g[s] = IF s = {} THEN 0 ELSE g[s \ {Largest(s)}] + a[Largest(s)]
    <3>1. s # {} => /\ s \ {Largest(s)} \in All
                    /\ Cardinality(s \ {Largest(s)}) = Cardinality(s) - 1
      BY <1>1, <1>2, FS_RemoveElement
    <3>2. s # {} => s \ {Largest(s)} \in Small(k) /\ g[s \ {Largest(s)}] = f[s \ {Largest(s)}]
      BY <1>1, <3>1
    <3>3. CASE Cardinality(s) <= k
      <4>1. f[s] = IF s = {} THEN 0 ELSE f[s \ {Largest(s)}] + a[Largest(s)]
        BY <2>1, <3>3
      <4> QED
        BY <3>2, <3>3, <4>1
    <3>4. CASE ~(Cardinality(s) <= k)
      <4>1. s # {}
        BY <1>1, <3>4, FS_EmptySet
      <4> QED
        BY <3>2, <3>4, <4>1
    <3> QED
      BY <3>3, <3>4
  <2>3. UpTo(g, k + 1)
    BY <2>2
  <2> HIDE DEF g, UpTo
  <2> QED
    BY <2>3
<1>5. n \in N
  <2> HIDE DEF N
  <2> QED
    BY <1>3, <1>4, Induction
<1>6. Small(n) = All
  BY <1>1
<1>7. PICK f : UpTo(f, n)
  BY <1>5
<1> QED
  BY <1>6, <1>7 DEF Folds

FoldOf(a) == CHOOSE f : Folds(f, a)

(* r gives for every k the sum of the first k elements.                    *)
Runs(r, a, n) == r[0] = 0 /\ \A k \in 1 .. n : r[k] = r[k - 1] + a[k]

LEMMA SumIsFold == \A a : B!SumOf(a) = FoldOf(a)[DOMAIN a]
BY Zenon DEF B!SumOf, B!FoldLeft, B!MapThenFoldSet, B!Max, Folds, FoldOf, Largest

LEMMA SumRuns ==
  ASSUME NEW n \in Nat, NEW a, DOMAIN a = 1 .. n
  PROVE  \E r : Runs(r, a, n) /\ B!SumOf(a) = r[n]
<1> DEFINE f == FoldOf(a)
           r == [k \in 0 .. n |-> f[1 .. k]]
<1>1. f = [s \in SUBSET (1 .. n) |->
             IF s = {} THEN 0 ELSE f[s \ {Largest(s)}] + a[Largest(s)]]
  BY FoldsExist DEF FoldOf, Folds
<1>2. r[0] = 0
  BY <1>1
<1>3. ASSUME NEW k \in 1 .. n PROVE r[k] = r[k - 1] + a[k]
  <2>1. Largest(1 .. k) = k
    <3>1. k \in Nat /\ 1 .. k \in SUBSET (1 .. k) /\ 1 .. k # {} /\ k \in 1 .. k
      OBVIOUS
    <3>2. Largest(1 .. k) \in 1 .. k /\ \A y \in 1 .. k : Largest(1 .. k) >= y
      BY <3>1, LastIn
    <3> QED
      BY <3>1, <3>2
  <2>2. (1 .. k) \ {k} = 1 .. (k - 1) /\ 1 .. k # {} /\ 1 .. k \in SUBSET (1 .. n)
    OBVIOUS
  <2>3. f[1 .. k] = f[1 .. (k - 1)] + a[k]
    BY <1>1, <2>1, <2>2
  <2> QED
    BY <2>3
<1>4. B!SumOf(a) = r[n]
  BY SumIsFold
<1> HIDE DEF r
<1> QED
  BY <1>2, <1>3, <1>4 DEF Runs

LEMMA RunsTyped ==
  ASSUME NEW n \in Nat, NEW a, NEW r, Runs(r, a, n), \A k \in 1 .. n : a[k] \in Int
  PROVE  \A k \in 0 .. n : r[k] \in Int
<1> DEFINE T == {k \in Nat : k <= n => r[k] \in Int}
<1>1. 0 \in T
  BY DEF Runs
<1>2. \A k \in Nat : k \in T => k + 1 \in T
  <2> SUFFICES ASSUME NEW k \in Nat, k \in T, k + 1 <= n PROVE r[k + 1] \in Int
    OBVIOUS
  <2>1. k + 1 \in 1 .. n /\ (k + 1) - 1 = k
    OBVIOUS
  <2> QED
    BY <2>1 DEF Runs
<1>3. \A k \in Nat : k \in T
  <2> HIDE DEF T
  <2> QED
    BY <1>1, <1>2, Induction
<1> QED
  BY <1>3

LEMMA RunsAgree ==
  ASSUME NEW n \in Nat, NEW a, NEW b, NEW q, NEW r, Runs(q, a, n), Runs(r, b, n),
         \A k \in 1 .. n : a[k] = b[k]
  PROVE  q[n] = r[n]
<1> DEFINE T == {k \in Nat : k <= n => q[k] = r[k]}
<1>1. 0 \in T
  BY DEF Runs
<1>2. \A k \in Nat : k \in T => k + 1 \in T
  <2> SUFFICES ASSUME NEW k \in Nat, k \in T, k + 1 <= n PROVE q[k + 1] = r[k + 1]
    OBVIOUS
  <2>1. k + 1 \in 1 .. n /\ (k + 1) - 1 = k
    OBVIOUS
  <2> QED
    BY <2>1 DEF Runs
<1>3. \A k \in Nat : k \in T
  <2> HIDE DEF T
  <2> QED
    BY <1>1, <1>2, Induction
<1> QED
  BY <1>3

(* The sum of no elements, and of one more.                                *)
LEMMA SumOfNone == ASSUME NEW a, DOMAIN a = 1 .. 0 PROVE B!SumOf(a) = 0
BY SumRuns DEF Runs

LEMMA SumOfMore ==
  ASSUME NEW n \in Nat, NEW a, NEW b, DOMAIN a = 1 .. n, DOMAIN b = 1 .. n + 1,
         \A k \in 1 .. n : b[k] = a[k]
  PROVE  B!SumOf(b) = B!SumOf(a) + b[n + 1]
<1>1. PICK q : Runs(q, a, n) /\ B!SumOf(a) = q[n]
  BY SumRuns
<1>2. PICK r : Runs(r, b, n + 1) /\ B!SumOf(b) = r[n + 1]
  BY SumRuns
<1>3. Runs(r, b, n) /\ r[n + 1] = r[n] + b[n + 1]
  <2>1. n + 1 \in 1 .. n + 1 /\ (n + 1) - 1 = n /\ 1 .. n \subseteq 1 .. n + 1
    OBVIOUS
  <2> QED
    BY <1>2, <2>1 DEF Runs
<1>4. q[n] = r[n]
  BY <1>1, <1>3, RunsAgree
<1> QED
  BY <1>1, <1>2, <1>3, <1>4

LEMMA SumTyped ==
  ASSUME NEW n \in Nat, NEW a, DOMAIN a = 1 .. n, \A k \in 1 .. n : a[k] \in Int
  PROVE  B!SumOf(a) \in Int
<1>1. PICK r : Runs(r, a, n) /\ B!SumOf(a) = r[n]
  BY SumRuns
<1> QED
  BY <1>1, RunsTyped

---------------------------------------------------------------------------
(* The session's part of a sequence.                                       *)
LEMMA RestGrows ==
  ASSUME NEW T, NEW q \in Seq(T), NEW x \in T, NEW m \in Nat, m <= Len(q)
  PROVE  SubSeq(Append(q, x), m + 1, Len(q) + 1) = Append(SubSeq(q, m + 1, Len(q)), x)
<1>n. PICK n \in Nat : n = Len(q)
  BY LenProperties
<1>k. PICK k \in Nat : k = n - m
  <2>1. n - m \in Nat
    BY <1>n
  <2> QED
    BY <2>1
<1> DEFINE p == Append(q, x)
           a == SubSeq(q, m + 1, n)
           b == SubSeq(p, m + 1, n + 1)
<1>1. /\ p \in Seq(T) /\ Len(p) = n + 1 /\ p[n + 1] = x
      /\ \A i \in 1 .. n : p[i] = q[i] /\ q[i] \in T
  BY <1>n, AppendProperties, ElementOfSeq
<1>2. \A i \in 1 .. n + 1 : p[i] \in T
  BY <1>1, ElementOfSeq
<1> HIDE DEF p
<1>3. /\ a \in Seq(T) /\ Len(a) = k
      /\ \A i \in 1 .. k : a[i] = q[m + i]
  <2>1. \A i \in m + 1 .. n : q[i] \in T
    BY <1>1
  <2>2. /\ a \in Seq(T) /\ Len(a) = IF m + 1 <= n THEN n - (m + 1) + 1 ELSE 0
        /\ \A i \in 1 .. n - (m + 1) + 1 : a[i] = q[(m + 1) + i - 1]
    BY <2>1, SubSeqProperties
  <2>3. Len(a) = k
    BY <1>n, <1>k, <2>2
  <2>4. ASSUME NEW i \in 1 .. k PROVE a[i] = q[m + i]
    <3>1. i \in 1 .. n - (m + 1) + 1 /\ (m + 1) + i - 1 = m + i
      BY <1>n, <1>k
    <3> QED
      BY <2>2, <3>1
  <2> QED
    BY <2>2, <2>3, <2>4
<1>4. /\ b \in Seq(T) /\ Len(b) = k + 1
      /\ \A i \in 1 .. k + 1 : b[i] = p[m + i]
  <2>1. \A i \in m + 1 .. n + 1 : p[i] \in T
    BY <1>2
  <2>2. /\ b \in Seq(T) /\ Len(b) = IF m + 1 <= n + 1 THEN (n + 1) - (m + 1) + 1 ELSE 0
        /\ \A i \in 1 .. (n + 1) - (m + 1) + 1 : b[i] = p[(m + 1) + i - 1]
    BY <2>1, SubSeqProperties
  <2> QED
    BY <1>n, <1>k, <2>2
<1> HIDE DEF a, b
<1>5. /\ Append(a, x) \in Seq(T) /\ Len(Append(a, x)) = k + 1
      /\ Append(a, x)[k + 1] = x
      /\ \A i \in 1 .. k : Append(a, x)[i] = a[i]
  BY <1>3, AppendProperties
<1>6. \A i \in 1 .. k + 1 : b[i] = Append(a, x)[i]
  <2> SUFFICES ASSUME NEW i \in 1 .. k + 1 PROVE b[i] = Append(a, x)[i]
    OBVIOUS
  <2>1. CASE i = k + 1
    <3>1. m + i = n + 1
      BY <1>k, <2>1
    <3> QED
      BY <1>1, <1>4, <1>5, <2>1, <3>1
  <2>2. CASE i # k + 1
    <3>1. i \in 1 .. k /\ m + i \in 1 .. n
      BY <1>k, <2>2
    <3> QED
      BY <1>1, <1>3, <1>4, <1>5, <3>1
  <2> QED
    BY <2>1, <2>2
<1>7. b = Append(a, x)
  BY <1>4, <1>5, <1>6, SeqEqual
<1> QED
  BY <1>n, <1>7 DEF a, b, p

LEMMA RestEmpty ==
  ASSUME NEW T, NEW q \in Seq(T)
  PROVE  SubSeq(q, Len(q) + 1, Len(q)) = << >>
BY LenProperties, SubSeqEmpty

LEMMA RestTyped ==
  ASSUME NEW T, NEW q \in Seq(T), NEW m \in Nat
  PROVE  SubSeq(q, m + 1, Len(q)) \in Seq(T)
<1>1. Len(q) \in Nat /\ \A i \in m + 1 .. Len(q) : q[i] \in T
  BY LenProperties, ElementOfSeq
<1> QED
  BY <1>1, SubSeqProperties

---------------------------------------------------------------------------
(* The DeltaEngine over the bars it was given.                             *)
DeltaStates ==
  [barDelta : Int, maxDelta : Int, minDelta : Int, cumulative : Int,
   divergence : Int, surge : Int, updates : Nat, lastPrice : Int]

Deltas(bars) == {0} \cup {B!Delta(bars[j]) : j \in DOMAIN bars}

LastDelta(bars) == IF bars = << >> THEN 0 ELSE B!Delta(Last(bars))

DeltaOver(d, bars) ==
  /\ d.barDelta = LastDelta(bars) /\ d.surge = D!Larger(d.barDelta, -d.barDelta)
  /\ Len(bars) < 2 => d.divergence = 0
  /\ {d.maxDelta, d.minDelta} \subseteq Deltas(bars)
  /\ \A e \in Deltas(bars) : d.minDelta <= e /\ e <= d.maxDelta
  /\ d.cumulative = B!SumOf([j \in DOMAIN bars |-> B!Delta(bars[j])])
  /\ d.updates = Len(bars)
  /\ Len(bars) > 0 => d.lastPrice = Last(bars).close
  /\ Len(bars) > 1 =>
       d.divergence = (Last(bars).close - bars[Len(bars) - 1].close) * B!Delta(Last(bars))

LEMMA DeltaTyped ==
  \A x \in Bars : B!Delta(x) \in Int /\ x.close \in Int /\ x.buy \in Nat /\ x.sell \in Nat
BY DEF Bars, B!Delta

LEMMA DeltaStarts == D!ResetDelta \in DeltaStates /\ DeltaOver(D!ResetDelta, << >>)
<1>1. Deltas(<< >>) = {0}
  BY DEF Deltas
<1>2. B!SumOf([j \in DOMAIN << >> |-> B!Delta(<< >>[j])]) = 0
  <2>1. DOMAIN [j \in DOMAIN << >> |-> B!Delta(<< >>[j])] = 1 .. 0
    OBVIOUS
  <2> QED
    BY <2>1, SumOfNone
<1>3. Len(<< >>) = 0 /\ LastDelta(<< >>) = 0 /\ D!Larger(0, -0) = 0
  BY DEF LastDelta, D!Larger
<1>4. D!ResetDelta \in DeltaStates
  BY DEF D!ResetDelta, DeltaStates
<1> QED
  BY <1>1, <1>2, <1>3, <1>4 DEF DeltaOver, D!ResetDelta

LEMMA DeltaFollows ==
  ASSUME NEW d \in DeltaStates, NEW bars \in Seq(Bars), DeltaOver(d, bars), NEW x \in Bars
  PROVE  LET e == D!UpdateDelta(d, x.close, x.buy, x.sell)
         IN  e \in DeltaStates /\ DeltaOver(e, Append(bars, x))
<1>n. PICK n \in Nat : n = Len(bars) /\ DOMAIN bars = 1 .. n
  BY LenProperties
<1> DEFINE more == Append(bars, x)
           y == B!Delta(x)
           e == D!UpdateDelta(d, x.close, x.buy, x.sell)
           a == [j \in DOMAIN bars |-> B!Delta(bars[j])]
           b == [j \in DOMAIN more |-> B!Delta(more[j])]
<1>1. /\ more \in Seq(Bars) /\ Len(more) = n + 1 /\ more[n + 1] = x
      /\ DOMAIN more = 1 .. n + 1
      /\ \A i \in 1 .. n : more[i] = bars[i] /\ bars[i] \in Bars
  BY <1>n, AppendProperties, ElementOfSeq, LenProperties
<1>2. y \in Int /\ x.close \in Int /\ x.buy - x.sell = y
  BY DeltaTyped DEF B!Delta
<1>3. /\ d.cumulative \in Int /\ d.maxDelta \in Int /\ d.minDelta \in Int /\ d.updates \in Nat
      /\ d.lastPrice \in Int
  BY DEF DeltaStates
<1>4. /\ e.barDelta = y /\ e.cumulative = d.cumulative + y
      /\ e.maxDelta = D!Larger(d.maxDelta, y) /\ e.minDelta = D!Smaller(d.minDelta, y)
      /\ e.divergence = (IF d.updates = 0 THEN 0 ELSE (x.close - d.lastPrice) * y)
      /\ e.surge = D!Larger(y, -y) /\ e.lastPrice = x.close /\ e.updates = d.updates + 1
  BY <1>2 DEF D!UpdateDelta
<1>5. e \in DeltaStates
  <2>1. y \in Int /\ d.cumulative + y \in Int /\ D!Larger(d.maxDelta, y) \in Int
        /\ D!Smaller(d.minDelta, y) \in Int /\ D!Larger(y, -y) \in Int /\ d.updates + 1 \in Nat
    BY <1>2, <1>3 DEF D!Larger, D!Smaller
  <2>2. (IF d.updates = 0 THEN 0 ELSE (x.close - d.lastPrice) * y) \in Int
    BY <1>2, <1>3
  <2>3. e = [barDelta |-> y, cumulative |-> d.cumulative + y,
             maxDelta |-> D!Larger(d.maxDelta, y), minDelta |-> D!Smaller(d.minDelta, y),
             divergence |-> IF d.updates = 0 THEN 0 ELSE (x.close - d.lastPrice) * y,
             surge |-> D!Larger(y, -y), lastPrice |-> x.close, updates |-> d.updates + 1]
    BY <1>2 DEF D!UpdateDelta
  <2> HIDE DEF e, y
  <2> QED
    BY <1>2, <2>1, <2>2, <2>3, Zenon DEF DeltaStates
<1> HIDE DEF e
<1>6. Deltas(more) = Deltas(bars) \cup {y}
  BY <1>n, <1>1 DEF Deltas
<1>7. \A z \in Deltas(bars) : z \in Int
  BY <1>n, <1>1, DeltaTyped DEF Deltas
<1>8. {e.maxDelta, e.minDelta} \subseteq Deltas(more)
  BY <1>2, <1>3, <1>4, <1>6 DEF DeltaOver, D!Larger, D!Smaller
<1>9. \A z \in Deltas(more) : e.minDelta <= z /\ z <= e.maxDelta
  <2> HIDE DEF y, more
  <2> QED
    BY <1>2, <1>3, <1>4, <1>6, <1>7 DEF DeltaOver, D!Larger, D!Smaller
<1>10. e.cumulative = B!SumOf(b)
  <2>1. /\ DOMAIN a = 1 .. n /\ DOMAIN b = 1 .. n + 1 /\ b[n + 1] = y
        /\ \A k \in 1 .. n : b[k] = a[k]
    BY <1>n, <1>1
  <2> HIDE DEF a, b
  <2>2. B!SumOf(b) = B!SumOf(a) + y
    BY <2>1, SumOfMore
  <2> QED
    BY <1>4, <2>2 DEF DeltaOver, a
<1>11. e.updates = Len(more) /\ e.lastPrice = Last(more).close
  BY <1>n, <1>1, <1>4 DEF DeltaOver, Last
<1>12. ASSUME Len(more) > 1
       PROVE  e.divergence = (Last(more).close - more[Len(more) - 1].close) * B!Delta(Last(more))
  <2>1. n > 0 /\ Len(more) - 1 = n /\ n \in 1 .. n
    BY <1>1, <1>12
  <2>2. more[n] = bars[n] /\ Last(more) = x /\ Last(bars) = bars[n]
    BY <1>n, <1>1, <2>1 DEF Last
  <2>3. d.updates # 0 /\ d.lastPrice = bars[n].close
    BY <1>n, <2>1, <2>2 DEF DeltaOver
  <2> QED
    BY <1>4, <2>1, <2>2, <2>3
<1>13. e.barDelta = LastDelta(more) /\ e.surge = D!Larger(e.barDelta, -e.barDelta)
  <2>1. more # << >> /\ Last(more) = x
    BY <1>n, <1>1, EmptySeq DEF Last
  <2> QED
    BY <1>4, <2>1 DEF LastDelta
<1>14. ASSUME Len(more) < 2 PROVE e.divergence = 0
  BY <1>n, <1>1, <1>4, <1>14 DEF DeltaOver
<1> QED
  BY <1>5, <1>8, <1>9, <1>10, <1>11, <1>12, <1>13, <1>14 DEF DeltaOver, e

(* A tick completes at most one bar: a time bar never ends with the tick   *)
(* that opened it.                                                         *)
LEMMA OutcomeGrows ==
  ASSUME NEW s, NEW bars, NEW tick, NEW u, NEW after, Outcome(s, bars, tick, u, after)
  PROVE  after = bars \/ \E x \in Bars : after = Append(bars, x)
<1>1. PICK base \in Bars, b \in Bars, mid \in Seq(Bars) :
        Starts(s, bars, tick, base, mid) /\ Ends(s, mid, tick, b, u, after)
  BY DEF Outcome
<1>2. CASE mid = bars
  BY <1>1, <1>2 DEF Ends
<1>3. CASE mid # bars
  <2>1. s.type = "Time" /\ \E x \in Bars : mid = Append(bars, x)
    BY <1>1, <1>3 DEF Starts, B!TimeIsUp
  <2>2. after = mid
    BY <1>1, <2>1 DEF Ends, Due
  <2> QED
    BY <2>1, <2>2
<1> QED
  BY <1>2, <1>3

(* The delta engine over the session, as an invariant.                     *)
SessionAccount ==
  /\ delta \in DeltaStates /\ session.bars \in Nat
  /\ series = << >> => session.bars = 0
  /\ series # << >> => session.bars <= Len(BarsOf(1))
  /\ DeltaOver(delta, SessionBars)

LEMMA FirstSeries ==
  ASSUME SeriesTypes
  PROVE  /\ series # << >> <=> 1 \in DOMAIN series
         /\ SessionBars \in Seq(Bars) \/ session.bars \notin Nat
<1>1. series # << >> <=> 1 \in DOMAIN series
  BY LenProperties, EmptySeq DEF SeriesTypes
<1>2. CASE series = << >>
  BY <1>1, <1>2, EmptySeq DEF SessionBars
<1>3. CASE series # << >>
  BY <1>1, <1>3, BarsTyped, RestTyped DEF SessionBars
<1> QED
  BY <1>1, <1>2, <1>3

(* The steps that leave the bars of the first series alone.                *)
LEMMA SessionStays ==
  ASSUME SeriesTypes, SeriesTypes', SessionAccount, UNCHANGED <<delta, session>>,
         series # << >> => 1 \in DOMAIN series' /\ BarsOf(1)' = BarsOf(1),
         series = << >> /\ series' # << >> => BarsOf(1)' = << >>
  PROVE  SessionAccount'
<1>1. (series # << >> <=> 1 \in DOMAIN series) /\ (series' # << >> <=> 1 \in DOMAIN series')
  BY FirstSeries, LenProperties, EmptySeq DEF SeriesTypes
<1>2. CASE series # << >>
  BY <1>1, <1>2 DEF SessionAccount, SessionBars
<1>3. CASE series = << >> /\ series' = << >>
  BY <1>3 DEF SessionAccount, SessionBars
<1>4. CASE series = << >> /\ series' # << >>
  <2>1. session.bars = 0 /\ BarsOf(1)' = << >> /\ SessionBars = << >>
    BY <1>4 DEF SessionAccount, SessionBars
  <2>2. << >> \in Seq(Bars) /\ Len(<< >>) = 0
    BY EmptySeq
  <2>3. SubSeq(<< >>, 0 + 1, Len(<< >>)) = << >>
    BY <2>2, RestEmpty
  <2>4. SessionBars' = << >>
    BY <1>4, <2>1, <2>3 DEF SessionBars
  <2> QED
    BY <1>4, <2>1, <2>2, <2>4 DEF SessionAccount
<1> QED
  BY <1>2, <1>3, <1>4

LEMMA SessionIngests ==
  ASSUME SeriesTypes, SeriesTypes', SessionAccount, Ingest
  PROVE  SessionAccount'
<1>1. PICK tick \in Feed :
        /\ series' = [i \in DOMAIN series |-> B!Ingest(series[i], tick)]
        /\ delta' = LET done == IF series = << >> THEN << >> ELSE series'[1].completed
                    IN  IF series # << >> /\ Len(done) > Len(series[1].completed)
                          THEN D!UpdateDelta(delta, Last(done).close, Last(done).buy, Last(done).sell)
                          ELSE delta
  BY DEF Ingest
<1>2. TickTyped(tick) /\ UNCHANGED <<session, archive>>
  BY FeedTyped DEF Ingest
<1>3. CASE series = << >>
  <2>1. series' = << >> /\ delta' = delta
    BY <1>1, <1>3, LenProperties, EmptySeq DEF SeriesTypes
  <2> QED
    BY <1>2, <1>3, <2>1, SessionStays
<1>4. CASE series # << >>
  <2>1. 1 \in DOMAIN series /\ 1 \in DOMAIN series'
    BY <1>1, <1>4, FirstSeries
  <2>2. /\ series[1] \in SeriesStates /\ Counting(series[1]) /\ archive[1] \in Seq(Bars)
        /\ series[1].completed \in Seq(Bars) /\ BarsOf(1) \in Seq(Bars)
    BY <2>1, BarsTyped DEF SeriesStates
  <2> DEFINE s == series[1]
             u == series'[1]
  <2>3. u = B!Ingest(s, tick)
    BY <1>1, <2>1
  <2>4. Outcome(s, s.completed, tick, u, u.completed)
    BY <1>2, <2>2, <2>3, IngestGives
  <2>5. CASE u.completed = s.completed
    <3>1. delta' = delta
      BY <1>1, <2>2, <2>5, LenProperties
    <3>2. BarsOf(1)' = BarsOf(1)
      BY <1>2, <2>5 DEF BarsOf
    <3> QED
      BY <1>2, <1>4, <2>1, <3>1, <3>2, SessionStays
  <2>6. ASSUME NEW x \in Bars, u.completed = Append(s.completed, x) PROVE SessionAccount'
    <3>1. /\ Len(u.completed) = Len(s.completed) + 1 /\ Last(u.completed) = x
          /\ Len(s.completed) \in Nat
      BY <2>2, <2>6, AppendProperties, LenProperties DEF Last
    <3>2. delta' = D!UpdateDelta(delta, x.close, x.buy, x.sell)
      BY <1>1, <1>4, <3>1
    <3>3. BarsOf(1)' = Append(BarsOf(1), x)
      <4>1. archive[1] \o Append(s.completed, x) = Append(archive[1] \o s.completed, x)
        BY <2>2, AppendJoins
      <4>2. BarsOf(1)' = archive[1] \o u.completed /\ BarsOf(1) = archive[1] \o s.completed
        BY <1>2 DEF BarsOf
      <4> QED
        BY <2>6, <4>1, <4>2
    <3>4. session.bars \in Nat /\ session.bars <= Len(BarsOf(1)) /\ Len(BarsOf(1)) \in Nat
      BY <1>4, <2>2, LenProperties DEF SessionAccount
    <3>5. Len(BarsOf(1)') = Len(BarsOf(1)) + 1
      BY <2>2, <3>3, AppendProperties
    <3>6. series' # << >>
      BY <2>1
    <3>7. SessionBars' = Append(SessionBars, x)
      <4>1. SubSeq(Append(BarsOf(1), x), session.bars + 1, Len(BarsOf(1)) + 1)
              = Append(SubSeq(BarsOf(1), session.bars + 1, Len(BarsOf(1))), x)
        BY <2>2, <3>4, RestGrows
      <4>2. SessionBars' = SubSeq(BarsOf(1)', session.bars' + 1, Len(BarsOf(1)'))
        BY <3>6 DEF SessionBars
      <4>3. SessionBars = SubSeq(BarsOf(1), session.bars + 1, Len(BarsOf(1)))
        BY <1>4 DEF SessionBars
      <4> QED
        BY <1>2, <3>3, <3>5, <4>1, <4>2, <4>3
    <3>8. delta' \in DeltaStates /\ DeltaOver(delta', SessionBars')
      <4>1. SessionBars \in Seq(Bars) /\ delta \in DeltaStates /\ DeltaOver(delta, SessionBars)
        BY <3>4, FirstSeries DEF SessionAccount
      <4> QED
        BY <3>2, <3>7, <4>1, DeltaFollows
    <3> QED
      BY <1>2, <3>4, <3>5, <3>6, <3>8 DEF SessionAccount
  <2> QED
    BY <2>4, <2>5, <2>6, OutcomeGrows
<1> QED
  BY <1>3, <1>4

LEMMA SessionResets ==
  ASSUME SeriesTypes, SessionAccount, ResetSession
  PROVE  SessionAccount'
<1>1. /\ delta' = D!ResetDelta /\ UNCHANGED <<series, archive>>
      /\ session'.bars = IF series = << >> THEN 0 ELSE Len(BarsOf(1))
  BY DEF ResetSession
<1>2. BarsOf(1)' = BarsOf(1)
  BY <1>1 DEF BarsOf
<1>3. series # << >> => BarsOf(1) \in Seq(Bars) /\ Len(BarsOf(1)) \in Nat
  BY FirstSeries, BarsTyped, LenProperties
<1>4. SessionBars' = << >>
  BY <1>1, <1>2, <1>3, RestEmpty DEF SessionBars
<1>5. delta' \in DeltaStates /\ DeltaOver(delta', SessionBars')
  BY <1>1, <1>4, DeltaStarts
<1> QED
  BY <1>1, <1>2, <1>3, <1>5 DEF SessionAccount

LEMMA SessionAlwaysAccounts == Spec => []SessionAccount
<1>1. Init => SessionAccount
  <2>1. Init => SessionBars = << >>
    BY DEF Init, SessionBars
  <2> QED
    BY <2>1, DeltaStarts DEF Init, SessionAccount
<1>2. SeriesTypes /\ SessionAccount /\ [Next]_vars => SessionAccount'
  <2> SUFFICES ASSUME SeriesTypes, SessionAccount, [Next]_vars PROVE SessionAccount'
    OBVIOUS
  <2>1. SeriesTypes' /\ \A i \in DOMAIN series' : Added(i) \/ Fed(i) \/ Kept(i)
    BY SeriesSteps
  <2>2. CASE AddSeries
    <3>1. \A i \in DOMAIN series' : Added(i) \/ Kept(i)
      BY <2>2, AddSeriesSteps
    <3>2. UNCHANGED <<delta, session>> /\ Len(series') = Len(series) + 1
      BY <2>2, AppendProperties, LenProperties, NewSeriesTyped DEF AddSeries, SeriesTypes
    <3>3. 1 \in DOMAIN series' /\ (series # << >> => Len(series) # 0)
      BY <2>1, <3>2, LenProperties, EmptySeq DEF SeriesTypes
    <3>4. series # << >> => BarsOf(1)' = BarsOf(1)
      BY <3>1, <3>3 DEF Added, Kept
    <3>5. series = << >> => BarsOf(1)' = << >>
      BY <3>1, <3>3, FirstSeries DEF Added, Kept
    <3> QED
      BY <2>1, <3>2, <3>3, <3>4, <3>5, SessionStays
  <2>3. CASE Ingest
    BY <2>1, <2>3, SessionIngests
  <2>4. CASE ReadCompleted
    <3>1. \A i \in DOMAIN series' : Kept(i)
      BY <2>4, ReadCompletedSteps
    <3>2. UNCHANGED <<delta, session>> /\ DOMAIN series' = DOMAIN series
      BY <2>4 DEF ReadCompleted
    <3>3. series # << >> => 1 \in DOMAIN series' /\ BarsOf(1)' = BarsOf(1)
      BY <3>1, <3>2, FirstSeries DEF Kept
    <3>4. series = << >> => series' = << >>
      BY <2>4 DEF ReadCompleted
    <3> QED
      BY <2>1, <3>2, <3>3, <3>4, SessionStays
  <2>5. CASE ResetSession
    BY <2>5, SessionResets
  <2>6. CASE UNCHANGED vars
    <3>1. UNCHANGED <<delta, session, series, archive>>
      BY <2>6 DEF vars
    <3>2. BarsOf(1)' = BarsOf(1) /\ (series # << >> => 1 \in DOMAIN series')
      BY <3>1, FirstSeries DEF BarsOf
    <3> QED
      BY <2>1, <3>1, <3>2, SessionStays
  <2> QED
    BY <2>2, <2>3, <2>4, <2>5, <2>6 DEF Next
<1> QED
  BY <1>1, <1>2, SeriesStayTyped, PTL DEF Spec

(* Whatever the feed and the series, through clear_completed() and         *)
(* resets: the DeltaEngine's state is that of the session's completed bars.*)
THEOREM DeltaAlwaysMatchesBars == Spec => []DeltaMatchesBars
<1>1. SessionAccount => DeltaMatchesBars
  BY DEF SessionAccount, DeltaMatchesBars, DeltaOver, Deltas
<1> QED
  BY <1>1, SessionAlwaysAccounts, PTL

(* What max_delta and min_delta of DeltaState are: the extremes of the     *)
(* deltas of the session's bars and of zero, which reset() puts there.     *)
(* That is not what README.md:200 and :81 say ("the highest delta seen     *)
(* across updates", "the range of delta within a bar"): after bars that    *)
(* all sold, the highest delta is one that no update brought.              *)
DeltaExtremesTakeZero ==
  LET deltas == {0} \cup {B!Delta(SessionBars[j]) : j \in DOMAIN SessionBars}
  IN  /\ {delta.maxDelta, delta.minDelta} \subseteq deltas
      /\ \A d \in deltas : delta.minDelta <= d /\ d <= delta.maxDelta

THEOREM DeltaExtremesAlwaysTakeZero == Spec => []DeltaExtremesTakeZero
<1>1. SessionAccount => DeltaExtremesTakeZero
  BY DEF SessionAccount, DeltaExtremesTakeZero, DeltaOver, Deltas
<1> QED
  BY <1>1, SessionAlwaysAccounts, PTL

---------------------------------------------------------------------------
(* The volume profile and its point of control.                            *)
MostTraded(f, p) ==
  \A q \in DOMAIN f : f[q] < f[p] \/ (f[q] = f[p] /\ p <= q)

ProfileHolds ==
  /\ profile = [p \in DOMAIN profile |-> profile[p]]
  /\ DOMAIN profile \subseteq Int /\ \A p \in DOMAIN profile : profile[p] \in Nat
  /\ profile # P!EmptyProfile => \E p \in DOMAIN profile : MostTraded(profile, p)

VwapStates == [priceVolume : Int, price2Volume : Int, volume : Nat]

LEMMA VolumeAdded ==
  ASSUME NEW f, f = [p \in DOMAIN f |-> f[p]], DOMAIN f \subseteq Int,
         \A p \in DOMAIN f : f[p] \in Nat,
         f # << >> => \E p \in DOMAIN f : MostTraded(f, p),
         NEW price \in Int, NEW volume \in Nat
  PROVE  LET g == P!AddVolume(f, price, volume)
         IN  /\ g = [p \in DOMAIN g |-> g[p]]
             /\ DOMAIN g \subseteq Int /\ \A p \in DOMAIN g : g[p] \in Nat
             /\ \E p \in DOMAIN g : MostTraded(g, p)
<1> DEFINE g == P!AddVolume(f, price, volume)
           old == IF price \in DOMAIN f THEN f[price] ELSE 0
<1>1. /\ g = [p \in DOMAIN g |-> g[p]] /\ DOMAIN g = DOMAIN f \cup {price}
      /\ g[price] = old + volume
      /\ \A p \in DOMAIN f : p # price => g[p] = f[p]
  BY DEF P!AddVolume
<1>2. old \in Nat /\ old + volume \in Nat
  OBVIOUS
<1> HIDE DEF g, old
<1>3. DOMAIN g \subseteq Int /\ \A p \in DOMAIN g : g[p] \in Nat
  BY <1>1, <1>2
<1>4. \E p \in DOMAIN g : MostTraded(g, p)
  <2>1. CASE f = << >>
    <3>1. DOMAIN g = {price}
      BY <1>1, <2>1
    <3>2. ~(g[price] < g[price]) /\ g[price] = g[price] /\ price <= price
      BY <1>3, <3>1
    <3>3. MostTraded(g, price)
      BY <3>1, <3>2 DEF MostTraded
    <3> QED
      BY <3>1, <3>3
  <2>2. CASE f # << >>
    <3>1. PICK p \in DOMAIN f : MostTraded(f, p)
      BY <2>2
    <3>2. CASE p = price
      <4>1. old = f[p]
        BY <3>2 DEF old
      <4> QED
        BY <1>1, <1>2, <3>1, <3>2, <4>1 DEF MostTraded
    <3>3. CASE p # price /\ (g[price] < g[p] \/ (g[price] = g[p] /\ p <= price))
      <4>1. p \in DOMAIN g /\ p \in Int /\ g[p] = f[p]
        BY <1>1, <3>3
      <4>2. ASSUME NEW q \in DOMAIN g PROVE g[q] < g[p] \/ (g[q] = g[p] /\ p <= q)
        <5>1. CASE q = price
          BY <3>3, <5>1
        <5>2. CASE q # price
          BY <1>1, <3>1, <4>1, <5>2 DEF MostTraded
        <5> QED
          BY <5>1, <5>2
      <4> QED
        BY <4>1, <4>2 DEF MostTraded
    <3>4. CASE p # price /\ ~(g[price] < g[p] \/ (g[price] = g[p] /\ p <= price))
      <4>1. /\ p \in Int /\ g[p] = f[p] /\ f[p] \in Nat
            /\ g[price] > f[p] \/ (g[price] = f[p] /\ price < p)
        BY <1>1, <1>2, <3>4
      <4>2. ASSUME NEW q \in DOMAIN g
            PROVE  g[q] < g[price] \/ (g[q] = g[price] /\ price <= q)
        <5>1. CASE q = price
          BY <1>3, <5>1
        <5>2. CASE q # price
          <6>1. q \in Int /\ g[q] = f[q] /\ (f[q] < f[p] \/ (f[q] = f[p] /\ p <= q)) /\ f[q] \in Nat
            BY <1>1, <3>1, <5>2 DEF MostTraded
          <6> QED
            BY <1>1, <1>2, <4>1, <6>1
        <5> QED
          BY <5>1, <5>2
      <4> QED
        BY <1>1, <4>2 DEF MostTraded
    <3> QED
      BY <3>2, <3>3, <3>4
  <2> QED
    BY <2>1, <2>2
<1> QED
  BY <1>1, <1>3, <1>4 DEF g

LEMMA PocTyped == ProfileHolds => Poc \in Int
<1> SUFFICES ASSUME ProfileHolds, profile # P!EmptyProfile PROVE P!PocPrice(profile) \in Int
  BY DEF Poc
<1>1. P!PocPrice(profile) = CHOOSE p \in DOMAIN profile : MostTraded(profile, p)
  BY DEF P!PocPrice, P!Prices, MostTraded
<1>2. P!PocPrice(profile) \in DOMAIN profile
  BY <1>1 DEF ProfileHolds
<1> QED
  BY <1>2 DEF ProfileHolds

LEMMA TradeAdded ==
  ASSUME NEW s \in VwapStates, NEW price \in Int, NEW volume \in Nat
  PROVE  V!AddTrade(s, price, volume) \in VwapStates
<1>1. /\ s.priceVolume + price * volume \in Int
      /\ s.price2Volume + price * price * volume \in Int
      /\ s.volume + volume \in Nat
  BY DEF VwapStates
<1> QED
  BY <1>1, Zenon DEF V!AddTrade, VwapStates

EnginesHold == ProfileHolds /\ vwap \in VwapStates

LEMMA EnginesStart == Init => EnginesHold
BY DEF Init, EnginesHold, ProfileHolds, VwapStates, V!ResetVwap, P!EmptyProfile

LEMMA EnginesStep == EnginesHold /\ [Next]_vars => EnginesHold'
<1> SUFFICES ASSUME EnginesHold, [Next]_vars PROVE EnginesHold'
  OBVIOUS
<1>1. CASE Ingest
  <2>1. PICK tick \in Feed : /\ vwap' = V!AddTrade(vwap, tick.price, tick.size)
                             /\ profile' = P!AddVolume(profile, tick.price, tick.size)
    BY <1>1 DEF Ingest
  <2>2. tick.price \in Int /\ tick.size \in Nat
    BY FeedTyped DEF TickTyped
  <2>3. vwap' \in VwapStates
    BY <2>1, <2>2, TradeAdded DEF EnginesHold
  <2>4. ProfileHolds'
    <3> DEFINE g == P!AddVolume(profile, tick.price, tick.size)
    <3>1. /\ g = [p \in DOMAIN g |-> g[p]]
          /\ DOMAIN g \subseteq Int /\ \A p \in DOMAIN g : g[p] \in Nat
          /\ \E p \in DOMAIN g : MostTraded(g, p)
      BY <2>2, VolumeAdded DEF EnginesHold, ProfileHolds, P!EmptyProfile
    <3>2. profile' = g
      BY <2>1
    <3> HIDE DEF g
    <3> QED
      BY <3>1, <3>2 DEF ProfileHolds, MostTraded
  <2> QED
    BY <2>3, <2>4 DEF EnginesHold
<1>2. CASE ResetSession
  BY <1>2 DEF ResetSession, EnginesHold, ProfileHolds, VwapStates, V!ResetVwap, P!EmptyProfile
<1>3. CASE UNCHANGED <<vwap, profile>>
  BY <1>3 DEF EnginesHold, ProfileHolds
<1> QED
  BY <1>1, <1>2, <1>3 DEF Next, AddSeries, ReadCompleted, vars

---------------------------------------------------------------------------
(* The signs of a score.                                                   *)
Positive(f) == f.num \in Int /\ f.den \in Int /\ f.den > 0

LEMMA ProductsKeepSigns ==
  ASSUME NEW a \in Int, NEW b \in Int, b > 0
  PROVE  /\ a * b \in Int
         /\ a >= 0 => a * b >= 0
         /\ a <= 0 => a * b <= 0
         /\ a > 0 => a * b > 0
OBVIOUS

LEMMA SumsKeepSigns ==
  ASSUME NEW f, NEW g, Positive(f), Positive(g)
  PROVE  /\ Positive(S!Plus(f, g))
         /\ f.num >= 0 /\ g.num >= 0 => S!Plus(f, g).num >= 0
         /\ f.num <= 0 /\ g.num <= 0 => S!Plus(f, g).num <= 0
<1> DEFINE a == f.num * g.den
           b == g.num * f.den
           c == f.den * g.den
<1>1. /\ a \in Int /\ (f.num >= 0 => a >= 0) /\ (f.num <= 0 => a <= 0)
      /\ b \in Int /\ (g.num >= 0 => b >= 0) /\ (g.num <= 0 => b <= 0)
      /\ c \in Int /\ c > 0
  BY ProductsKeepSigns DEF Positive
<1>2. S!Plus(f, g).num = a + b /\ S!Plus(f, g).den = c
  BY DEF S!Plus
<1> HIDE DEF a, b, c
<1> QED
  BY <1>1, <1>2 DEF Positive

LEMMA DeltaSign ==
  ASSUME NEW d \in DeltaStates
  PROVE  LET f == S!NormalizedDelta(d)
         IN  /\ Positive(f)
             /\ d.barDelta >= 0 => f.num >= 0
             /\ d.barDelta <= 0 => f.num <= 0
BY DEF S!NormalizedDelta, S!Whole, S!Abs, DeltaStates, Positive

LEMMA ImbalanceSign ==
  ASSUME NEW imbalance
  PROVE  LET f == S!ImbalanceComponent(imbalance)
         IN  /\ Positive(f)
             /\ ~imbalance.sell => f.num >= 0
             /\ ~imbalance.buy => f.num <= 0
BY DEF S!ImbalanceComponent, S!Whole, Positive

LEMMA VwapSign ==
  ASSUME NEW v \in VwapStates, NEW poc \in Int
  PROVE  LET f == S!VwapComponent(v, poc)
             lean == v.priceVolume - poc * v.volume
         IN  /\ Positive(f)
             /\ lean >= 0 => f.num >= 0
             /\ lean <= 0 => f.num <= 0
<1> DEFINE f == S!VwapComponent(v, poc)
           lean == v.priceVolume - poc * v.volume
           size == S!Abs(poc) + 1
           den == v.volume * size
<1>1. v.volume \in Nat /\ v.priceVolume \in Int /\ size \in Int /\ size > 0
  BY DEF VwapStates, S!Abs
<1>2. lean \in Int
  BY <1>1
<1>3. CASE v.volume <= 0
  <2>1. f.num = 0 /\ f.den = 1
    BY <1>3 DEF S!VwapComponent, S!Whole
  <2> QED
    BY <2>1 DEF Positive
<1>4. CASE v.volume > 0
  <2> HIDE DEF size
  <2>1. den \in Int /\ den > 0
    BY <1>1, <1>4, ProductsKeepSigns
  <2>2. f.num = lean /\ f.den = den
    BY <1>1, <1>4 DEF S!VwapComponent, size
  <2> HIDE DEF lean, den, f
  <2> QED
    BY <1>2, <2>1, <2>2 DEF Positive, f, lean
<1> QED
  BY <1>1, <1>3, <1>4

(* What a signal type tells of the scores: a sum of components none of     *)
(* which is below zero is not below -1/2, and the other way round.         *)
LEMMA TypeTells ==
  ASSUME NEW d \in DeltaStates, NEW imbalance, NEW v \in VwapStates, NEW poc \in Int,
         NEW side \in L!Directions
  PROVE  LET type == S!Evaluate(d, imbalance, v, poc, side).type
             lean == v.priceVolume - poc * v.volume
         IN  /\ d.barDelta >= 0 /\ ~imbalance.sell /\ lean >= 0 => type # "PulseShort"
             /\ d.barDelta <= 0 /\ ~imbalance.buy /\ lean <= 0 => type # "PulseLong"
             /\ type = "TurnLong" => 2 * (d.divergence + d.surge) > S!Abs(d.surge) + 1
             /\ type = "TurnShort" => 2 * (d.divergence + d.surge) < -(S!Abs(d.surge) + 1)
             /\ type = "CotLong" => side = "buy"
             /\ type = "CotShort" => side = "sell"
<1> DEFINE lean == v.priceVolume - poc * v.volume
           f == S!NormalizedDelta(d)
           g == S!ImbalanceComponent(imbalance)
           h == S!VwapComponent(v, poc)
           sum == S!Plus(S!Plus(f, g), h)
           pulse == [sum EXCEPT !.den = 3 * sum.den]
           scores == S!Score(d, imbalance, v, poc, side)
<1>1. /\ Positive(f) /\ Positive(g) /\ Positive(h)
      /\ d.barDelta >= 0 /\ ~imbalance.sell /\ lean >= 0 => f.num >= 0 /\ g.num >= 0 /\ h.num >= 0
      /\ d.barDelta <= 0 /\ ~imbalance.buy /\ lean <= 0 => f.num <= 0 /\ g.num <= 0 /\ h.num <= 0
  BY DeltaSign, ImbalanceSign, VwapSign
<1> DEFINE part == S!Plus(f, g)
<1>2. /\ scores.pulse = pulse
      /\ scores.turns = [num |-> d.divergence + d.surge, den |-> S!Abs(d.surge) + 1]
      /\ scores.cot = S!Whole(CASE side = "buy" -> 1 [] side = "sell" -> -1 [] OTHER -> 0)
  BY DEF S!Score
<1>3. pulse.num = sum.num /\ pulse.den = 3 * sum.den
  BY DEF S!Plus
<1> HIDE DEF f, g, h
<1>4. /\ Positive(part)
      /\ f.num >= 0 /\ g.num >= 0 => part.num >= 0
      /\ f.num <= 0 /\ g.num <= 0 => part.num <= 0
  BY <1>1, SumsKeepSigns
<1> HIDE DEF part
<1>5. /\ Positive(sum)
      /\ f.num >= 0 /\ g.num >= 0 /\ h.num >= 0 => sum.num >= 0
      /\ f.num <= 0 /\ g.num <= 0 /\ h.num <= 0 => sum.num <= 0
  <2>1. sum = S!Plus(part, h)
    BY DEF part
  <2> HIDE DEF sum
  <2> QED
    BY <1>1, <1>4, <2>1, SumsKeepSigns
<1> HIDE DEF sum, pulse
<1>6. /\ sum.num >= 0 => ~S!BelowMinusHalf(scores.pulse)
      /\ sum.num <= 0 => ~S!AboveHalf(scores.pulse)
  BY <1>2, <1>3, <1>5 DEF Positive, S!BelowMinusHalf, S!AboveHalf
<1>7. /\ S!BelowMinusHalf(scores.cot) => side = "sell"
      /\ S!AboveHalf(scores.cot) => side = "buy"
  BY <1>2 DEF S!Whole, S!BelowMinusHalf, S!AboveHalf, L!Directions
<1>t. /\ S!BelowMinusHalf(scores.turns) => 2 * (d.divergence + d.surge) < -(S!Abs(d.surge) + 1)
      /\ S!AboveHalf(scores.turns) => 2 * (d.divergence + d.surge) > S!Abs(d.surge) + 1
  BY <1>2 DEF S!BelowMinusHalf, S!AboveHalf
<1> HIDE DEF scores
<1>8. S!Evaluate(d, imbalance, v, poc, side).type = S!SelectSignalType(scores)
  BY DEF S!Evaluate, scores
<1> DEFINE type == S!SelectSignalType(scores)
<1>9. /\ type = "PulseLong" => S!AboveHalf(scores.pulse)
      /\ type = "PulseShort" => S!BelowMinusHalf(scores.pulse)
      /\ type = "TurnLong" => S!AboveHalf(scores.turns)
      /\ type = "TurnShort" => S!BelowMinusHalf(scores.turns)
      /\ type = "CotLong" => S!AboveHalf(scores.cot)
      /\ type = "CotShort" => S!BelowMinusHalf(scores.cot)
  BY DEF S!SelectSignalType
<1> HIDE DEF lean, type
<1>10. /\ d.barDelta >= 0 /\ ~imbalance.sell /\ lean >= 0 => sum.num >= 0
       /\ d.barDelta <= 0 /\ ~imbalance.buy /\ lean <= 0 => sum.num <= 0
  BY <1>1, <1>5
<1>11. /\ d.barDelta >= 0 /\ ~imbalance.sell /\ lean >= 0 => type # "PulseShort"
       /\ d.barDelta <= 0 /\ ~imbalance.buy /\ lean <= 0 => type # "PulseLong"
  BY <1>6, <1>9, <1>10
<1>12. /\ type = "TurnLong" => 2 * (d.divergence + d.surge) > S!Abs(d.surge) + 1
       /\ type = "TurnShort" => 2 * (d.divergence + d.surge) < -(S!Abs(d.surge) + 1)
       /\ type = "CotLong" => side = "buy" /\ TRUE
       /\ type = "CotShort" => side = "sell" /\ TRUE
  BY <1>7, <1>t, <1>9
<1> QED
  BY <1>8, <1>11, <1>12 DEF lean, type

(* classify() names a side for every trade: the ask's, if the trade is     *)
(* above the bid or at the ask, and else the bid's.                        *)
LEMMA SideIs ==
  ASSUME NEW quote, NEW price, quote.bid \in Int, quote.ask \in Int, price \in Int
  PROVE  L!Classify(quote, price, L!NoOverride)
           = IF price > quote.bid \/ price >= quote.ask THEN "buy" ELSE "sell"
<1> DEFINE proper == quote.ask > quote.bid
<1>1. CASE price > quote.bid
  <2>1. CASE proper
    BY <1>1, <2>1 DEF L!Classify
  <2>2. CASE ~proper
    BY <1>1, <2>2 DEF L!Classify
  <2> QED
    BY <2>1, <2>2
<1>2. CASE ~(price > quote.bid) /\ price >= quote.ask
  <2>1. ~proper /\ ~(price < quote.ask)
    BY <1>2
  <2> QED
    BY <1>2, <2>1 DEF L!Classify, L!NoOverride
<1>3. CASE ~(price > quote.bid) /\ ~(price >= quote.ask)
  <2>1. CASE proper
    BY <1>3, <2>1 DEF L!Classify
  <2>2. CASE ~proper
    BY <1>3, <2>2 DEF L!Classify
  <2> QED
    BY <2>1, <2>2
<1> QED
  BY <1>1, <1>2, <1>3

LEMMA SideTyped ==
  ASSUME NEW quote, NEW price
  PROVE  L!Classify(quote, price, L!NoOverride) \in L!Directions
BY DEF L!Classify, L!Directions, L!NoOverride

(* What the turn score needs of a move and a delta.                        *)
LEMMA TurnNeeds ==
  ASSUME NEW move \in Int, NEW flow \in Int, NEW surge, NEW divergence,
         surge = D!Larger(flow, -flow), divergence = move * flow
  PROVE  /\ 2 * (divergence + surge) > S!Abs(surge) + 1 => move * flow > 0 \/ S!Abs(flow) > 1
         /\ 2 * (divergence + surge) < -(S!Abs(surge) + 1) => move * flow < 0 /\ S!Abs(move) > 1
<1> DEFINE product == move * flow
<1>1. product \in Int
  OBVIOUS
<1>2. /\ move = 0 => product = 0
      /\ move = 1 => product = flow
      /\ move = -1 => product = -flow
  OBVIOUS
<1>3. surge \in Int /\ surge >= 0 /\ S!Abs(surge) = surge /\ S!Abs(flow) = surge
      /\ (flow = surge \/ flow = -surge)
  BY DEF D!Larger, S!Abs
<1>4. S!Abs(move) > 1 \/ move \in {-1, 0, 1}
  BY DEF S!Abs
<1> HIDE DEF product
<1>5. move \in {-1, 0, 1} => product >= -surge
  BY <1>1, <1>2, <1>3
<1>6. divergence = product
  BY DEF product
<1>7. 2 * (product + surge) > surge + 1 => product > 0 \/ surge > 1
  BY <1>1, <1>3
<1>8. 2 * (product + surge) < -(surge + 1) => product < 0 /\ product < -surge
  BY <1>1, <1>3
<1>9. product < -surge => S!Abs(move) > 1
  BY <1>1, <1>3, <1>4, <1>5
<1> QED
  BY <1>3, <1>6, <1>7, <1>8, <1>9 DEF product

---------------------------------------------------------------------------
(* What a bar says of a slice of ticks, so that one more tick can be added *)
(* to both: its sums, which also hold of no ticks, and its extremes.       *)
Top(x, set) == x \in set /\ \A y \in set : x >= y
Bottom(x, set) == x \in set /\ \A y \in set : x <= y

SizesOf(slice, side, upTo) ==
  B!SumOf([i \in 1 .. upTo |-> IF B!BarSide(slice[i]) = side THEN slice[i].size ELSE 0])
PricesOf(slice) == {slice[i].price : i \in DOMAIN slice}
DeltasOf(slice) ==
  {SizesOf(slice, "buy", i) - SizesOf(slice, "sell", i) : i \in DOMAIN slice}

RunningDeltas(slice) ==
  [i \in DOMAIN slice |-> SizesOf(slice, "buy", i) - SizesOf(slice, "sell", i)]

Sums(bar, slice) ==
  /\ bar.count = Len(slice)
  /\ bar.volume = B!SumOf([i \in DOMAIN slice |-> slice[i].size])
  /\ bar.notional = B!SumOf([i \in DOMAIN slice |-> slice[i].price * slice[i].size])
  /\ bar.buy = SizesOf(slice, "buy", Len(slice))
  /\ bar.sell = SizesOf(slice, "sell", Len(slice))
  /\ bar.cvd = B!SumOf(RunningDeltas(slice))

Says(bar, slice) ==
  /\ Len(slice) > 0
  /\ bar.start = slice[1].time /\ bar.open = slice[1].price /\ bar.close = Last(slice).price
  /\ Sums(bar, slice)
  /\ Top(bar.high, PricesOf(slice)) /\ Bottom(bar.low, PricesOf(slice))
  /\ Top(bar.maxDelta, DeltasOf(slice)) /\ Bottom(bar.minDelta, DeltasOf(slice))

LEMMA TopIsChosen ==
  ASSUME NEW x, NEW set \in SUBSET Int, Top(x, set)
  PROVE  x = CHOOSE p \in set : \A q \in set : p >= q
<1> DEFINE c == CHOOSE p \in set : \A q \in set : p >= q
<1>1. c \in set /\ \A q \in set : c >= q
  BY DEF Top
<1> HIDE DEF c
<1>2. c >= x /\ x >= c /\ c \in Int /\ x \in Int
  BY <1>1 DEF Top
<1>3. x = c
  BY <1>2
<1> QED
  BY <1>3 DEF c

LEMMA BottomIsChosen ==
  ASSUME NEW x, NEW set \in SUBSET Int, Bottom(x, set)
  PROVE  x = CHOOSE p \in set : \A q \in set : p <= q
<1> DEFINE c == CHOOSE p \in set : \A q \in set : p <= q
<1>1. c \in set /\ \A q \in set : c <= q
  BY DEF Bottom
<1> HIDE DEF c
<1>2. c <= x /\ x <= c /\ c \in Int /\ x \in Int
  BY <1>1 DEF Bottom
<1>3. x = c
  BY <1>2
<1> QED
  BY <1>3 DEF c

LEMMA TickOfSlice ==
  ASSUME NEW slice \in Seq(Feed), NEW i \in DOMAIN slice
  PROVE  slice[i] \in Feed /\ TickTyped(slice[i])
BY ElementOfSeq, LenProperties, FeedTyped

LEMMA SizesTyped ==
  ASSUME NEW slice \in Seq(Feed), NEW side, NEW n \in 0 .. Len(slice)
  PROVE  SizesOf(slice, side, n) \in Int
<1> DEFINE a == [i \in 1 .. n |-> IF B!BarSide(slice[i]) = side THEN slice[i].size ELSE 0]
<1>1. n \in Nat /\ DOMAIN a = 1 .. n /\ 1 .. n \subseteq DOMAIN slice
  BY LenProperties
<1>2. \A k \in 1 .. n : a[k] \in Int
  BY <1>1, TickOfSlice DEF TickTyped
<1> HIDE DEF a
<1>3. B!SumOf(a) \in Int
  BY <1>1, <1>2, SumTyped
<1> QED
  BY <1>3 DEF a, SizesOf

LEMMA SetsTyped ==
  ASSUME NEW slice \in Seq(Feed)
  PROVE  PricesOf(slice) \subseteq Int /\ DeltasOf(slice) \subseteq Int
<1>1. PricesOf(slice) \subseteq Int
  BY TickOfSlice DEF PricesOf, TickTyped
<1>2. ASSUME NEW i \in DOMAIN slice
      PROVE  SizesOf(slice, "buy", i) - SizesOf(slice, "sell", i) \in Int
  <2>1. i \in 0 .. Len(slice)
    BY LenProperties
  <2>2. SizesOf(slice, "buy", i) \in Int /\ SizesOf(slice, "sell", i) \in Int
    BY <2>1, SizesTyped
  <2> QED
    BY <2>2
<1> QED
  BY <1>1, <1>2 DEF DeltasOf

(* One more tick.                                                          *)
LEMMA SizesGrow ==
  ASSUME NEW slice \in Seq(Feed), NEW tick \in Feed, NEW side
  PROVE  /\ \A i \in 0 .. Len(slice) :
              SizesOf(Append(slice, tick), side, i) = SizesOf(slice, side, i)
         /\ SizesOf(Append(slice, tick), side, Len(slice) + 1)
              = SizesOf(slice, side, Len(slice)) + (IF B!BarSide(tick) = side THEN tick.size ELSE 0)
<1>n. PICK n \in Nat : n = Len(slice)
  BY LenProperties
<1> DEFINE more == Append(slice, tick)
           one(t) == IF B!BarSide(t) = side THEN t.size ELSE 0
           a(s, i) == [k \in 1 .. i |-> IF B!BarSide(s[k]) = side THEN s[k].size ELSE 0]
<1>1. more[n + 1] = tick /\ \A k \in 1 .. n : more[k] = slice[k]
  BY <1>n, AppendProperties
<1> HIDE DEF more
<1>2. ASSUME NEW i \in 0 .. n PROVE a(more, i) = a(slice, i)
  <2>1. \A k \in 1 .. i : more[k] = slice[k]
    BY <1>1
  <2> QED
    BY <2>1
<1>3. B!SumOf(a(more, n + 1)) = B!SumOf(a(slice, n)) + one(tick)
  <2> DEFINE p == a(slice, n)
             q == a(more, n + 1)
  <2>1. /\ DOMAIN p = 1 .. n /\ DOMAIN q = 1 .. n + 1
        /\ \A k \in 1 .. n : q[k] = p[k]
        /\ q[n + 1] = one(tick)
    BY <1>1
  <2> HIDE DEF p, q
  <2>2. B!SumOf(q) = B!SumOf(p) + q[n + 1]
    BY <2>1, SumOfMore
  <2> QED
    BY <2>1, <2>2 DEF p, q
<1>4. \A i \in 0 .. n : SizesOf(more, side, i) = SizesOf(slice, side, i)
  BY <1>2 DEF SizesOf
<1>5. SizesOf(more, side, n + 1) = SizesOf(slice, side, n) + one(tick)
  BY <1>3 DEF SizesOf
<1> QED
  BY <1>n, <1>4, <1>5 DEF more

LEMMA SumsStart ==
  ASSUME NEW b, NEW tick, Begins(b, tick)
  PROVE  Sums(b, << >>)
<1>1. \A a : DOMAIN a = 1 .. 0 => B!SumOf(a) = 0
  BY SumOfNone
<1>2. Len(<< >>) = 0 /\ DOMAIN << >> = 1 .. 0
  OBVIOUS
<1>3. /\ DOMAIN [i \in DOMAIN << >> |-> << >>[i].size] = 1 .. 0
      /\ DOMAIN [i \in DOMAIN << >> |-> << >>[i].price * << >>[i].size] = 1 .. 0
  BY <1>2
<1>4. \A side : SizesOf(<< >>, side, 0) = 0
  BY <1>1 DEF SizesOf
<1>5. DOMAIN RunningDeltas(<< >>) = 1 .. 0
  BY <1>2 DEF RunningDeltas
<1> QED
  BY <1>1, <1>2, <1>3, <1>4, <1>5 DEF Sums, Begins

LEMMA SumsGrow ==
  ASSUME NEW slice \in Seq(Feed), NEW tick \in Feed, NEW c, NEW b,
         Sums(c, slice), Updated(c, tick, b)
  PROVE  Sums(b, Append(slice, tick))
<1>n. PICK n \in Nat : n = Len(slice) /\ DOMAIN slice = 1 .. n
  BY LenProperties
<1> DEFINE more == Append(slice, tick)
           p == [i \in DOMAIN slice |-> slice[i].size]
           q == [i \in DOMAIN more |-> more[i].size]
           v == [i \in DOMAIN slice |-> slice[i].price * slice[i].size]
           w == [i \in DOMAIN more |-> more[i].price * more[i].size]
<1>1. /\ Len(more) = n + 1 /\ DOMAIN more = 1 .. n + 1 /\ more[n + 1] = tick
      /\ \A k \in 1 .. n : more[k] = slice[k]
  BY <1>n, AppendProperties, LenProperties
<1> HIDE DEF more
<1>2. B!SumOf(q) = B!SumOf(p) + tick.size
  <2>1. /\ DOMAIN p = 1 .. n /\ DOMAIN q = 1 .. n + 1 /\ q[n + 1] = tick.size
        /\ \A k \in 1 .. n : q[k] = p[k]
    BY <1>n, <1>1
  <2> HIDE DEF p, q
  <2> QED
    BY <2>1, SumOfMore
<1>3. B!SumOf(w) = B!SumOf(v) + tick.price * tick.size
  <2>1. /\ DOMAIN v = 1 .. n /\ DOMAIN w = 1 .. n + 1 /\ w[n + 1] = tick.price * tick.size
        /\ \A k \in 1 .. n : w[k] = v[k]
    BY <1>n, <1>1
  <2> HIDE DEF v, w
  <2> QED
    BY <2>1, SumOfMore
<1>4. /\ SizesOf(more, "buy", n + 1) = SizesOf(slice, "buy", n) + BuyOf(tick)
      /\ SizesOf(more, "sell", n + 1) = SizesOf(slice, "sell", n) + SellOf(tick)
  BY <1>n, SizesGrow DEF BuyOf, SellOf, more
<1>d. /\ \A k \in 1 .. n : RunningDeltas(more)[k] = RunningDeltas(slice)[k]
      /\ RunningDeltas(more)[n + 1] = SizesOf(more, "buy", n + 1) - SizesOf(more, "sell", n + 1)
      /\ DOMAIN RunningDeltas(slice) = 1 .. n /\ DOMAIN RunningDeltas(more) = 1 .. n + 1
  <2>1. \A side : \A k \in 0 .. n : SizesOf(more, side, k) = SizesOf(slice, side, k)
    BY <1>n, SizesGrow DEF more
  <2> QED
    BY <1>n, <1>1, <2>1 DEF RunningDeltas
<1>e. B!SumOf(RunningDeltas(more))
        = B!SumOf(RunningDeltas(slice)) + (SizesOf(more, "buy", n + 1) - SizesOf(more, "sell", n + 1))
  BY <1>d, SumOfMore
<1>5. /\ b.count = c.count + 1 /\ b.volume = c.volume + tick.size
      /\ b.notional = c.notional + tick.price * tick.size
      /\ b.buy = c.buy + BuyOf(tick) /\ b.sell = c.sell + SellOf(tick)
      /\ b.cvd = c.cvd + (b.buy - b.sell)
  BY DEF Updated
<1>6. /\ c.count = n /\ c.volume = B!SumOf(p) /\ c.notional = B!SumOf(v)
      /\ c.buy = SizesOf(slice, "buy", n) /\ c.sell = SizesOf(slice, "sell", n)
      /\ c.cvd = B!SumOf(RunningDeltas(slice))
  BY <1>n DEF Sums
<1> HIDE DEF p, q, v, w
<1>7. /\ b.count = Len(more) /\ b.volume = B!SumOf(q) /\ b.notional = B!SumOf(w)
      /\ b.buy = SizesOf(more, "buy", Len(more)) /\ b.sell = SizesOf(more, "sell", Len(more))
      /\ b.cvd = B!SumOf(RunningDeltas(more))
  BY <1>1, <1>2, <1>3, <1>4, <1>5, <1>6, <1>e
<1> QED
  BY <1>7 DEF Sums, more, q, w

(* The sets the extremes are taken of, and the first and the next tick of  *)
(* a bar.                                                                  *)
LEMMA SetsGrow ==
  ASSUME NEW slice \in Seq(Feed), NEW tick \in Feed, NEW b, Sums(b, Append(slice, tick))
  PROVE  /\ PricesOf(Append(slice, tick)) = PricesOf(slice) \cup {tick.price}
         /\ DeltasOf(Append(slice, tick)) = DeltasOf(slice) \cup {b.buy - b.sell}
<1>n. PICK n \in Nat : n = Len(slice) /\ DOMAIN slice = 1 .. n
  BY LenProperties
<1> DEFINE more == Append(slice, tick)
<1>1. /\ Len(more) = n + 1 /\ DOMAIN more = 1 .. n + 1 /\ more[n + 1] = tick
      /\ \A k \in 1 .. n : more[k] = slice[k]
  BY <1>n, AppendProperties, LenProperties
<1>2. /\ \A i \in 1 .. n : \A side : SizesOf(more, side, i) = SizesOf(slice, side, i)
      /\ b.buy = SizesOf(more, "buy", n + 1) /\ b.sell = SizesOf(more, "sell", n + 1)
  <2>1. \A i \in 1 .. n : i \in 0 .. Len(slice)
    BY <1>n
  <2>2. \A side : \A i \in 0 .. Len(slice) : SizesOf(more, side, i) = SizesOf(slice, side, i)
    BY SizesGrow
  <2> HIDE DEF more
  <2>3. Sums(b, more)
    BY DEF more
  <2> QED
    BY <1>1, <2>1, <2>2, <2>3 DEF Sums
<1>3. 1 .. n + 1 = (1 .. n) \cup {n + 1}
  OBVIOUS
<1> HIDE DEF more
<1>4. PricesOf(more) = PricesOf(slice) \cup {tick.price}
  BY <1>n, <1>1, <1>3 DEF PricesOf
<1>5. DeltasOf(more) = DeltasOf(slice) \cup {b.buy - b.sell}
  BY <1>n, <1>1, <1>2, <1>3 DEF DeltasOf
<1> QED
  BY <1>4, <1>5 DEF more

LEMMA ExtremesGrow ==
  ASSUME NEW set \in SUBSET Int, NEW x \in Int, NEW y \in Int
  PROVE  /\ Top(x, set) => Top(B!Larger(x, y), set \cup {y})
         /\ Bottom(x, set) => Bottom(B!Smaller(x, y), set \cup {y})
         /\ Top(y, {y}) /\ Bottom(y, {y})
BY DEF Top, Bottom, B!Larger, B!Smaller

LEMMA SaysFirst ==
  ASSUME NEW tick \in Feed, NEW base \in Bars, NEW b \in Bars,
         Begins(base, tick), Updated(base, tick, b)
  PROVE  Says(b, Append(<< >>, tick))
<1> DEFINE one == Append(<< >>, tick)
<1>1. << >> \in Seq(Feed) /\ Len(<< >>) = 0
  BY EmptySeq
<1>2. Len(one) = 1 /\ one[1] = tick
  BY <1>1, AppendProperties
<1>3. Sums(b, one)
  BY <1>1, SumsStart, SumsGrow
<1>4. PricesOf(one) = {tick.price} /\ DeltasOf(one) = {b.buy - b.sell}
  <2>1. PricesOf(<< >>) = {} /\ DeltasOf(<< >>) = {}
    BY DEF PricesOf, DeltasOf
  <2>2. /\ PricesOf(one) = PricesOf(<< >>) \cup {tick.price}
        /\ DeltasOf(one) = DeltasOf(<< >>) \cup {b.buy - b.sell}
    BY <1>1, <1>3, SetsGrow
  <2> HIDE DEF one
  <2> QED
    BY <2>1, <2>2
<1> HIDE DEF one
<1>5. tick.price \in Int /\ b.buy - b.sell \in Int
  BY FeedTyped DEF TickTyped, Bars
<1>6. /\ b.high = tick.price /\ b.low = tick.price
      /\ b.maxDelta = b.buy - b.sell /\ b.minDelta = b.buy - b.sell
      /\ b.start = tick.time /\ b.open = tick.price /\ b.close = tick.price
  BY <1>5 DEF Begins, Updated, B!Larger, B!Smaller
<1>7. /\ Top(b.high, {tick.price}) /\ Bottom(b.low, {tick.price})
      /\ Top(b.maxDelta, {b.buy - b.sell}) /\ Bottom(b.minDelta, {b.buy - b.sell})
  BY <1>5, <1>6, ExtremesGrow
<1>8. Says(b, one)
  BY <1>2, <1>3, <1>4, <1>6, <1>7 DEF Says, Last
<1> QED
  BY <1>8 DEF one

LEMMA SaysMore ==
  ASSUME NEW slice \in Seq(Feed), NEW tick \in Feed, NEW c \in Bars, NEW b \in Bars,
         Says(c, slice), Updated(c, tick, b)
  PROVE  Says(b, Append(slice, tick))
<1> DEFINE more == Append(slice, tick)
<1>1. Len(more) = Len(slice) + 1 /\ Len(slice) \in Nat /\ Len(slice) > 0
  BY AppendProperties, LenProperties DEF Says
<1>2. more[1] = slice[1] /\ Last(more) = tick
  BY <1>1, AppendProperties DEF Last
<1>3. Sums(b, more)
  BY SumsGrow DEF Says
<1>4. /\ PricesOf(more) = PricesOf(slice) \cup {tick.price}
      /\ DeltasOf(more) = DeltasOf(slice) \cup {b.buy - b.sell}
  BY <1>3, SetsGrow
<1>5. /\ tick.price \in Int /\ b.buy - b.sell \in Int
      /\ c.high \in Int /\ c.low \in Int /\ c.maxDelta \in Int /\ c.minDelta \in Int
  <2>1. tick.price \in Int
    BY FeedTyped DEF TickTyped
  <2>2. b.buy \in Nat /\ b.sell \in Nat
    BY DEF Bars
  <2>3. c.high \in Int /\ c.low \in Int /\ c.maxDelta \in Int /\ c.minDelta \in Int
    BY DEF Bars
  <2>4. b.buy - b.sell \in Int
    BY <2>2
  <2> QED
    BY <2>1, <2>3, <2>4
<1>6. c.count # 0
  BY <1>1 DEF Says, Sums
<1>7. /\ b.high = B!Larger(c.high, tick.price) /\ b.low = B!Smaller(c.low, tick.price)
      /\ b.maxDelta = B!Larger(c.maxDelta, b.buy - b.sell)
      /\ b.minDelta = B!Smaller(c.minDelta, b.buy - b.sell)
      /\ b.start = c.start /\ b.open = c.open /\ b.close = tick.price
  BY <1>6 DEF Updated
<1> HIDE DEF more
<1>8. /\ Top(c.high, PricesOf(slice)) /\ Bottom(c.low, PricesOf(slice))
      /\ Top(c.maxDelta, DeltasOf(slice)) /\ Bottom(c.minDelta, DeltasOf(slice))
      /\ PricesOf(slice) \in SUBSET Int /\ DeltasOf(slice) \in SUBSET Int
  BY SetsTyped DEF Says
<1>9. Top(b.high, PricesOf(more)) /\ Bottom(b.low, PricesOf(more))
  <2>1. /\ Top(B!Larger(c.high, tick.price), PricesOf(slice) \cup {tick.price})
        /\ Bottom(B!Smaller(c.low, tick.price), PricesOf(slice) \cup {tick.price})
    BY <1>5, <1>8, ExtremesGrow
  <2> QED
    BY <1>4, <1>7, <2>1
<1>10. Top(b.maxDelta, DeltasOf(more)) /\ Bottom(b.minDelta, DeltasOf(more))
  <2>1. /\ Top(B!Larger(c.maxDelta, b.buy - b.sell), DeltasOf(slice) \cup {b.buy - b.sell})
        /\ Bottom(B!Smaller(c.minDelta, b.buy - b.sell), DeltasOf(slice) \cup {b.buy - b.sell})
    BY <1>5, <1>8, ExtremesGrow
  <2> QED
    BY <1>4, <1>7, <2>1
<1>11. Says(b, more)
  BY <1>1, <1>2, <1>3, <1>7, <1>9, <1>10 DEF Says
<1> QED
  BY <1>11 DEF more

LEMMA SaysClosed ==
  ASSUME NEW b, NEW t, NEW x, NEW slice, Closes(b, t, x), Says(b, slice)
  PROVE  Says(x, slice)
BY DEF Closes, Says, Sums

LEMMA SaysAgrees ==
  ASSUME NEW bar, NEW slice \in Seq(Feed), Says(bar, slice)
  PROVE  B!Agrees(bar, slice)
<1> DEFINE ref == B!Reference(slice)
           start == slice[1].time
           open == slice[1].price
           close == Last(slice).price
           high == CHOOSE p \in PricesOf(slice) : \A q \in PricesOf(slice) : p >= q
           low == CHOOSE p \in PricesOf(slice) : \A q \in PricesOf(slice) : p <= q
           count == Len(slice)
           volume == B!SumOf([i \in DOMAIN slice |-> slice[i].size])
           notional == B!SumOf([i \in DOMAIN slice |-> slice[i].price * slice[i].size])
           buy == SizesOf(slice, "buy", Len(slice))
           sell == SizesOf(slice, "sell", Len(slice))
           maxDelta == CHOOSE d \in DeltasOf(slice) : \A e \in DeltasOf(slice) : d >= e
           minDelta == CHOOSE d \in DeltasOf(slice) : \A e \in DeltasOf(slice) : d <= e
<1>1. ref = [start |-> start, open |-> open, close |-> close, high |-> high, low |-> low,
             count |-> count, volume |-> volume, notional |-> notional,
             buy |-> buy, sell |-> sell, maxDelta |-> maxDelta, minDelta |-> minDelta]
  BY Zenon DEF B!Reference, PricesOf, DeltasOf, SizesOf, Last, B!Last
<1>2. /\ bar.start = start /\ bar.open = open /\ bar.close = close
      /\ bar.count = count /\ bar.volume = volume /\ bar.notional = notional
      /\ bar.buy = buy /\ bar.sell = sell
  BY DEF Says, Sums
<1>3. bar.high = high /\ bar.low = low /\ bar.maxDelta = maxDelta /\ bar.minDelta = minDelta
  <2>1. PricesOf(slice) \in SUBSET Int /\ DeltasOf(slice) \in SUBSET Int
    BY SetsTyped
  <2>2. /\ Top(bar.high, PricesOf(slice)) /\ Bottom(bar.low, PricesOf(slice))
        /\ Top(bar.maxDelta, DeltasOf(slice)) /\ Bottom(bar.minDelta, DeltasOf(slice))
    BY DEF Says
  <2>3. bar.high = high
    BY <2>1, <2>2, TopIsChosen
  <2>4. bar.low = low
    BY <2>1, <2>2, BottomIsChosen
  <2>5. bar.maxDelta = maxDelta
    BY <2>1, <2>2, TopIsChosen
  <2>6. bar.minDelta = minDelta
    BY <2>1, <2>2, BottomIsChosen
  <2> QED
    BY <2>3, <2>4, <2>5, <2>6
<1> HIDE DEF start, open, close, high, low, count, volume, notional, buy, sell, maxDelta, minDelta
<1>4. \A f \in DOMAIN ref : bar[f] = ref[f]
  BY <1>1, <1>2, <1>3
<1> QED
  BY <1>4 DEF B!Agrees

---------------------------------------------------------------------------
(* The slices.  A slice may reach the threshold with its last tick only,   *)
(* that of a time bar with none of its own.  r gives the place in the      *)
(* ticks where each bar ends.                                              *)
Kind(s) == <<s.type, s.threshold>>
SizesUpTo(slice, n) == [k \in 1 .. n |-> slice[k].size]

Quiet(kind, slice) ==
  /\ kind[1] = "Time" =>
       \A k \in DOMAIN slice \ {1} : slice[k].time < slice[1].time + kind[2]
  /\ kind[1] = "Range" =>
       \A k, m \in 1 .. Len(slice) - 1 : slice[k].price - slice[m].price < kind[2]
  /\ kind[1] = "Volume" /\ Len(slice) > 1 =>
       B!SumOf(SizesUpTo(slice, Len(slice) - 1)) < kind[2]

Fits(kind, bar, slice) ==
  /\ Says(bar, slice) /\ Quiet(kind, slice)
  /\ kind[1] # "Time" => bar.end = Last(slice).time

Cuts(kind, r, bars, from, seq) ==
  /\ r[0] = from /\ r[0] \in Nat
  /\ \A j \in 1 .. Len(bars) :
       /\ r[j] \in Nat /\ r[j] <= Len(seq)
       /\ r[j] = r[j - 1] + bars[j].count
       /\ Fits(kind, bars[j], SubSeq(seq, r[j - 1] + 1, r[j]))

Sliced(kind, bars, from, seq, m) == \E r : Cuts(kind, r, bars, from, seq) /\ r[Len(bars)] = m

LEMMA SubSeqStays ==
  ASSUME NEW T, NEW q \in Seq(T), NEW x \in T, NEW a \in Nat, NEW b \in Nat, b <= Len(q)
  PROVE  SubSeq(Append(q, x), a + 1, b) = SubSeq(q, a + 1, b)
<1> DEFINE p == Append(q, x)
<1>1. /\ \A i \in 1 .. Len(q) : p[i] = q[i] /\ q[i] \in T
      /\ Len(q) \in Nat
  BY AppendProperties, ElementOfSeq, LenProperties
<1> HIDE DEF p
<1>2. \A i \in a + 1 .. b : p[i] = q[i] /\ q[i] \in T /\ p[i] \in T
  BY <1>1
<1> DEFINE u == SubSeq(p, a + 1, b)
           v == SubSeq(q, a + 1, b)
<1>3. /\ u \in Seq(T) /\ v \in Seq(T) /\ Len(u) = Len(v)
      /\ Len(u) = IF a + 1 <= b THEN b - (a + 1) + 1 ELSE 0
      /\ \A i \in 1 .. b - (a + 1) + 1 : u[i] = p[(a + 1) + i - 1] /\ v[i] = q[(a + 1) + i - 1]
  BY <1>2, SubSeqProperties
<1> HIDE DEF u, v
<1>4. ASSUME NEW i \in 1 .. Len(u) PROVE u[i] = v[i]
  <2>1. i \in 1 .. b - (a + 1) + 1 /\ (a + 1) + i - 1 \in a + 1 .. b
    BY <1>3
  <2> QED
    BY <1>2, <1>3, <2>1
<1>5. u = v
  BY <1>3, <1>4, SeqEqual
<1> QED
  BY <1>5 DEF u, v, p

LEMMA SlicedStays ==
  ASSUME NEW kind, NEW bars \in Seq(Bars), NEW from, NEW seq \in Seq(Feed), NEW m, NEW tick \in Feed,
         Sliced(kind, bars, from, seq, m)
  PROVE  Sliced(kind, bars, from, Append(seq, tick), m)
<1>1. PICK r : Cuts(kind, r, bars, from, seq) /\ r[Len(bars)] = m
  BY DEF Sliced
<1>2. Len(bars) \in Nat /\ Len(seq) \in Nat /\ Len(Append(seq, tick)) = Len(seq) + 1
  BY LenProperties, AppendProperties
<1>3. ASSUME NEW j \in 1 .. Len(bars)
      PROVE  /\ r[j] \in Nat /\ r[j] <= Len(seq) + 1
             /\ r[j] = r[j - 1] + bars[j].count
             /\ Fits(kind, bars[j], SubSeq(Append(seq, tick), r[j - 1] + 1, r[j]))
  <2>1. /\ r[j] \in Nat /\ r[j] <= Len(seq) /\ r[j] = r[j - 1] + bars[j].count
        /\ Fits(kind, bars[j], SubSeq(seq, r[j - 1] + 1, r[j]))
    BY <1>1 DEF Cuts
  <2>2. r[j - 1] \in Nat
    <3>1. CASE j = 1
      BY <1>1, <3>1 DEF Cuts
    <3>2. CASE j # 1
      <4>1. j - 1 \in 1 .. Len(bars)
        BY <1>2, <3>2
      <4> QED
        BY <1>1, <4>1 DEF Cuts
    <3> QED
      BY <3>1, <3>2
  <2>3. SubSeq(Append(seq, tick), r[j - 1] + 1, r[j]) = SubSeq(seq, r[j - 1] + 1, r[j])
    BY <2>1, <2>2, SubSeqStays
  <2>4. r[j] <= Len(seq) + 1
    BY <1>2, <2>1
  <2> QED
    BY <2>1, <2>3, <2>4
<1>4. Cuts(kind, r, bars, from, Append(seq, tick))
  BY <1>1, <1>2, <1>3 DEF Cuts
<1> QED
  BY <1>1, <1>4 DEF Sliced

LEMMA SlicedMore ==
  ASSUME NEW kind, NEW bars \in Seq(Bars), NEW from, NEW seq \in Seq(Feed), NEW m \in Nat,
         m <= Len(seq), NEW x \in Bars,
         Sliced(kind, bars, from, seq, m), Fits(kind, x, SubSeq(seq, m + 1, Len(seq)))
  PROVE  Sliced(kind, Append(bars, x), from, seq, Len(seq))
<1>1. PICK q : Cuts(kind, q, bars, from, seq) /\ q[Len(bars)] = m
  BY DEF Sliced
<1>n. PICK n \in Nat : n = Len(bars)
  BY LenProperties
<1>l. PICK l \in Nat : l = Len(seq)
  BY LenProperties
<1> DEFINE more == Append(bars, x)
           r == [j \in 0 .. n + 1 |-> IF j = n + 1 THEN l ELSE q[j]]
<1>2. /\ Len(more) = n + 1 /\ more[n + 1] = x /\ \A j \in 1 .. n : more[j] = bars[j]
  BY <1>n, AppendProperties
<1>3. r[n + 1] = l /\ \A j \in 0 .. n : r[j] = q[j]
  OBVIOUS
<1> HIDE DEF more, r
<1>4. x.count = l - m
  <2>1. \A i \in m + 1 .. l : seq[i] \in Feed
    BY <1>l, ElementOfSeq
  <2>2. Len(SubSeq(seq, m + 1, l)) = IF m + 1 <= l THEN l - (m + 1) + 1 ELSE 0
    BY <2>1, SubSeqProperties
  <2>3. x.count = Len(SubSeq(seq, m + 1, l))
    BY <1>l DEF Fits, Says, Sums
  <2> QED
    BY <1>l, <2>2, <2>3
<1>5. r[0] = from /\ r[0] \in Nat
  BY <1>1, <1>3 DEF Cuts
<1>6. ASSUME NEW j \in 1 .. n + 1
      PROVE  /\ r[j] \in Nat /\ r[j] <= l
             /\ r[j] = r[j - 1] + more[j].count
             /\ Fits(kind, more[j], SubSeq(seq, r[j - 1] + 1, r[j]))
  <2>1. CASE j = n + 1
    <3>1. j - 1 = n /\ n \in 0 .. n
      BY <2>1
    <3>2. r[j] = l /\ r[j - 1] = m /\ more[j] = x
      BY <1>1, <1>n, <1>2, <1>3, <2>1, <3>1
    <3>3. l = m + x.count
      BY <1>l, <1>4
    <3>4. Fits(kind, x, SubSeq(seq, m + 1, l))
      BY <1>l
    <3> QED
      BY <3>2, <3>3, <3>4
  <2>2. CASE j # n + 1
    <3>1. j \in 1 .. n /\ j \in 0 .. n /\ j - 1 \in 0 .. n
      BY <2>2
    <3>2. r[j] = q[j] /\ r[j - 1] = q[j - 1] /\ more[j] = bars[j]
      BY <1>2, <1>3, <3>1
    <3>3. /\ q[j] \in Nat /\ q[j] <= l /\ q[j] = q[j - 1] + bars[j].count
          /\ Fits(kind, bars[j], SubSeq(seq, q[j - 1] + 1, q[j]))
      BY <1>1, <1>n, <1>l, <3>1 DEF Cuts
    <3> QED
      BY <3>2, <3>3
  <2> QED
    BY <2>1, <2>2
<1>7. Cuts(kind, r, more, from, seq)
  BY <1>l, <1>2, <1>5, <1>6 DEF Cuts
<1> QED
  BY <1>l, <1>2, <1>3, <1>7 DEF Sliced, more

Rest(seq, m) == SubSeq(seq, m + 1, Len(seq))

(* The bars of a series partition the ticks since it was added.            *)
PartitionedAt(s, bars, from, seq, m) ==
  /\ m \in Nat /\ m <= Len(seq) /\ Sliced(Kind(s), bars, from, seq, m)
  /\ s.active => Fits(Kind(s), s.current, Rest(seq, m))
  /\ ~s.active => m = Len(seq)

Partitioned(s, bars, from, seq) == \E m : PartitionedAt(s, bars, from, seq, m)

LEMMA PartitionStarts ==
  ASSUME NEW s, ~s.active, NEW seq \in Seq(Feed)
  PROVE  Partitioned(s, << >>, Len(seq), seq)
<1>1. Len(seq) \in Nat /\ Len(<< >>) = 0
  BY LenProperties
<1> DEFINE r == [j \in {0} |-> Len(seq)]
<1>2. Cuts(Kind(s), r, << >>, Len(seq), seq) /\ r[0] = Len(seq)
  BY <1>1 DEF Cuts
<1> HIDE DEF r
<1>3. Sliced(Kind(s), << >>, Len(seq), seq, Len(seq))
  BY <1>1, <1>2 DEF Sliced
<1> QED
  BY <1>1, <1>3 DEF Partitioned, PartitionedAt

(* The threshold and one more tick.                                        *)
LEMMA QuietFirst == ASSUME NEW kind, NEW tick PROVE Quiet(kind, Append(<< >>, tick))
<1>1. Len(Append(<< >>, tick)) = 1 /\ DOMAIN Append(<< >>, tick) = 1 .. 1
  OBVIOUS
<1> QED
  BY <1>1 DEF Quiet

LEMMA QuietMore ==
  ASSUME NEW s \in SeriesStates, NEW bars, ClosedOnThreshold(s, bars), s.active,
         NEW slice \in Seq(Feed), NEW tick \in Feed, ~B!TimeIsUp(s, tick),
         Says(s.current, slice), Quiet(Kind(s), slice)
  PROVE  Quiet(Kind(s), Append(slice, tick))
<1>n. PICK n \in Nat : n = Len(slice) /\ DOMAIN slice = 1 .. n /\ n > 0
  BY LenProperties DEF Says
<1> DEFINE more == Append(slice, tick)
<1>1. /\ Len(more) = n + 1 /\ DOMAIN more = 1 .. n + 1 /\ more[n + 1] = tick
      /\ \A k \in 1 .. n : more[k] = slice[k]
  BY <1>n, AppendProperties, LenProperties
<1>2. s.threshold \in Nat /\ tick.time \in Nat /\ s.current \in Bars
  BY FeedTyped DEF SeriesStates, TickTyped
<1> HIDE DEF more
<1>3. ASSUME s.type = "Time", NEW k \in (1 .. n + 1) \ {1}
      PROVE  more[k].time < more[1].time + s.threshold
  <2>1. more[1] = slice[1] /\ s.current.start = slice[1].time /\ s.current.count > 0
    BY <1>n, <1>1 DEF Says, Sums
  <2>2. CASE k = n + 1
    <3>1. s.current.start \in Nat
      BY <1>2 DEF Bars
    <3>2. tick.time < s.current.start + s.threshold
      BY <1>2, <1>3, <2>1, <3>1 DEF B!TimeIsUp
    <3> QED
      BY <1>1, <2>1, <2>2, <3>2
  <2>3. CASE k # n + 1
    <3>1. k \in 1 .. n
      BY <2>3
    <3> QED
      BY <1>n, <1>1, <1>3, <2>1, <3>1 DEF Quiet, Kind
  <2> QED
    BY <2>2, <2>3
<1>4. ASSUME s.type = "Range", NEW k \in 1 .. n, NEW m \in 1 .. n
      PROVE  more[k].price - more[m].price < s.threshold
  <2>1. s.current.high - s.current.low < s.threshold
    BY <1>4 DEF ClosedOnThreshold, ClosedOnRange, B!BarRange
  <2>2. slice[k].price \in PricesOf(slice) /\ slice[m].price \in PricesOf(slice)
    BY <1>n DEF PricesOf
  <2>3. s.current.high >= slice[k].price /\ s.current.low <= slice[m].price
    BY <2>2 DEF Says, Top, Bottom
  <2>4. slice[k].price \in Int /\ slice[m].price \in Int
    BY <2>2, SetsTyped
  <2>5. /\ s.current.high \in Int /\ s.current.low \in Int
        /\ s.threshold \in Int
    <3>1. s.current.high \in Int /\ s.current.low \in Int
      BY <1>2 DEF Bars
    <3>2. s.threshold \in Int
      BY <1>2
    <3> QED
      BY <3>1, <3>2
  <2>6. \A top, bottom, p, q, t \in Int :
          (top - bottom < t /\ top >= p /\ bottom <= q) => p - q < t
    OBVIOUS
  <2>7. slice[k].price - slice[m].price < s.threshold
    BY <2>1, <2>3, <2>4, <2>5, <2>6
  <2> QED
    BY <1>1, <2>7
<1>5. ASSUME s.type = "Volume"
      PROVE  B!SumOf(SizesUpTo(more, n)) < s.threshold
  <2>1. s.current.volume < s.threshold
    BY <1>5 DEF ClosedOnThreshold, ClosedOnVolume
  <2>2. SizesUpTo(more, n) = [k \in DOMAIN slice |-> slice[k].size]
    BY <1>n, <1>1 DEF SizesUpTo
  <2> QED
    BY <2>1, <2>2 DEF Says, Sums
<1>6. (n + 1) - 1 = n
  OBVIOUS
<1>7. Quiet(Kind(s), more)
  BY <1>1, <1>3, <1>4, <1>5, <1>6 DEF Quiet, Kind
<1> QED
  BY <1>7 DEF more

LEMMA FitsFirst ==
  ASSUME NEW kind, NEW tick \in Feed, NEW base \in Bars, NEW b \in Bars,
         Begins(base, tick), Updated(base, tick, b)
  PROVE  Fits(kind, b, Append(<< >>, tick))
<1>1. Last(Append(<< >>, tick)) = tick
  BY DEF Last
<1> QED
  BY <1>1, SaysFirst, QuietFirst DEF Fits, Updated

LEMMA FitsMore ==
  ASSUME NEW s \in SeriesStates, NEW bars, ClosedOnThreshold(s, bars), s.active,
         NEW slice \in Seq(Feed), NEW tick \in Feed, ~B!TimeIsUp(s, tick),
         Fits(Kind(s), s.current, slice), NEW b \in Bars, Updated(s.current, tick, b)
  PROVE  Fits(Kind(s), b, Append(slice, tick))
<1>1. s.current \in Bars
  BY DEF SeriesStates
<1>2. Last(Append(slice, tick)) = tick
  BY AppendProperties, LenProperties DEF Last
<1>3. b.end = tick.time
  BY DEF Updated
<1>4. Says(b, Append(slice, tick))
  BY <1>1, SaysMore DEF Fits
<1>5. Quiet(Kind(s), Append(slice, tick))
  BY QuietMore DEF Fits
<1> QED
  BY <1>2, <1>3, <1>4, <1>5 DEF Fits

LEMMA FitsClosed ==
  ASSUME NEW kind, NEW b, NEW t, NEW x, NEW slice, Closes(b, t, x), Fits(kind, b, slice),
         kind[1] # "Time" => b.end = t
  PROVE  Fits(kind, x, slice)
<1>1. Says(x, slice)
  BY SaysClosed DEF Fits
<1> QED
  BY <1>1 DEF Fits, Closes

LEMMA PartitionGrows ==
  ASSUME NEW s \in SeriesStates, NEW bars \in Seq(Bars), NEW from, NEW seq \in Seq(Feed),
         NEW tick \in Feed, NEW u, NEW after, Outcome(s, bars, tick, u, after),
         Partitioned(s, bars, from, seq), ClosedOnThreshold(s, bars)
  PROVE  Partitioned(u, after, from, Append(seq, tick))
<1>1. PICK m : PartitionedAt(s, bars, from, seq, m)
  BY DEF Partitioned
<1>2. PICK base \in Bars, b \in Bars, mid \in Seq(Bars) :
        /\ Starts(s, bars, tick, base, mid)
        /\ Updated(base, tick, b)
        /\ Ends(s, mid, tick, b, u, after)
  BY DEF Outcome
<1>l. PICK l \in Nat : l = Len(seq)
  BY LenProperties
<1> DEFINE kind == Kind(s)
           more == Append(seq, tick)
           Good(k) == /\ k \in Nat /\ k <= l
                      /\ Sliced(kind, mid, from, more, k) /\ Fits(kind, b, Rest(more, k))
<1>3. more \in Seq(Feed) /\ Len(more) = l + 1
  BY <1>l, AppendProperties
<1>4. \A k \in Nat : k <= l => Rest(more, k) = Append(Rest(seq, k), tick)
  BY <1>l, <1>3, RestGrows DEF Rest
<1>5. Rest(seq, l) = << >>
  BY <1>l, RestEmpty DEF Rest
<1>6. m \in Nat /\ m <= l /\ Sliced(kind, bars, from, seq, m)
  BY <1>1, <1>l DEF PartitionedAt
<1>k. Kind(u) = kind
  BY DEF Kind, Outcome
<1> HIDE DEF more, kind
<1>7. \E k : Good(k)
  <2>1. ASSUME mid = bars PROVE Sliced(kind, mid, from, more, m)
    BY <1>6, <2>1, SlicedStays DEF more
  <2>2. ASSUME Begins(base, tick) PROVE Fits(kind, b, Rest(more, l))
    <3>1. Rest(more, l) = Append(Rest(seq, l), tick)
      BY <1>4
    <3>2. Fits(kind, b, Append(<< >>, tick))
      BY <1>2, <2>2, FitsFirst
    <3> QED
      BY <1>5, <3>1, <3>2
  <2>3. CASE s.active /\ ~B!TimeIsUp(s, tick) /\ base = s.current /\ mid = bars
    <3>1. Fits(kind, base, Rest(seq, m)) /\ Rest(seq, m) \in Seq(Feed)
      BY <1>1, <1>6, <2>3, RestTyped DEF PartitionedAt, Rest, kind
    <3>2. Fits(kind, b, Append(Rest(seq, m), tick))
      BY <1>2, <2>3, <3>1, FitsMore DEF kind
    <3>3. Fits(kind, b, Rest(more, m))
      BY <1>4, <1>6, <3>2
    <3> QED
      BY <1>6, <2>1, <2>3, <3>3
  <2>4. CASE ~s.active /\ Begins(base, tick) /\ mid = bars
    <3>1. m = l
      BY <1>1, <1>l, <2>4 DEF PartitionedAt
    <3> QED
      BY <1>6, <2>1, <2>2, <2>4, <3>1
  <2>5. ASSUME s.active, B!TimeIsUp(s, tick), Begins(base, tick), NEW x \in Bars, Closes(s.current, tick.time, x),
               mid = Append(bars, x)
        PROVE  \E k : Good(k)
    <3>1. Fits(kind, x, Rest(seq, m))
      <4>1. kind[1] = "Time" /\ Fits(kind, s.current, Rest(seq, m))
        BY <1>1, <2>5 DEF PartitionedAt, kind, Kind, B!TimeIsUp
      <4> QED
        BY <2>5, <4>1, FitsClosed
    <3>2. Sliced(kind, mid, from, seq, l)
      BY <1>l, <1>6, <2>5, <3>1, SlicedMore DEF Rest
    <3>3. Sliced(kind, mid, from, more, l)
      BY <3>2, SlicedStays DEF more
    <3> QED
      BY <2>2, <2>5, <3>3
  <2> QED
    BY <1>2, <2>3, <2>4, <2>5 DEF Starts
<1>8. PICK k : Good(k)
  BY <1>7
<1>9. CASE u.active /\ u.current = b /\ after = mid
  <2>1. PartitionedAt(u, after, from, more, k)
    BY <1>3, <1>8, <1>9, <1>k DEF PartitionedAt
  <2> QED
    BY <2>1 DEF Partitioned, more
<1>10. ASSUME ~u.active, NEW x \in Bars, Closes(b, tick.time, x), after = Append(mid, x)
       PROVE  Partitioned(u, after, from, Append(seq, tick))
  <2>1. Fits(kind, x, Rest(more, k))
    <3>1. b.end = tick.time
      BY <1>2 DEF Updated
    <3> QED
      BY <1>8, <1>10, <3>1, FitsClosed
  <2>2. Sliced(kind, after, from, more, l + 1)
    <3>1. k <= Len(more) /\ Fits(kind, x, SubSeq(more, k + 1, Len(more)))
      BY <1>3, <1>8, <2>1 DEF Rest
    <3> QED
      BY <1>3, <1>8, <1>10, <3>1, SlicedMore
  <2>3. PartitionedAt(u, after, from, more, l + 1)
    BY <1>3, <1>10, <1>k, <2>2 DEF PartitionedAt
  <2> QED
    BY <2>3 DEF Partitioned, more
<1> QED
  BY <1>2, <1>9, <1>10 DEF Ends

Partitions ==
  \A i \in DOMAIN series : Partitioned(series[i], BarsOf(i), since[i], ticks)

LEMMA PartitionsStep == SeriesTypes /\ Thresholds /\ Partitions /\ [Next]_vars => Partitions'
<1> SUFFICES ASSUME SeriesTypes, Thresholds, Partitions, [Next]_vars, NEW i \in DOMAIN series'
             PROVE  Partitioned(series'[i], BarsOf(i)', since'[i], ticks')
  BY DEF Partitions
<1>1. Added(i) \/ Fed(i) \/ Kept(i)
  BY SeriesSteps
<1>2. CASE Added(i)
  <2>1. PICK kind \in Kinds : series'[i] = B!NewSeries(kind[1], kind[2])
    BY <1>2 DEF Added
  <2>2. ~series'[i].active
    BY <2>1, NewSeriesTyped
  <2>3. BarsOf(i)' = << >> /\ since'[i] = Len(ticks) /\ ticks' = ticks
    BY <1>2 DEF Added
  <2> QED
    BY <2>2, <2>3, PartitionStarts DEF SeriesTypes
<1>3. CASE Fed(i)
  <2>1. PICK tick \in Feed : /\ ticks' = Append(ticks, tick)
                             /\ Outcome(series[i], BarsOf(i), tick, series'[i], BarsOf(i)')
    BY <1>3 DEF Fed
  <2>2. /\ series[i] \in SeriesStates /\ BarsOf(i) \in Seq(Bars) /\ since'[i] = since[i]
        /\ Partitioned(series[i], BarsOf(i), since[i], ticks)
        /\ ClosedOnThreshold(series[i], BarsOf(i))
    BY <1>3, BarsTyped DEF Fed, Partitions, Thresholds
  <2> QED
    BY <2>1, <2>2, PartitionGrows DEF SeriesTypes
<1>4. CASE Kept(i)
  BY <1>4 DEF Kept, Partitions, Partitioned, PartitionedAt, Kind
<1> QED
  BY <1>1, <1>2, <1>3, <1>4

---------------------------------------------------------------------------
(* The count of ticks before each bar is the one of the cuts.              *)
Counts(f, bars, from) ==
  f = [j \in 0 .. Len(bars) |-> IF j = 0 THEN from ELSE f[j - 1] + bars[j].count]

TheCount(bars, from) == CHOOSE f : Counts(f, bars, from)

LEMMA CutsCount ==
  ASSUME NEW kind, NEW bars \in Seq(Bars), NEW from, NEW seq, NEW r, Cuts(kind, r, bars, from, seq)
  PROVE  \A j \in 0 .. Len(bars) : TheCount(bars, from)[j] = r[j]
<1>n. PICK n \in Nat : n = Len(bars)
  BY LenProperties
<1> DEFINE f == TheCount(bars, from)
           g == [j \in 0 .. n |-> r[j]]
<1>1. Counts(g, bars, from)
  <2>1. ASSUME NEW j \in 0 .. n
        PROVE  g[j] = IF j = 0 THEN from ELSE g[j - 1] + bars[j].count
    <3>1. CASE j = 0
      BY <3>1 DEF Cuts
    <3>2. CASE j # 0
      <4>1. j \in 1 .. n /\ j - 1 \in 0 .. n
        BY <3>2
      <4> QED
        BY <1>n, <3>2, <4>1 DEF Cuts
    <3> QED
      BY <3>1, <3>2
  <2>2. g = [j \in 0 .. n |-> IF j = 0 THEN from ELSE g[j - 1] + bars[j].count]
    BY <2>1
  <2> HIDE DEF g
  <2> QED
    BY <1>n, <2>2 DEF Counts
<1>2. Counts(f, bars, from)
  <2> HIDE DEF g
  <2> QED
    BY <1>1 DEF TheCount
<1> HIDE DEF f, g
<1> DEFINE T == {j \in Nat : j <= n => f[j] = r[j]}
<1>3. 0 \in T
  <2>1. f[0] = from
    <3>1. 0 \in 0 .. n
      OBVIOUS
    <3> QED
      BY <1>n, <1>2, <3>1 DEF Counts
  <2> QED
    BY <2>1 DEF Cuts
<1>4. ASSUME NEW j \in Nat, j \in T PROVE j + 1 \in T
  <2>1. ASSUME j + 1 <= n PROVE f[j + 1] = r[j + 1]
    <3>1. j + 1 \in 1 .. n /\ j + 1 \in 0 .. n /\ (j + 1) - 1 = j /\ j + 1 # 0
      BY <2>1
    <3>2. f[j + 1] = f[j] + bars[j + 1].count
      BY <1>n, <1>2, <3>1 DEF Counts
    <3>3. r[j + 1] = r[j] + bars[j + 1].count
      BY <1>n, <3>1 DEF Cuts
    <3>4. f[j] = r[j]
      BY <1>4, <2>1
    <3> QED
      BY <3>2, <3>3, <3>4
  <2> QED
    BY <2>1
<1>5. \A j \in Nat : j \in T
  <2> HIDE DEF T
  <2> QED
    BY <1>3, <1>4, Induction
<1>6. \A j \in 0 .. n : f[j] = r[j]
  BY <1>5
<1> QED
  BY <1>n, <1>6 DEF f

LEMMA SlicedNow ==
  ASSUME SeriesTypes, NEW i \in DOMAIN series,
         Partitioned(series[i], BarsOf(i), since[i], ticks)
  PROVE  /\ BarsNow(i) \in Seq(Bars)
         /\ Sliced(Kind(series[i]), BarsNow(i), since[i], ticks, Len(ticks))
<1>1. PICK m : PartitionedAt(series[i], BarsOf(i), since[i], ticks, m)
  BY DEF Partitioned
<1>2. BarsOf(i) \in Seq(Bars) /\ series[i].current \in Bars /\ ticks \in Seq(Feed)
  BY BarsTyped DEF SeriesStates, SeriesTypes
<1>3. CASE series[i].active
  <2>1. BarsNow(i) = Append(BarsOf(i), series[i].current)
    BY <1>2, <1>3, AppendIsConcat DEF BarsNow
  <2> QED
    BY <1>1, <1>2, <1>3, <2>1, AppendProperties, SlicedMore DEF PartitionedAt, Rest
<1>4. CASE ~series[i].active
  <2>1. BarsNow(i) = BarsOf(i)
    BY <1>2, <1>4, ConcatEmptySeq DEF BarsNow
  <2> QED
    BY <1>1, <1>2, <1>4, <2>1 DEF PartitionedAt
<1> QED
  BY <1>3, <1>4

LEMMA EndsAre ==
  ASSUME NEW i
  PROVE  EndsOf(i) = TheCount(BarsNow(i), since[i])
BY Zenon DEF EndsOf, TheCount, Counts

SliceOf(i, j) == TicksOf(i, j, EndsOf(i)[j])

(* A bar starts where the one before it ends.                              *)
LEMMA EveryBarFits ==
  ASSUME SeriesTypes, Partitions, NEW i \in DOMAIN series
  PROVE  /\ EndsOf(i)[Len(BarsNow(i))] = Len(ticks)
         /\ \A j \in DOMAIN BarsNow(i) :
              /\ EndsOf(i)[j - 1] \in Nat /\ EndsOf(i)[j] \in Nat
              /\ EndsOf(i)[j] <= Len(ticks)
              /\ SliceOf(i, j) \in Seq(Feed)
              /\ Fits(Kind(series[i]), BarsNow(i)[j], SliceOf(i, j))
<1> DEFINE kind == Kind(series[i])
<1>1. BarsNow(i) \in Seq(Bars) /\ Sliced(kind, BarsNow(i), since[i], ticks, Len(ticks))
  BY SlicedNow DEF Partitions
<1> HIDE DEF kind
<1>n. PICK n \in Nat : n = Len(BarsNow(i)) /\ DOMAIN BarsNow(i) = 1 .. n
  BY <1>1, LenProperties
<1>2. PICK r : Cuts(kind, r, BarsNow(i), since[i], ticks) /\ r[n] = Len(ticks)
  BY <1>1, <1>n DEF Sliced
<1>3. \A j \in 0 .. n : EndsOf(i)[j] = r[j]
  <2>1. \A j \in 0 .. Len(BarsNow(i)) : TheCount(BarsNow(i), since[i])[j] = r[j]
    <3>1. Cuts(kind, r, BarsNow(i), since[i], ticks)
      BY <1>2
    <3>2. PICK bars \in Seq(Bars) : bars = BarsNow(i)
      BY <1>1
    <3>3. Cuts(kind, r, bars, since[i], ticks)
      BY <3>1, <3>2
    <3>4. \A j \in 0 .. Len(bars) : TheCount(bars, since[i])[j] = r[j]
      BY <3>3, CutsCount
    <3> QED
      BY <3>2, <3>4
  <2>2. EndsOf(i) = TheCount(BarsNow(i), since[i])
    BY EndsAre
  <2>3. Len(BarsNow(i)) = n
    BY <1>n
  <2> QED
    BY <2>1, <2>2, <2>3
<1>4. ASSUME NEW j \in 1 .. n
      PROVE  /\ EndsOf(i)[j - 1] \in Nat /\ EndsOf(i)[j] \in Nat
             /\ EndsOf(i)[j] <= Len(ticks)
             /\ SliceOf(i, j) \in Seq(Feed)
             /\ Fits(kind, BarsNow(i)[j], SliceOf(i, j))
  <2>1. j \in 0 .. n /\ j - 1 \in 0 .. n
    OBVIOUS
  <2>2. Fits(kind, BarsNow(i)[j], SubSeq(ticks, r[j - 1] + 1, r[j])) /\ r[j] \in Nat /\ r[j] <= Len(ticks)
    BY <1>2, <1>n DEF Cuts
  <2>3. r[j - 1] \in Nat
    <3>1. CASE j = 1
      BY <1>2, <3>1 DEF Cuts
    <3>2. CASE j # 1
      <4>1. j - 1 \in 1 .. n
        BY <3>2
      <4> QED
        BY <1>2, <1>n, <4>1 DEF Cuts
    <3> QED
      BY <3>1, <3>2
  <2>4. SubSeq(ticks, r[j - 1] + 1, r[j]) \in Seq(Feed)
    <3>0. ticks \in Seq(Feed) /\ Len(ticks) \in Nat
      BY LenProperties DEF SeriesTypes
    <3>1. ASSUME NEW k \in r[j - 1] + 1 .. r[j] PROVE ticks[k] \in Feed
      <4>1. k \in 1 .. Len(ticks)
        BY <2>2, <2>3, <3>0
      <4> QED
        BY <3>0, <4>1, ElementOfSeq
    <3> QED
      BY <2>2, <2>3, <3>0, <3>1, SubSeqProperties
  <2>5. SliceOf(i, j) = SubSeq(ticks, r[j - 1] + 1, r[j])
    BY <1>3, <2>1 DEF SliceOf, TicksOf
  <2> QED
    BY <1>3, <2>1, <2>2, <2>3, <2>4, <2>5
<1>5. EndsOf(i)[n] = r[n]
  BY <1>3
<1> QED
  BY <1>n, <1>2, <1>4, <1>5 DEF kind

LEMMA EveryBarSays ==
  ASSUME SeriesTypes, Partitions, NEW i \in DOMAIN series
  PROVE  /\ EndsOf(i)[Len(BarsNow(i))] = Len(ticks)
         /\ \A j \in DOMAIN BarsNow(i) :
              SliceOf(i, j) \in Seq(Feed) /\ Says(BarsNow(i)[j], SliceOf(i, j))
BY EveryBarFits DEF Fits

LEMMA PartitionsHold == Spec => [](SeriesTypes /\ Thresholds /\ Partitions)
<1>1. Init => Partitions
  BY DEF Init, Partitions
<1>2. SeriesTypes /\ Thresholds /\ Partitions /\ [Next]_vars => Partitions'
  BY PartitionsStep
<1> QED
  BY <1>1, <1>2, ThresholdsHold, PTL DEF Spec

(* For every feed, and whenever a series is added, read or cleared: its    *)
(* bars partition the ticks it saw, and each is what its slice says.       *)
THEOREM BarsAlwaysMatchTicks == Spec => []BarsMatchTicks
<1>1. SeriesTypes /\ Partitions => BarsMatchTicks
  <2> SUFFICES ASSUME SeriesTypes, Partitions, NEW i \in DOMAIN series
               PROVE  /\ EndsOf(i)[Len(BarsNow(i))] = Len(ticks)
                      /\ \A j \in DOMAIN BarsNow(i) : B!Agrees(BarsNow(i)[j], SliceOf(i, j))
    BY DEF BarsMatchTicks, SliceOf
  <2>1. ASSUME NEW j \in DOMAIN BarsNow(i) PROVE B!Agrees(BarsNow(i)[j], SliceOf(i, j))
    BY EveryBarSays, SaysAgrees
  <2> QED
    BY <2>1, EveryBarSays
<1> QED
  BY <1>1, PartitionsHold, PTL

(* A slice of the ticks, one tick at a time.                               *)
LEMMA SliceIs ==
  ASSUME NEW seq \in Seq(Feed), NEW a \in Nat, NEW b \in Nat, b <= Len(seq)
  PROVE  LET slice == SubSeq(seq, a + 1, b)
         IN  /\ slice \in Seq(Feed) /\ Len(slice) = (IF a < b THEN b - a ELSE 0)
             /\ DOMAIN slice = 1 .. Len(slice)
             /\ \A k \in 1 .. b - a : slice[k] = seq[a + k]
<1> DEFINE slice == SubSeq(seq, a + 1, b)
<1>1. \A k \in a + 1 .. b : seq[k] \in Feed
  BY ElementOfSeq, LenProperties
<1>2. /\ slice \in Seq(Feed) /\ Len(slice) = IF a + 1 <= b THEN b - (a + 1) + 1 ELSE 0
      /\ \A k \in 1 .. b - (a + 1) + 1 : slice[k] = seq[(a + 1) + k - 1]
  BY <1>1, SubSeqProperties
<1>3. DOMAIN slice = 1 .. Len(slice)
  BY <1>2, LenProperties
<1> HIDE DEF slice
<1>4. b - (a + 1) + 1 = b - a /\ (a + 1 <= b <=> a < b)
  OBVIOUS
<1>5. ASSUME NEW k \in 1 .. b - a PROVE slice[k] = seq[a + k]
  <2>1. (a + 1) + k - 1 = a + k
    OBVIOUS
  <2> QED
    BY <1>2, <1>4, <2>1
<1>6. Len(slice) = (IF a < b THEN b - a ELSE 0)
  BY <1>2, <1>4
<1> QED
  BY <1>2, <1>3, <1>5, <1>6 DEF slice

(* From what a bar says and where it was closed, with one tick less or one *)
(* more, to whether the threshold was reached.                             *)
LEMMA ReachedWithLast ==
  ASSUME NEW s \in SeriesStates, NEW x \in Bars, NEW slice \in Seq(Feed), Says(x, slice),
         s.type = "Range" => B!BarRange(x) >= s.threshold,
         s.type = "Volume" => x.volume >= s.threshold,
         s.type # "Time"
  PROVE  B!Reached(s, slice)
<1>1. slice # << >>
  BY EmptySeq DEF Says
<1>2. CASE s.type = "Range"
  <2>1. PICK k \in DOMAIN slice, m \in DOMAIN slice :
          x.high = slice[k].price /\ x.low = slice[m].price
    BY DEF Says, Top, Bottom, PricesOf
  <2> QED
    BY <1>2, <2>1 DEF B!Reached, B!BarRange
<1>3. CASE s.type = "Volume"
  BY <1>1, <1>3 DEF B!Reached, Says, Sums
<1> QED
  BY <1>2, <1>3 DEF SeriesStates, B!BarTypes

LEMMA NotReachedYet ==
  ASSUME NEW s \in SeriesStates, NEW x \in Bars, NEW slice \in Seq(Feed), Says(x, slice),
         Quiet(Kind(s), slice),
         s.type = "Range" => B!BarRange(x) < s.threshold,
         s.type = "Volume" => x.volume < s.threshold
  PROVE  ~B!Reached(s, slice)
<1>0. s.threshold \in Nat /\ DOMAIN slice = 1 .. Len(slice) /\ Len(slice) \in Nat
  BY LenProperties DEF SeriesStates
<1>1. CASE s.type = "Time"
  <2>1. ASSUME NEW k \in DOMAIN slice, k > 1
        PROVE  ~(slice[k].time >= slice[1].time + s.threshold)
    <3>1. k # 1 /\ 1 \in DOMAIN slice
      BY <1>0, <2>1
    <3>2. slice[k].time < slice[1].time + s.threshold
      BY <1>1, <3>1 DEF Quiet, Kind
    <3>3. slice[k].time \in Nat /\ slice[1].time \in Nat
      BY <3>1, TickOfSlice DEF TickTyped
    <3> QED
      BY <1>0, <3>2, <3>3
  <2> QED
    BY <1>1, <2>1 DEF B!Reached
<1>2. CASE s.type = "Range"
  <2>1. ASSUME NEW k \in DOMAIN slice, NEW m \in DOMAIN slice
        PROVE  ~(slice[k].price - slice[m].price >= s.threshold)
    <3>1. slice[k].price \in PricesOf(slice) /\ slice[m].price \in PricesOf(slice)
      BY DEF PricesOf
    <3>2. x.high >= slice[k].price /\ x.low <= slice[m].price
      BY <3>1 DEF Says, Top, Bottom
    <3>3. /\ slice[k].price \in Int /\ slice[m].price \in Int
          /\ x.high \in Int /\ x.low \in Int
      BY <3>1, SetsTyped DEF Bars
    <3>4. x.high - x.low < s.threshold
      BY <1>2 DEF B!BarRange
    <3> QED
      BY <1>0, <3>2, <3>3, <3>4
  <2> QED
    BY <1>2, <2>1 DEF B!Reached
<1>3. CASE s.type = "Volume"
  <2>1. x.volume = B!SumOf([k \in DOMAIN slice |-> slice[k].size]) /\ x.volume \in Nat
    BY DEF Says, Sums, Bars
  <2>2. ~(B!SumOf([k \in DOMAIN slice |-> slice[k].size]) >= s.threshold)
    BY <1>0, <1>3, <2>1
  <2> QED
    BY <1>3, <2>2 DEF B!Reached
<1> QED
  BY <1>1, <1>2, <1>3 DEF SeriesStates, B!BarTypes

(* The slice without its last tick.                                        *)
LEMMA NotReachedBefore ==
  ASSUME NEW s \in SeriesStates, s.type # "Time",
         NEW slice \in Seq(Feed), NEW front \in Seq(Feed),
         Len(slice) = Len(front) + 1, \A k \in 1 .. Len(front) : front[k] = slice[k],
         Quiet(Kind(s), slice)
  PROVE  ~B!Reached(s, front)
<1>n. PICK n \in Nat : n = Len(front) /\ DOMAIN front = 1 .. n
  BY LenProperties
<1>0. s.threshold \in Nat /\ DOMAIN slice = 1 .. n + 1
  BY <1>n, LenProperties DEF SeriesStates
<1>1. CASE s.type = "Range"
  <2>1. ASSUME NEW k \in 1 .. n, NEW m \in 1 .. n
        PROVE  ~(front[k].price - front[m].price >= s.threshold)
    <3>1. slice[k].price - slice[m].price < s.threshold
      BY <1>n, <1>1 DEF Quiet, Kind
    <3>2. slice[k].price \in Int /\ slice[m].price \in Int
      BY <1>0, TickOfSlice DEF TickTyped
    <3> QED
      BY <1>n, <1>0, <3>1, <3>2
  <2> QED
    BY <1>n, <1>1, <2>1 DEF B!Reached
<1>2. CASE s.type = "Volume"
  <2>1. ASSUME front # << >>
        PROVE  ~(B!SumOf([k \in DOMAIN front |-> front[k].size]) >= s.threshold)
    <3>1. n > 0
      BY <1>n, <2>1, EmptySeq
    <3>2. [k \in DOMAIN front |-> front[k].size] = SizesUpTo(slice, n)
      BY <1>n DEF SizesUpTo
    <3>3. B!SumOf(SizesUpTo(slice, n)) < s.threshold
      BY <1>n, <1>2, <3>1 DEF Quiet, Kind
    <3>4. B!SumOf(SizesUpTo(slice, n)) \in Int
      <4>1. DOMAIN SizesUpTo(slice, n) = 1 .. n
        BY DEF SizesUpTo
      <4>2. \A k \in 1 .. n : SizesUpTo(slice, n)[k] \in Int
        BY <1>0, TickOfSlice DEF TickTyped, SizesUpTo
      <4> QED
        BY <4>1, <4>2, SumTyped
    <3> QED
      BY <1>0, <3>2, <3>3, <3>4
  <2> QED
    BY <1>2, <2>1 DEF B!Reached
<1> QED
  BY <1>1, <1>2 DEF SeriesStates, B!BarTypes

(* Whatever the feed, the kinds and the thresholds, and however often the  *)
(* completed bars are read and cleared: a bar is closed by the first tick  *)
(* with which its ticks reach the threshold, no earlier and no later.      *)
THEOREM BarsAlwaysCloseOnThreshold == Spec => []BarsCloseOnThreshold
<1> DEFINE Closer(i, j) == IF series[i].type = "Time" THEN EndsOf(i)[j] + 1 ELSE EndsOf(i)[j]
           ClosedAt(i, j) ==
             /\ Closer(i, j) \in DOMAIN ticks
             /\ B!Reached(series[i], TicksOf(i, j, Closer(i, j)))
             /\ ~B!Reached(series[i], TicksOf(i, j, Closer(i, j) - 1))
             /\ BarsOf(i)[j].end = ticks[Closer(i, j)].time
           Waits(i, j) == ~B!Reached(series[i], TicksOf(i, j, Len(ticks)))
<1>1. ASSUME SeriesTypes, Thresholds, Partitions, NEW i \in DOMAIN series
      PROVE  /\ \A j \in DOMAIN BarsOf(i) : ClosedAt(i, j)
             /\ \A j \in DOMAIN BarsNow(i) \ DOMAIN BarsOf(i) : Waits(i, j)
  <2> DEFINE s == series[i]
             bars == BarsOf(i)
             now == BarsNow(i)
  <2>1. /\ s \in SeriesStates /\ bars \in Seq(Bars) /\ ticks \in Seq(Feed)
        /\ ClosedOnThreshold(s, bars) /\ s.current \in Bars
    BY <1>1, BarsTyped DEF Thresholds, SeriesTypes, SeriesStates
  <2>n. PICK n \in Nat : n = Len(bars) /\ DOMAIN bars = 1 .. n
    BY <2>1, LenProperties
  <2>l. PICK l \in Nat : l = Len(ticks) /\ DOMAIN ticks = 1 .. l
    BY <2>1, LenProperties
  <2>2. /\ s.active => /\ DOMAIN now = 1 .. n + 1 /\ now[n + 1] = s.current /\ Len(now) = n + 1
                       /\ \A j \in 1 .. n : now[j] = bars[j]
        /\ ~s.active => now = bars
    <3>1. CASE s.active
      <4>1. now = Append(bars, s.current)
        BY <2>1, <3>1, AppendIsConcat DEF BarsNow
      <4> QED
        BY <2>1, <2>n, <3>1, <4>1, AppendProperties, LenProperties
    <3>2. CASE ~s.active
      BY <2>1, <3>2, ConcatEmptySeq DEF BarsNow
    <3> QED
      BY <3>1, <3>2
  <2>3. /\ EndsOf(i)[Len(now)] = l
        /\ \A j \in DOMAIN now :
             /\ EndsOf(i)[j - 1] \in Nat /\ EndsOf(i)[j] \in Nat /\ EndsOf(i)[j] <= l
             /\ SliceOf(i, j) \in Seq(Feed) /\ Fits(Kind(s), now[j], SliceOf(i, j))
    BY <1>1, <2>l, EveryBarFits
  <2> HIDE DEF s, bars, now
  <2>4. ASSUME NEW j \in DOMAIN now
        PROVE  LET a == EndsOf(i)[j - 1]
                   b == EndsOf(i)[j]
               IN  /\ a \in Nat /\ b \in Nat /\ a < b /\ b <= l
                   /\ \A e \in 0 .. l :
                        /\ TicksOf(i, j, e) \in Seq(Feed)
                        /\ Len(TicksOf(i, j, e)) = (IF a < e THEN e - a ELSE 0)
                        /\ DOMAIN TicksOf(i, j, e) = 1 .. Len(TicksOf(i, j, e))
                        /\ \A k \in 1 .. e - a : TicksOf(i, j, e)[k] = ticks[a + k]
    <3> DEFINE a == EndsOf(i)[j - 1]
               b == EndsOf(i)[j]
    <3>1. a \in Nat /\ b \in Nat /\ b <= l /\ Len(SliceOf(i, j)) > 0
      BY <2>3 DEF Fits, Says
    <3>2. ASSUME NEW e \in 0 .. l
          PROVE  /\ TicksOf(i, j, e) \in Seq(Feed)
                 /\ Len(TicksOf(i, j, e)) = (IF a < e THEN e - a ELSE 0)
                 /\ DOMAIN TicksOf(i, j, e) = 1 .. Len(TicksOf(i, j, e))
                 /\ \A k \in 1 .. e - a : TicksOf(i, j, e)[k] = ticks[a + k]
      <4>1. TicksOf(i, j, e) = SubSeq(ticks, a + 1, e)
        BY DEF TicksOf
      <4>2. e \in Nat /\ e <= Len(ticks)
        BY <2>l
      <4>3. PICK from \in Nat : from = a
        BY <3>1
      <4> HIDE DEF a
      <4> DEFINE slice == SubSeq(ticks, from + 1, e)
      <4>4. /\ slice \in Seq(Feed) /\ Len(slice) = (IF from < e THEN e - from ELSE 0)
            /\ DOMAIN slice = 1 .. Len(slice)
            /\ \A k \in 1 .. e - from : slice[k] = ticks[from + k]
        BY <2>1, <4>2, SliceIs, Zenon
      <4>5. TicksOf(i, j, e) = slice
        BY <4>1, <4>3
      <4> HIDE DEF slice
      <4> QED
        BY <4>3, <4>4, <4>5, Zenon
    <3>3. a < b
      <4>1. SliceOf(i, j) = TicksOf(i, j, b) /\ b \in 0 .. l
        BY <2>l, <3>1 DEF SliceOf
      <4>2. Len(TicksOf(i, j, b)) = (IF a < b THEN b - a ELSE 0)
        BY <3>2, <4>1
      <4> QED
        BY <3>1, <4>1, <4>2
    <3> QED
      BY <3>1, <3>2, <3>3
  <2>5. ASSUME NEW j \in DOMAIN bars PROVE ClosedAt(i, j)
    <3>0. j \in 1 .. n /\ j \in DOMAIN now /\ now[j] = bars[j] /\ bars[j] \in Bars
      BY <2>1, <2>n, <2>2, ElementOfSeq
    <3>1. PICK a \in Nat, b \in Nat : a = EndsOf(i)[j - 1] /\ b = EndsOf(i)[j]
      BY <2>4, <3>0
    <3>2. /\ a < b /\ b <= l
          /\ \A e \in 0 .. l :
               /\ TicksOf(i, j, e) \in Seq(Feed)
               /\ Len(TicksOf(i, j, e)) = (IF a < e THEN e - a ELSE 0)
               /\ DOMAIN TicksOf(i, j, e) = 1 .. Len(TicksOf(i, j, e))
               /\ \A k \in 1 .. e - a : TicksOf(i, j, e)[k] = ticks[a + k]
      BY <2>4, <3>0, <3>1
    <3>3. /\ Says(bars[j], TicksOf(i, j, b)) /\ Quiet(Kind(s), TicksOf(i, j, b))
          /\ s.type # "Time" => bars[j].end = Last(TicksOf(i, j, b)).time
      BY <2>3, <3>0, <3>1 DEF SliceOf, Fits, Kind
    <3>4. CASE s.type # "Time"
      <4>1. Closer(i, j) = b /\ b \in 1 .. l /\ b \in 0 .. l /\ b - 1 \in 0 .. l
        <5>1. Closer(i, j) = b
          BY <3>1, <3>4 DEF s
        <5>2. a < b /\ b <= l
          BY <3>2, Zenon
        <5> QED
          BY <5>1, <5>2
      <4>2. B!Reached(s, TicksOf(i, j, b))
        <5>1. /\ s.type = "Range" => B!BarRange(bars[j]) >= s.threshold
              /\ s.type = "Volume" => bars[j].volume >= s.threshold
          BY <2>1 DEF ClosedOnThreshold, ClosedOnRange, ClosedOnVolume
        <5> QED
          BY <2>1, <3>0, <3>2, <3>3, <3>4, <4>1, <5>1, ReachedWithLast
      <4>3. ~B!Reached(s, TicksOf(i, j, b - 1))
        <5>1. Len(TicksOf(i, j, b)) = b - a
          BY <3>2, <4>1
        <5>2. Len(TicksOf(i, j, b - 1)) = (IF a < b - 1 THEN (b - 1) - a ELSE 0)
          BY <3>2, <4>1
        <5>3. Len(TicksOf(i, j, b - 1)) = (b - 1) - a
          BY <3>2, <5>2
        <5>4. Len(TicksOf(i, j, b)) = Len(TicksOf(i, j, b - 1)) + 1
          BY <5>1, <5>3
        <5>5. ASSUME NEW k \in 1 .. Len(TicksOf(i, j, b - 1))
              PROVE  TicksOf(i, j, b - 1)[k] = TicksOf(i, j, b)[k]
          <6>1. k \in 1 .. b - a /\ k \in 1 .. (b - 1) - a
            BY <5>3
          <6> QED
            BY <3>2, <4>1, <6>1
        <5>6. TicksOf(i, j, b) \in Seq(Feed) /\ TicksOf(i, j, b - 1) \in Seq(Feed)
          BY <3>2, <4>1
        <5> QED
          BY <2>1, <3>3, <3>4, <5>4, <5>5, <5>6, NotReachedBefore
      <4>4. bars[j].end = ticks[b].time
        <5>1. Last(TicksOf(i, j, b)) = TicksOf(i, j, b)[b - a]
          BY <3>2, <4>1 DEF Last
        <5>2. b - a \in 1 .. b - a /\ a + (b - a) = b
          BY <3>2
        <5>3. TicksOf(i, j, b)[b - a] = ticks[b]
          BY <3>2, <4>1, <5>2
        <5> QED
          BY <3>3, <3>4, <5>1, <5>3
      <4> QED
        BY <2>l, <4>1, <4>2, <4>3, <4>4 DEF s, bars
    <3>5. CASE s.type = "Time"
      <4>1. /\ s.active /\ bars[j].end >= bars[j].start + s.threshold
            /\ bars[j].end = (IF j < n THEN bars[j + 1] ELSE s.current).start
        BY <2>1, <2>n, <3>5 DEF ClosedOnThreshold, ClosedOnTime
      <4>2. j + 1 \in DOMAIN now /\ bars[j].end = now[j + 1].start
        <5>1. CASE j < n
          <6>1. j + 1 \in 1 .. n
            BY <3>0, <5>1
          <6> QED
            BY <2>2, <4>1, <5>1, <6>1
        <5>2. CASE ~(j < n)
          <6>1. j = n
            BY <3>0, <5>2
          <6> QED
            BY <2>2, <4>1, <5>2, <6>1
        <5> QED
          BY <5>1, <5>2
      <4>3. (j + 1) - 1 = j
        BY <3>0
      <4>4. PICK c \in Nat : c = EndsOf(i)[j + 1]
        BY <2>4, <4>2
      <4>5. b < c /\ c <= l
        BY <2>4, <3>1, <4>2, <4>3, <4>4
      <4>6. bars[j].end = ticks[b + 1].time
        <5>1. now[j + 1].start = TicksOf(i, j + 1, c)[1].time
          BY <2>3, <4>2, <4>4 DEF SliceOf, Fits, Says
        <5>2. c \in 0 .. l /\ 1 \in 1 .. c - b
          BY <4>5
        <5>3. TicksOf(i, j + 1, c)[1] = ticks[b + 1]
          BY <2>4, <3>1, <4>2, <4>3, <5>2
        <5> QED
          BY <4>2, <5>1, <5>3
      <4>7. /\ Closer(i, j) = b + 1 /\ b + 1 \in 1 .. l /\ b + 1 \in 0 .. l /\ b \in 0 .. l
            /\ (b + 1) - 1 = b
        <5>1. Closer(i, j) = b + 1
          BY <3>1, <3>5 DEF s
        <5>2. b + 1 \in 1 .. l /\ b + 1 \in 0 .. l /\ b \in 0 .. l /\ (b + 1) - 1 = b
          BY <4>5
        <5> QED
          BY <5>1, <5>2, Zenon
      <4>8. B!Reached(s, TicksOf(i, j, b + 1))
        <5>1. Len(TicksOf(i, j, b + 1)) = (b + 1) - a
          BY <3>2, <4>7
        <5>2. DOMAIN TicksOf(i, j, b + 1) = 1 .. (b + 1) - a
          BY <3>2, <4>7, <5>1
        <5>3. /\ (b + 1) - a \in 1 .. (b + 1) - a /\ (b + 1) - a > 1
              /\ a + ((b + 1) - a) = b + 1 /\ 1 \in 1 .. (b + 1) - a /\ 1 \in 1 .. b - a
          BY <3>2
        <5>4. TicksOf(i, j, b + 1)[(b + 1) - a] = ticks[b + 1]
          BY <3>2, <4>7, <5>3
        <5>5. TicksOf(i, j, b + 1)[1] = TicksOf(i, j, b)[1]
          BY <3>2, <4>7, <5>3
        <5>6. bars[j].start = TicksOf(i, j, b)[1].time
          BY <3>3 DEF Says
        <5> QED
          BY <3>5, <4>1, <4>6, <5>2, <5>3, <5>4, <5>5, <5>6 DEF B!Reached
      <4>9. ~B!Reached(s, TicksOf(i, j, b))
        <5>1. TicksOf(i, j, b) \in Seq(Feed)
          BY <3>2, <4>7
        <5> QED
          BY <2>1, <3>0, <3>3, <3>5, <5>1, NotReachedYet
      <4> QED
        BY <2>l, <4>6, <4>7, <4>8, <4>9 DEF s, bars
    <3> QED
      BY <3>4, <3>5
  <2>6. ASSUME NEW j \in DOMAIN now \ DOMAIN bars PROVE Waits(i, j)
    <3>1. s.active /\ j = n + 1 /\ now[j] = s.current /\ Len(now) = j
      BY <2>n, <2>2, <2>6
    <3>2. TicksOf(i, j, l) \in Seq(Feed) /\ Fits(Kind(s), s.current, TicksOf(i, j, l))
      BY <2>3, <3>1 DEF SliceOf
    <3>3. /\ s.type = "Range" => B!BarRange(s.current) < s.threshold
          /\ s.type = "Volume" => s.current.volume < s.threshold
      BY <2>1, <3>1 DEF ClosedOnThreshold, ClosedOnRange, ClosedOnVolume
    <3>4. ~B!Reached(s, TicksOf(i, j, l))
      BY <2>1, <3>2, <3>3, NotReachedYet DEF Fits
    <3> QED
      BY <2>l, <3>4 DEF s
  <2> QED
    BY <2>5, <2>6 DEF bars, now
<1>2. SeriesTypes /\ Thresholds /\ Partitions => BarsCloseOnThreshold
  BY <1>1 DEF BarsCloseOnThreshold
<1> QED
  BY <1>2, PartitionsHold, PTL

(* What BarRecord::cvd really says, of a bar that is open or completed:    *)
(* the bar's delta as it stood after every tick of the bar, added up.  The *)
(* deltas of earlier bars play no part in it (start_bar() at               *)
(* bar_engine.h:72 forgets them), and a tick is counted once for every     *)
(* tick of the bar from itself on (update_bar() at :93).                   *)
BarCvdAddsUp ==
  \A i \in DOMAIN series : \A j \in DOMAIN BarsNow(i) :
    BarsNow(i)[j].cvd = B!SumOf(RunningDeltas(SliceOf(i, j)))

THEOREM BarCvdAlwaysAddsUp == Spec => []BarCvdAddsUp
<1>1. SeriesTypes /\ Partitions => BarCvdAddsUp
  BY EveryBarSays DEF BarCvdAddsUp, Says, Sums
<1> QED
  BY <1>1, PartitionsHold, PTL

---------------------------------------------------------------------------
(* Sums over a finite set, which is any order of its elements: f gives for *)
(* every subset of Q the sum of v over it.                                 *)
One(s) == CHOOSE x \in s : TRUE

SumsUp(f, v, Q) ==
  f = [s \in SUBSET Q |-> IF s = {} THEN 0 ELSE v[One(s)] + f[s \ {One(s)}]]

LEMMA SubsetInduction ==
  ASSUME NEW Q, IsFiniteSet(Q), NEW T, {} \in T,
         \A s \in SUBSET Q : (\A x \in s : s \ {x} \in T) => s \in T
  PROVE  \A s \in SUBSET Q : s \in T
<1> DEFINE N == {n \in Nat : \A s \in SUBSET Q : Cardinality(s) = n => s \in T}
<1>1. \A s \in SUBSET Q : IsFiniteSet(s) /\ Cardinality(s) \in Nat
  BY FS_Subset, FS_CardinalityType
<1>2. 0 \in N
  BY <1>1, FS_EmptySet
<1>3. ASSUME NEW n \in Nat, n \in N PROVE n + 1 \in N
  <2>1. ASSUME NEW s \in SUBSET Q, Cardinality(s) = n + 1 PROVE s \in T
    <3>1. ASSUME NEW x \in s PROVE s \ {x} \in T
      <4>1. Cardinality(s \ {x}) = n
        BY <1>1, <2>1, FS_RemoveElement
      <4> QED
        BY <1>3, <4>1
    <3> QED
      BY <3>1
  <2> QED
    BY <2>1
<1>4. \A n \in Nat : n \in N
  <2> HIDE DEF N
  <2> QED
    BY <1>2, <1>3, Induction
<1> QED
  BY <1>1, <1>4

LEMMA SumsExist == ASSUME NEW Q, IsFiniteSet(Q), NEW v PROVE \E f : SumsUp(f, v, Q)
<1> DEFINE Small(n) == {s \in SUBSET Q : Cardinality(s) <= n}
           UpTo(f, n) == f = [s \in Small(n) |->
                                IF s = {} THEN 0 ELSE v[One(s)] + f[s \ {One(s)}]]
           N == {n \in Nat : \E f : UpTo(f, n)}
<1>1. \A s \in SUBSET Q : IsFiniteSet(s) /\ Cardinality(s) \in Nat
  BY FS_Subset, FS_CardinalityType
<1>2. \A s \in SUBSET Q : s # {} => One(s) \in s
  BY DEF One
<1>3. 0 \in N
  <2> DEFINE f == [s \in Small(0) |-> 0]
  <2>1. \A s \in Small(0) : s = {}
    BY <1>1, FS_EmptySet
  <2>2. UpTo(f, 0)
    BY <2>1
  <2> HIDE DEF f, UpTo
  <2> QED
    BY <2>2
<1>4. ASSUME NEW n \in Nat, n \in N PROVE n + 1 \in N
  <2>1. PICK f : UpTo(f, n)
    BY <1>4
  <2> DEFINE g == [s \in Small(n + 1) |->
                     IF Cardinality(s) <= n THEN f[s] ELSE v[One(s)] + f[s \ {One(s)}]]
  <2>2. ASSUME NEW s \in Small(n + 1)
        PROVE  g[s] = IF s = {} THEN 0 ELSE v[One(s)] + g[s \ {One(s)}]
    <3>1. s # {} => /\ s \ {One(s)} \in SUBSET Q
                    /\ Cardinality(s \ {One(s)}) = Cardinality(s) - 1
      BY <1>1, <1>2, FS_RemoveElement
    <3>2. s # {} => s \ {One(s)} \in Small(n) /\ g[s \ {One(s)}] = f[s \ {One(s)}]
      BY <1>1, <3>1
    <3>3. CASE Cardinality(s) <= n
      <4>1. f[s] = IF s = {} THEN 0 ELSE v[One(s)] + f[s \ {One(s)}]
        BY <2>1, <3>3
      <4> QED
        BY <3>2, <3>3, <4>1
    <3>4. CASE ~(Cardinality(s) <= n)
      <4>1. s # {}
        BY <1>1, <3>4, FS_EmptySet
      <4> QED
        BY <3>2, <3>4, <4>1
    <3> QED
      BY <3>3, <3>4
  <2>3. UpTo(g, n + 1)
    BY <2>2
  <2> HIDE DEF g, UpTo
  <2> QED
    BY <2>3
<1>5. Cardinality(Q) \in N
  <2>1. Cardinality(Q) \in Nat
    BY FS_CardinalityType
  <2> HIDE DEF N
  <2> QED
    BY <1>3, <1>4, <2>1, Induction
<1>6. PICK f : UpTo(f, Cardinality(Q))
  BY <1>5
<1>7. Small(Cardinality(Q)) = SUBSET Q
  BY <1>1, FS_Subset
<1> QED
  BY <1>6, <1>7 DEF SumsUp

LEMMA SumsAreIntegers ==
  ASSUME NEW Q, IsFiniteSet(Q), NEW v, NEW f, SumsUp(f, v, Q), \A x \in Q : v[x] \in Int
  PROVE  \A s \in SUBSET Q : f[s] \in Int
<1> DEFINE T == {s \in SUBSET Q : f[s] \in Int}
<1>1. ASSUME NEW s \in SUBSET Q, \A x \in s : s \ {x} \in T PROVE s \in T
  <2>1. CASE s = {}
    BY <2>1 DEF SumsUp
  <2>2. CASE s # {}
    <3>1. One(s) \in s
      BY <2>2 DEF One
    <3>2. f[s] = v[One(s)] + f[s \ {One(s)}]
      BY <2>2 DEF SumsUp
    <3>3. f[s \ {One(s)}] \in Int /\ v[One(s)] \in Int
      BY <1>1, <3>1
    <3> QED
      BY <3>2, <3>3
  <2> QED
    BY <2>1, <2>2
<1>2. {} \in T
  BY DEF SumsUp
<1>3. \A s \in SUBSET Q : s \in T
  <2> HIDE DEF T
  <2> QED
    BY <1>1, <1>2, SubsetInduction
<1> QED
  BY <1>3

(* One element may be taken out first.                                     *)
LEMMA SumTakesOut ==
  ASSUME NEW Q, IsFiniteSet(Q), NEW v, NEW f, SumsUp(f, v, Q), \A x \in Q : v[x] \in Int
  PROVE  \A s \in SUBSET Q : \A x \in s : f[s] = v[x] + f[s \ {x}]
<1> DEFINE T == {s \in SUBSET Q : \A x \in s : f[s] = v[x] + f[s \ {x}]}
<1>0. \A s \in SUBSET Q : f[s] \in Int
  BY SumsAreIntegers
<1>1. ASSUME NEW s \in SUBSET Q, \A x \in s : s \ {x} \in T PROVE s \in T
  <2> SUFFICES ASSUME NEW x \in s PROVE f[s] = v[x] + f[s \ {x}]
    OBVIOUS
  <2> DEFINE a == One(s)
  <2>1. a \in s
    BY DEF One
  <2>2. f[s] = v[a] + f[s \ {a}]
    BY DEF SumsUp
  <2> HIDE DEF a
  <2>3. CASE x = a
    BY <2>2, <2>3
  <2>4. CASE x # a
    <3> DEFINE r == (s \ {x}) \ {a}
    <3>1. f[s \ {a}] = v[x] + f[(s \ {a}) \ {x}]
      BY <1>1, <2>1, <2>4
    <3>2. f[s \ {x}] = v[a] + f[r]
      BY <1>1, <2>1, <2>4
    <3>3. (s \ {a}) \ {x} = r /\ r \in SUBSET Q
      OBVIOUS
    <3>4. f[r] \in Int /\ v[x] \in Int /\ v[a] \in Int
      BY <1>0, <2>1, <3>3
    <3>5. f[s \ {a}] = v[x] + f[r]
      BY <3>1, <3>3
    <3> DEFINE vx == v[x]
               va == v[a]
               fr == f[r]
    <3>6. f[s] = va + (vx + fr) /\ f[s \ {x}] = va + fr /\ vx \in Int /\ va \in Int /\ fr \in Int
      BY <2>2, <3>2, <3>4, <3>5
    <3> HIDE DEF vx, va, fr
    <3>7. f[s] = vx + f[s \ {x}]
      BY <3>6
    <3> QED
      BY <3>7 DEF vx
  <2> QED
    BY <2>3, <2>4
<1>2. {} \in T
  OBVIOUS
<1>3. \A s \in SUBSET Q : s \in T
  <2> HIDE DEF T
  <2> QED
    BY <1>1, <1>2, SubsetInduction
<1> QED
  BY <1>3

LEMMA SumsAgree ==
  ASSUME NEW Q, IsFiniteSet(Q), NEW R, Q \subseteq R, NEW v, NEW w, NEW f, NEW g,
         SumsUp(f, v, Q), SumsUp(g, w, R), \A x \in Q : v[x] = w[x]
  PROVE  f[Q] = g[Q]
<1> DEFINE T == {s \in SUBSET Q : f[s] = g[s]}
<1>1. ASSUME NEW s \in SUBSET Q, \A x \in s : s \ {x} \in T PROVE s \in T
  <2>1. CASE s = {}
    BY <2>1 DEF SumsUp
  <2>2. CASE s # {}
    <3>1. One(s) \in s
      BY <2>2 DEF One
    <3>2. f[s] = v[One(s)] + f[s \ {One(s)}]
      BY <2>2 DEF SumsUp
    <3>3. g[s] = w[One(s)] + g[s \ {One(s)}]
      <4>1. s \in SUBSET R
        OBVIOUS
      <4> QED
        BY <2>2, <4>1 DEF SumsUp
    <3> QED
      BY <1>1, <3>1, <3>2, <3>3
  <2> QED
    BY <2>1, <2>2
<1>2. {} \in T
  BY DEF SumsUp
<1>3. \A s \in SUBSET Q : s \in T
  <2> HIDE DEF T
  <2> QED
    BY <1>1, <1>2, SubsetInduction
<1> QED
  BY <1>3

---------------------------------------------------------------------------
(* The sum over the pairs of trades, and what one more trade adds to it.   *)
PairsOf(t) == {x \in (DOMAIN t) \X (DOMAIN t) : x[1] < x[2]}

Weight(t, i, j) == t[i].size * t[j].size * (t[i].price - t[j].price) * (t[i].price - t[j].price)

PairSum(t) ==
  MapThenSumSet(LAMBDA x : t[x[1]].size * t[x[2]].size
                  * (t[x[1]].price - t[x[2]].price) * (t[x[1]].price - t[x[2]].price), PairsOf(t))

Weights(t) == [x \in PairsOf(t) |-> Weight(t, x[1], x[2])]

LEMMA PairsFinite ==
  ASSUME NEW n \in Nat, NEW t, DOMAIN t = 1 .. n
  PROVE  IsFiniteSet(PairsOf(t))
<1>1. IsFiniteSet(1 .. n)
  BY FS_Interval
<1>2. IsFiniteSet((1 .. n) \X (1 .. n))
  BY <1>1, FS_Product
<1>3. PairsOf(t) \in SUBSET ((1 .. n) \X (1 .. n))
  BY DEF PairsOf
<1> QED
  BY <1>2, <1>3, FS_Subset

LEMMA PairSumIsSum ==
  ASSUME NEW n \in Nat, NEW t, DOMAIN t = 1 .. n
  PROVE  \E f : SumsUp(f, Weights(t), PairsOf(t)) /\ PairSum(t) = f[PairsOf(t)]
<1> DEFINE Sum(f) == f = [s \in SUBSET PairsOf(t) |->
                          IF s = {} THEN 0
                          ELSE (t[One(s)[1]].size * t[One(s)[2]].size
                                 * (t[One(s)[1]].price - t[One(s)[2]].price)
                                 * (t[One(s)[1]].price - t[One(s)[2]].price))
                               + f[s \ {One(s)}]]
           f == CHOOSE f : Sum(f)
<1>1. \A s \in SUBSET PairsOf(t) : s # {} => One(s) \in PairsOf(t)
  BY DEF One
<1>2. \A s \in SUBSET PairsOf(t) : s # {} =>
        Weights(t)[One(s)] = t[One(s)[1]].size * t[One(s)[2]].size
                                 * (t[One(s)[1]].price - t[One(s)[2]].price)
                                 * (t[One(s)[1]].price - t[One(s)[2]].price)
  BY <1>1, Zenon DEF Weights, Weight
<1>3. \A h : SumsUp(h, Weights(t), PairsOf(t)) <=> Sum(h)
  BY <1>2 DEF SumsUp
<1>4. Sum(f)
  BY <1>3, SumsExist, PairsFinite
<1>5. PairSum(t) = f[PairsOf(t)]
  BY Zenon DEF PairSum, MapThenSumSet, MapThenFoldSet, One
<1> QED
  BY <1>3, <1>4, <1>5

LEMMA WeightsTyped ==
  ASSUME NEW t \in Seq(Feed)
  PROVE  \A i, j \in DOMAIN t : Weight(t, i, j) \in Int
<1> SUFFICES ASSUME NEW i \in DOMAIN t, NEW j \in DOMAIN t PROVE Weight(t, i, j) \in Int
  OBVIOUS
<1>1. t[i].size \in Int /\ t[j].size \in Int /\ t[i].price \in Int /\ t[j].price \in Int
  BY TickOfSlice DEF TickTyped
<1> QED
  BY <1>1 DEF Weight

LEMMA PairSumMore ==
  ASSUME NEW t \in Seq(Feed), NEW tick \in Feed
  PROVE  LET more == Append(t, tick)
         IN  /\ PairSum(t) \in Int
             /\ PairSum(more) = PairSum(t)
                  + B!SumOf([i \in 1 .. Len(t) |-> Weight(more, i, Len(t) + 1)])
<1>n. PICK n \in Nat : n = Len(t) /\ DOMAIN t = 1 .. n
  BY LenProperties
<1> DEFINE more == Append(t, tick)
           a == [i \in 1 .. n |-> Weight(more, i, n + 1)]
           New(k) == {<<i, n + 1>> : i \in 1 .. k}
<1>1. /\ more \in Seq(Feed) /\ DOMAIN more = 1 .. n + 1
      /\ \A k \in 1 .. n : more[k] = t[k]
  BY <1>n, AppendProperties, LenProperties
<1> HIDE DEF more
<1>2. PICK f : SumsUp(f, Weights(t), PairsOf(t)) /\ PairSum(t) = f[PairsOf(t)]
  BY <1>n, PairSumIsSum
<1>3. PICK g : SumsUp(g, Weights(more), PairsOf(more)) /\ PairSum(more) = g[PairsOf(more)]
  BY <1>1, PairSumIsSum
<1>4. PICK r : Runs(r, a, n) /\ B!SumOf(a) = r[n]
  <2>1. DOMAIN a = 1 .. n
    OBVIOUS
  <2> HIDE DEF a
  <2> QED
    BY <2>1, SumRuns
<1>5. IsFiniteSet(PairsOf(t)) /\ IsFiniteSet(PairsOf(more))
  BY <1>n, <1>1, PairsFinite
<1>6. PairsOf(t) \subseteq PairsOf(more) /\ \A x \in PairsOf(t) : Weights(t)[x] = Weights(more)[x]
  BY <1>n, <1>1 DEF PairsOf, Weights, Weight
<1>7. f[PairsOf(t)] = g[PairsOf(t)]
  BY <1>2, <1>3, <1>5, <1>6, SumsAgree
<1>8. \A x \in PairsOf(t) : Weights(t)[x] \in Int
  BY WeightsTyped DEF Weights, PairsOf
<1>9. \A x \in PairsOf(more) : Weights(more)[x] \in Int
  BY <1>1, WeightsTyped DEF Weights, PairsOf
<1>10. PairSum(t) \in Int
  BY <1>2, <1>5, <1>8, SumsAreIntegers
<1>11. \A k \in 0 .. n : PairsOf(t) \cup New(k) \in SUBSET PairsOf(more)
  BY <1>n, <1>1, <1>6 DEF PairsOf
<1>out. \A u \in SUBSET PairsOf(more) : \A y \in u : g[u] = Weights(more)[y] + g[u \ {y}]
  <2> DEFINE w == Weights(more)
             Q == PairsOf(more)
  <2>1. SumsUp(g, w, Q) /\ IsFiniteSet(Q) /\ \A x \in Q : w[x] \in Int
    BY <1>3, <1>5, <1>9
  <2> HIDE DEF w, Q
  <2>2. ASSUME NEW u \in SUBSET Q, NEW y \in u PROVE g[u] = w[y] + g[u \ {y}]
    BY <2>1, SumTakesOut
  <2> QED
    BY <2>2 DEF w, Q
<1> DEFINE T == {k \in Nat : k <= n => g[PairsOf(t) \cup New(k)] = PairSum(t) + r[k]}
<1>12. 0 \in T
  <2>1. PairsOf(t) \cup New(0) = PairsOf(t)
    OBVIOUS
  <2>2. r[0] = 0
    BY <1>4 DEF Runs
  <2>3. g[PairsOf(t) \cup New(0)] = PairSum(t)
    BY <1>2, <1>7, <2>1
  <2>4. g[PairsOf(t) \cup New(0)] = PairSum(t) + r[0]
    BY <1>10, <2>2, <2>3
  <2> QED
    BY <2>4
<1>13. ASSUME NEW k \in Nat, k \in T PROVE k + 1 \in T
  <2> SUFFICES ASSUME k + 1 <= n
               PROVE  g[PairsOf(t) \cup New(k + 1)] = PairSum(t) + r[k + 1]
    OBVIOUS
  <2> DEFINE x == <<k + 1, n + 1>>
             s == PairsOf(t) \cup New(k + 1)
  <2>1. k + 1 \in 1 .. n /\ (k + 1) - 1 = k /\ k + 1 \in 0 .. n
    OBVIOUS
  <2>2. s \ {x} = PairsOf(t) \cup New(k)
    <3>1. New(k + 1) = New(k) \cup {x}
      OBVIOUS
    <3>2. x \notin PairsOf(t)
      BY <1>n DEF PairsOf
    <3>3. x \notin New(k)
      OBVIOUS
    <3> HIDE DEF New, x
    <3> QED
      BY <3>1, <3>2, <3>3
  <2>3. x \in s /\ s \in SUBSET PairsOf(more)
    BY <1>11, <2>1
  <2>4. Weights(more)[x] = a[k + 1]
    BY <2>1, <2>3 DEF Weights
  <2>5. g[s] = Weights(more)[x] + g[s \ {x}]
    <3> HIDE DEF x, s
    <3> QED
      BY <1>out, <2>3
  <2>6. g[s \ {x}] = PairSum(t) + r[k]
    <3> HIDE DEF New, s, x
    <3>1. k <= n
      BY <2>1
    <3>2. g[PairsOf(t) \cup New(k)] = PairSum(t) + r[k]
      BY <1>13, <3>1
    <3> QED
      BY <2>2, <3>2
  <2>7. r[k + 1] = r[k] + a[k + 1]
    <3> HIDE DEF a
    <3> QED
      BY <1>4, <2>1 DEF Runs
  <2>8. a[k + 1] \in Int /\ r[k] \in Int
    <3>1. \A i \in 1 .. n : a[i] \in Int
      <4>1. \A i \in 1 .. n + 1 : i \in DOMAIN more
        BY <1>1
      <4>2. \A i \in 1 .. n : i \in 1 .. n + 1 /\ n + 1 \in 1 .. n + 1
        OBVIOUS
      <4> QED
        BY <1>1, <4>1, <4>2, WeightsTyped
    <3>2. k \in 0 .. n
      BY <2>1
    <3> HIDE DEF a
    <3> QED
      BY <1>4, <2>1, <3>1, <3>2, RunsTyped
  <2> HIDE DEF s, x, a
  <2>9. g[s] = PairSum(t) + r[k + 1]
    BY <1>10, <2>4, <2>5, <2>6, <2>7, <2>8
  <2> QED
    BY <2>9 DEF s
<1>14. \A k \in Nat : k \in T
  <2> HIDE DEF T
  <2> QED
    BY <1>12, <1>13, Induction
<1>15. PairsOf(more) = PairsOf(t) \cup New(n)
  BY <1>n, <1>1 DEF PairsOf
<1>16. PairSum(more) = PairSum(t) + B!SumOf(a)
  <2> HIDE DEF New, a
  <2>1. g[PairsOf(t) \cup New(n)] = PairSum(t) + r[n]
    BY <1>14
  <2> QED
    BY <1>3, <1>4, <1>15, <2>1
<1> QED
  BY <1>n, <1>10, <1>16 DEF more

---------------------------------------------------------------------------
(* The three sums of the engine, and the spread of a price against them.   *)
Sizes(t) == [i \in DOMAIN t |-> t[i].size]
Values(t) == [i \in DOMAIN t |-> t[i].price * t[i].size]
Squares(t) == [i \in DOMAIN t |-> t[i].price * t[i].price * t[i].size]

VwapOver(v, t) ==
  /\ v.volume = B!SumOf(Sizes(t))
  /\ v.priceVolume = B!SumOf(Values(t))
  /\ v.price2Volume = B!SumOf(Squares(t))

(* size * (p - price)^2 * volume, multiplied out.                          *)
LEMMA SpreadOfOne ==
  ASSUME NEW q \in Int, NEW c \in Int, NEW a \in Int, NEW s \in Int, NEW p \in Int,
         NEW price \in Int, NEW volume \in Int
  PROVE  volume * (q + price * price * a - 2 * price * c)
           + s * volume * (p - price) * (p - price)
         = volume * ((q + p * p * s) + price * price * (a + s) - 2 * price * (c + p * s))
OBVIOUS

LEMMA VarianceOfOne ==
  ASSUME NEW q \in Int, NEW c \in Int, NEW a \in Int,
         NEW price \in Int, NEW volume \in Int
  PROVE  (q + price * price * volume) * (a + volume)
           - (c + price * volume) * (c + price * volume)
         = (q * a - c * c) + volume * (q + price * price * a - 2 * price * c)
OBVIOUS

LEMMA SumsTyped ==
  ASSUME NEW t \in Seq(Feed)
  PROVE  /\ \A i \in DOMAIN t : /\ Sizes(t)[i] \in Int /\ Values(t)[i] \in Int
                                /\ Squares(t)[i] \in Int
         /\ B!SumOf(Sizes(t)) \in Int /\ B!SumOf(Values(t)) \in Int
         /\ B!SumOf(Squares(t)) \in Int
<1>n. PICK n \in Nat : n = Len(t) /\ DOMAIN t = 1 .. n
  BY LenProperties
<1>1. ASSUME NEW i \in DOMAIN t
      PROVE  Sizes(t)[i] \in Int /\ Values(t)[i] \in Int /\ Squares(t)[i] \in Int
  <2>1. t[i].size \in Int /\ t[i].price \in Int
    BY TickOfSlice DEF TickTyped
  <2> QED
    BY <2>1 DEF Sizes, Values, Squares
<1>2. DOMAIN Sizes(t) = 1 .. n /\ DOMAIN Values(t) = 1 .. n /\ DOMAIN Squares(t) = 1 .. n
  BY <1>n DEF Sizes, Values, Squares
<1>3. B!SumOf(Sizes(t)) \in Int
  BY <1>n, <1>1, <1>2, SumTyped
<1>4. B!SumOf(Values(t)) \in Int
  BY <1>n, <1>1, <1>2, SumTyped
<1>5. B!SumOf(Squares(t)) \in Int
  BY <1>n, <1>1, <1>2, SumTyped
<1> QED
  BY <1>1, <1>3, <1>4, <1>5

LEMMA SpreadIs ==
  ASSUME NEW t \in Seq(Feed), NEW price \in Int, NEW volume \in Int,
         NEW a, DOMAIN a = 1 .. Len(t),
         \A i \in 1 .. Len(t) :
           a[i] = t[i].size * volume * (t[i].price - price) * (t[i].price - price)
  PROVE  B!SumOf(a) = volume * (B!SumOf(Squares(t)) + price * price * B!SumOf(Sizes(t))
                                  - 2 * price * B!SumOf(Values(t)))
<1>n. PICK n \in Nat : n = Len(t) /\ DOMAIN t = 1 .. n
  BY LenProperties
<1>0. DOMAIN Sizes(t) = 1 .. n /\ DOMAIN Values(t) = 1 .. n /\ DOMAIN Squares(t) = 1 .. n
  BY <1>n DEF Sizes, Values, Squares
<1>1. PICK rs : Runs(rs, Sizes(t), n) /\ B!SumOf(Sizes(t)) = rs[n]
  BY <1>0, SumRuns
<1>2. PICK rv : Runs(rv, Values(t), n) /\ B!SumOf(Values(t)) = rv[n]
  BY <1>0, SumRuns
<1>3. PICK rq : Runs(rq, Squares(t), n) /\ B!SumOf(Squares(t)) = rq[n]
  BY <1>0, SumRuns
<1>4. PICK ra : Runs(ra, a, n) /\ B!SumOf(a) = ra[n]
  BY <1>n, SumRuns
<1>5. \A i \in 1 .. n : Sizes(t)[i] \in Int /\ Values(t)[i] \in Int /\ Squares(t)[i] \in Int
  BY <1>n, SumsTyped
<1>6. \A k \in 0 .. n : rs[k] \in Int /\ rv[k] \in Int /\ rq[k] \in Int
  BY <1>1, <1>2, <1>3, <1>5, RunsTyped
<1> DEFINE Is(k) == ra[k] = volume * (rq[k] + price * price * rs[k] - 2 * price * rv[k])
           T == {k \in Nat : k <= n => Is(k)}
<1>7. 0 \in T
  <2>1. ra[0] = 0 /\ rq[0] = 0 /\ rs[0] = 0 /\ rv[0] = 0
    BY <1>1, <1>2, <1>3, <1>4 DEF Runs
  <2> QED
    BY <2>1
<1>8. ASSUME NEW k \in Nat, k \in T PROVE k + 1 \in T
  <2>1. ASSUME k + 1 <= n PROVE Is(k + 1)
    <3> DEFINE s == t[k + 1].size
               p == t[k + 1].price
               q0 == rq[k]
               s0 == rs[k]
               v0 == rv[k]
    <3>1. k + 1 \in 1 .. n /\ (k + 1) - 1 = k /\ k \in 0 .. n /\ k + 1 \in DOMAIN t
      BY <1>n, <2>1
    <3>2. s \in Int /\ p \in Int
      BY <3>1, TickOfSlice DEF TickTyped
    <3>3. rs[k + 1] = s0 + s
      BY <1>1, <3>1 DEF Runs, Sizes
    <3>4. rv[k + 1] = v0 + p * s
      BY <1>2, <3>1 DEF Runs, Values
    <3>5. rq[k + 1] = q0 + p * p * s
      BY <1>3, <3>1 DEF Runs, Squares
    <3>6. a[k + 1] = s * volume * (p - price) * (p - price)
      BY <1>n, <3>1
    <3>7. ra[k + 1] = ra[k] + s * volume * (p - price) * (p - price)
      BY <1>4, <3>1, <3>6 DEF Runs
    <3>8. ra[k] = volume * (q0 + price * price * s0 - 2 * price * v0)
      BY <1>8, <2>1
    <3>9. q0 \in Int /\ s0 \in Int /\ v0 \in Int
      BY <1>6, <3>1
    <3> HIDE DEF s, p, q0, s0, v0
    <3>10. volume * (q0 + price * price * s0 - 2 * price * v0)
             + s * volume * (p - price) * (p - price)
           = volume * ((q0 + p * p * s) + price * price * (s0 + s) - 2 * price * (v0 + p * s))
      BY <3>2, <3>9, SpreadOfOne
    <3> QED
      BY <3>3, <3>4, <3>5, <3>7, <3>8, <3>10
  <2> HIDE DEF Is
  <2> QED
    BY <2>1
<1>9. \A k \in Nat : k \in T
  <2> HIDE DEF T
  <2> QED
    BY <1>7, <1>8, Induction
<1>10. Is(n)
  <2> HIDE DEF Is
  <2> QED
    BY <1>9
<1> QED
  BY <1>1, <1>2, <1>3, <1>4, <1>10

LEMMA VwapStarts ==
  VwapOver(V!ResetVwap, << >>) /\ V!ScaledVariance(V!ResetVwap) = PairSum(<< >>)
<1>1. DOMAIN << >> = 1 .. 0
  OBVIOUS
<1>2. /\ B!SumOf(Sizes(<< >>)) = 0 /\ B!SumOf(Values(<< >>)) = 0
      /\ B!SumOf(Squares(<< >>)) = 0
  <2>1. /\ DOMAIN Sizes(<< >>) = 1 .. 0 /\ DOMAIN Values(<< >>) = 1 .. 0
        /\ DOMAIN Squares(<< >>) = 1 .. 0
    BY <1>1 DEF Sizes, Values, Squares
  <2> QED
    BY <2>1, SumOfNone
<1>3. PairsOf(<< >>) = {}
  BY DEF PairsOf
<1>4. PairSum(<< >>) = 0
  <2>1. PICK f : /\ SumsUp(f, Weights(<< >>), PairsOf(<< >>))
                 /\ PairSum(<< >>) = f[PairsOf(<< >>)]
    BY <1>1, PairSumIsSum
  <2> QED
    BY <1>3, <2>1 DEF SumsUp
<1> QED
  BY <1>2, <1>4 DEF VwapOver, V!ResetVwap, V!ScaledVariance

LEMMA VwapFollows ==
  ASSUME NEW v \in VwapStates, NEW t \in Seq(Feed), NEW tick \in Feed,
         VwapOver(v, t), V!ScaledVariance(v) = PairSum(t)
  PROVE  LET w == V!AddTrade(v, tick.price, tick.size)
             more == Append(t, tick)
         IN  VwapOver(w, more) /\ V!ScaledVariance(w) = PairSum(more)
<1>n. PICK n \in Nat : n = Len(t) /\ DOMAIN t = 1 .. n
  BY LenProperties
<1> DEFINE w == V!AddTrade(v, tick.price, tick.size)
           more == Append(t, tick)
           price == tick.price
           volume == tick.size
           q == v.price2Volume
           c == v.priceVolume
           s == v.volume
           a == [i \in 1 .. n |-> Weight(more, i, n + 1)]
<1>1. /\ price \in Int /\ volume \in Nat
      /\ q \in Int /\ c \in Int /\ s \in Nat
  BY FeedTyped DEF TickTyped, VwapStates
<1>2. /\ w.volume = s + volume /\ w.priceVolume = c + price * volume
      /\ w.price2Volume = q + price * price * volume
  <2>1. CASE volume <= 0
    <3>1. w = v /\ volume = 0
      BY <1>1, <2>1 DEF V!AddTrade
    <3> QED
      BY <1>1, <3>1
  <2>2. CASE ~(volume <= 0)
    BY <2>2 DEF V!AddTrade
  <2> QED
    BY <2>1, <2>2
<1>3. /\ DOMAIN more = 1 .. n + 1 /\ more[n + 1] = tick
      /\ \A k \in 1 .. n : more[k] = t[k]
  BY <1>n, AppendProperties, LenProperties
<1> HIDE DEF more, w
<1>4. /\ B!SumOf(Sizes(more)) = B!SumOf(Sizes(t)) + volume
      /\ B!SumOf(Values(more)) = B!SumOf(Values(t)) + price * volume
      /\ B!SumOf(Squares(more)) = B!SumOf(Squares(t)) + price * price * volume
  <2>1. /\ DOMAIN Sizes(t) = 1 .. n /\ DOMAIN Sizes(more) = 1 .. n + 1
        /\ Sizes(more)[n + 1] = volume /\ \A k \in 1 .. n : Sizes(more)[k] = Sizes(t)[k]
    BY <1>n, <1>3 DEF Sizes
  <2>2. /\ DOMAIN Values(t) = 1 .. n /\ DOMAIN Values(more) = 1 .. n + 1
        /\ Values(more)[n + 1] = price * volume
        /\ \A k \in 1 .. n : Values(more)[k] = Values(t)[k]
    BY <1>n, <1>3 DEF Values
  <2>3. /\ DOMAIN Squares(t) = 1 .. n /\ DOMAIN Squares(more) = 1 .. n + 1
        /\ Squares(more)[n + 1] = price * price * volume
        /\ \A k \in 1 .. n : Squares(more)[k] = Squares(t)[k]
    BY <1>n, <1>3 DEF Squares
  <2>4. B!SumOf(Sizes(more)) = B!SumOf(Sizes(t)) + volume
    BY <2>1, SumOfMore
  <2>5. B!SumOf(Values(more)) = B!SumOf(Values(t)) + price * volume
    BY <2>2, SumOfMore
  <2>6. B!SumOf(Squares(more)) = B!SumOf(Squares(t)) + price * price * volume
    BY <2>3, SumOfMore
  <2> QED
    BY <2>4, <2>5, <2>6
<1>5. VwapOver(w, more)
  BY <1>2, <1>4 DEF VwapOver
<1>6. PairSum(more) = PairSum(t) + B!SumOf(a)
  BY <1>n, PairSumMore DEF more
<1>7. B!SumOf(a) = volume * (q + price * price * s - 2 * price * c)
  <2>1. \A i \in 1 .. n :
          a[i] = t[i].size * volume * (t[i].price - price) * (t[i].price - price)
    BY <1>3 DEF Weight
  <2>2. DOMAIN a = 1 .. n
    OBVIOUS
  <2>3. q = B!SumOf(Squares(t)) /\ c = B!SumOf(Values(t)) /\ s = B!SumOf(Sizes(t))
    BY DEF VwapOver
  <2> HIDE DEF a, q, c, s, price, volume
  <2>4. B!SumOf(a) = volume * (B!SumOf(Squares(t)) + price * price * B!SumOf(Sizes(t))
                                  - 2 * price * B!SumOf(Values(t)))
    <3>1. price \in Int /\ volume \in Int
      BY <1>1
    <3>2. DOMAIN a = 1 .. Len(t)
      BY <1>n, <2>2
    <3>3. \A i \in 1 .. Len(t) :
            a[i] = t[i].size * volume * (t[i].price - price) * (t[i].price - price)
      BY <1>n, <2>1
    <3> QED
      BY <3>1, <3>2, <3>3, SpreadIs
  <2> QED
    BY <2>3, <2>4
<1>8. /\ V!ScaledVariance(v) = q * s - c * c
      /\ V!ScaledVariance(w) = (q + price * price * volume) * (s + volume)
                                 - (c + price * volume) * (c + price * volume)
  BY <1>2 DEF V!ScaledVariance
<1> HIDE DEF a, q, c, s, price, volume
<1>9. V!ScaledVariance(w) = (q * s - c * c) + volume * (q + price * price * s - 2 * price * c)
  BY <1>1, <1>8, VarianceOfOne
<1>10. V!ScaledVariance(w) = PairSum(more)
  BY <1>6, <1>7, <1>8, <1>9
<1> QED
  BY <1>5, <1>10 DEF w, more

SessionTrades ==
  /\ session.ticks \in Nat /\ session.ticks <= Len(ticks)
  /\ VwapOver(vwap, SessionTicks)
  /\ V!ScaledVariance(vwap) = PairSum(SessionTicks)

LEMMA SessionTradesStart == Init => SessionTrades
<1> SUFFICES ASSUME Init PROVE SessionTrades
  OBVIOUS
<1>1. SessionTicks = << >>
  BY DEF Init, SessionTicks
<1> QED
  BY <1>1, VwapStarts DEF Init, SessionTrades

LEMMA SessionTradesStep ==
  SeriesTypes /\ EnginesHold /\ SessionTrades /\ [Next]_vars => SessionTrades'
<1> SUFFICES ASSUME SeriesTypes, EnginesHold, SessionTrades, [Next]_vars PROVE SessionTrades'
  OBVIOUS
<1>1. ticks \in Seq(Feed) /\ Len(ticks) \in Nat /\ SessionTicks \in Seq(Feed)
  BY LenProperties, RestTyped DEF SeriesTypes, SessionTicks, SessionTrades
<1>2. CASE Ingest
  <2>1. PICK tick \in Feed : /\ vwap' = V!AddTrade(vwap, tick.price, tick.size)
                             /\ ticks' = Append(ticks, tick)
    BY <1>2 DEF Ingest
  <2>2. session' = session /\ Len(ticks') = Len(ticks) + 1
    BY <1>1, <1>2, <2>1, AppendProperties DEF Ingest
  <2>3. SessionTicks' = Append(SessionTicks, tick)
    BY <1>1, <2>1, <2>2, RestGrows DEF SessionTicks, SessionTrades
  <2>4. VwapOver(vwap', SessionTicks') /\ V!ScaledVariance(vwap') = PairSum(SessionTicks')
    BY <1>1, <2>1, <2>3, VwapFollows DEF EnginesHold, SessionTrades
  <2> QED
    BY <1>1, <2>2, <2>4 DEF SessionTrades
<1>3. CASE ResetSession
  <2>1. vwap' = V!ResetVwap /\ ticks' = ticks /\ session'.ticks = Len(ticks)
    BY <1>3 DEF ResetSession
  <2>2. SessionTicks' = << >>
    BY <1>1, <2>1, RestEmpty DEF SessionTicks
  <2> QED
    BY <1>1, <2>1, <2>2, VwapStarts DEF SessionTrades
<1>4. CASE UNCHANGED <<vwap, ticks, session>>
  BY <1>4 DEF SessionTrades, SessionTicks
<1> QED
  BY <1>2, <1>3, <1>4 DEF Next, AddSeries, ReadCompleted, vars

LEMMA SessionTradesHold == Spec => []SessionTrades
<1>1. EnginesHold /\ [Next]_vars => EnginesHold'
  BY EnginesStep
<1> QED
  BY <1>1, SessionTradesStart, SessionTradesStep, EnginesStart, SeriesStayTyped, PTL DEF Spec

(* Whatever happened before and whatever compare() returned: the type of   *)
(* the signal tells what SignalFitsSession says of the session's ticks and *)
(* bars.  The engines keep no more of them than their sums, the point of   *)
(* control and the last two closes.                                        *)
THEOREM SignalAlwaysFitsSession == Spec => []SignalFitsSession
<1>1. ASSUME SeriesTypes, SessionAccount, SessionTrades, EnginesHold, ticks # << >>,
             NEW imbalance
      PROVE  LET bars == SessionBars
                 trades == SessionTicks
                 flow == IF bars = << >> THEN 0 ELSE B!Delta(Last(bars))
                 move == IF Len(bars) < 2 THEN 0 ELSE Last(bars).close - bars[Len(bars) - 1].close
                 lean == B!SumOf([k \in DOMAIN trades |-> trades[k].price * trades[k].size])
                           - Poc * B!SumOf([k \in DOMAIN trades |-> trades[k].size])
                 quote == Last(ticks).quote
                 price == Last(ticks).price
                 bought == price > quote.bid \/ price >= quote.ask
                 side == L!Classify(quote, price, L!NoOverride)
                 type == S!Evaluate(delta, imbalance, vwap, Poc, side).type
             IN  /\ type = "PulseLong" => flow > 0 \/ imbalance.buy \/ lean > 0
                 /\ type = "PulseShort" => flow < 0 \/ imbalance.sell \/ lean < 0
                 /\ type = "TurnLong" => move * flow > 0 \/ S!Abs(flow) > 1
                 /\ type = "TurnShort" => move * flow < 0 /\ S!Abs(move) > 1
                 /\ type = "CotLong" => bought
                 /\ type = "CotShort" => ~bought
  <2> DEFINE bars == SessionBars
             trades == SessionTicks
             flow == IF bars = << >> THEN 0 ELSE B!Delta(Last(bars))
             move == IF Len(bars) < 2 THEN 0 ELSE Last(bars).close - bars[Len(bars) - 1].close
             lean == B!SumOf([k \in DOMAIN trades |-> trades[k].price * trades[k].size])
                       - Poc * B!SumOf([k \in DOMAIN trades |-> trades[k].size])
             quote == Last(ticks).quote
             price == Last(ticks).price
             bought == price > quote.bid \/ price >= quote.ask
             side == L!Classify(quote, price, L!NoOverride)
             type == S!Evaluate(delta, imbalance, vwap, Poc, side).type
  <2>1. delta \in DeltaStates /\ vwap \in VwapStates /\ Poc \in Int
    BY <1>1, PocTyped DEF SessionAccount, EnginesHold
  <2>2. bars \in Seq(Bars) /\ DeltaOver(delta, bars)
    BY <1>1, FirstSeries DEF SessionAccount
  <2>3. flow = delta.barDelta
    BY <2>2 DEF DeltaOver, LastDelta
  <2>4. move \in Int /\ flow \in Int /\ delta.divergence = move * flow
    <3>1. Len(bars) \in Nat /\ DOMAIN bars = 1 .. Len(bars)
      BY <2>2, LenProperties
    <3>2. flow \in Int
      BY <2>1, <2>3 DEF DeltaStates
    <3>3. CASE Len(bars) < 2
      <4>1. move = 0 /\ delta.divergence = 0
        BY <2>2, <3>3 DEF DeltaOver
      <4> QED
        BY <3>2, <4>1
    <3>4. CASE ~(Len(bars) < 2)
      <4>1. bars # << >> /\ Len(bars) > 1 /\ Len(bars) \in DOMAIN bars /\ Len(bars) - 1 \in DOMAIN bars
        BY <3>1, <3>4, EmptySeq
      <4>2. Last(bars) = bars[Len(bars)]
        BY DEF Last
      <4>3. Last(bars).close \in Int /\ bars[Len(bars) - 1].close \in Int
        BY <2>2, <3>1, <4>1, <4>2, ElementOfSeq, DeltaTyped
      <4>4. flow = B!Delta(Last(bars)) /\ move = Last(bars).close - bars[Len(bars) - 1].close
        BY <3>4, <4>1
      <4>5. delta.divergence = (Last(bars).close - bars[Len(bars) - 1].close) * B!Delta(Last(bars))
        BY <2>2, <4>1 DEF DeltaOver
      <4> HIDE DEF flow, move
      <4> QED
        BY <3>2, <4>3, <4>4, <4>5
    <3> QED
      BY <3>3, <3>4
  <2>5. delta.surge = D!Larger(flow, -flow)
    BY <2>2, <2>3 DEF DeltaOver
  <2>6. lean = vwap.priceVolume - Poc * vwap.volume
    BY <1>1 DEF SessionTrades, VwapOver, Values, Sizes
  <2>7. lean \in Int
    <3>1. vwap.priceVolume \in Int /\ vwap.volume \in Int
      BY <2>1 DEF VwapStates
    <3> HIDE DEF lean
    <3> QED
      BY <2>1, <2>6, <3>1
  <2>8. side = IF bought THEN "buy" ELSE "sell"
    <3>1. ticks \in Seq(Feed) /\ Len(ticks) \in DOMAIN ticks
      BY <1>1, LenProperties, EmptySeq DEF SeriesTypes
    <3>2. TickTyped(Last(ticks))
      BY <3>1, TickOfSlice DEF Last
    <3> QED
      BY <3>2, SideIs DEF TickTyped
  <2>9. side \in L!Directions
    BY SideTyped
  <2> HIDE DEF bars, trades, flow, move, lean, quote, price, bought, side
  <2>10. /\ delta.barDelta >= 0 /\ ~imbalance.sell /\ lean >= 0 => type # "PulseShort"
         /\ delta.barDelta <= 0 /\ ~imbalance.buy /\ lean <= 0 => type # "PulseLong"
         /\ type = "TurnLong" => 2 * (delta.divergence + delta.surge) > S!Abs(delta.surge) + 1
         /\ type = "TurnShort" => 2 * (delta.divergence + delta.surge) < -(S!Abs(delta.surge) + 1)
         /\ type = "CotLong" => side = "buy"
         /\ type = "CotShort" => side = "sell"
    BY <2>1, <2>6, <2>9, TypeTells
  <2> HIDE DEF type
  <2>11. /\ type = "PulseLong" => flow > 0 \/ imbalance.buy \/ lean > 0
         /\ type = "PulseShort" => flow < 0 \/ imbalance.sell \/ lean < 0
    BY <2>3, <2>4, <2>7, <2>10
  <2>12. /\ type = "TurnLong" => move * flow > 0 \/ S!Abs(flow) > 1
         /\ type = "TurnShort" => move * flow < 0 /\ S!Abs(move) > 1
    BY <2>4, <2>5, <2>10, TurnNeeds
  <2>13. (type = "CotLong" => bought) /\ (type = "CotShort" => ~bought)
    BY <2>8, <2>10
  <2> QED
    BY <2>11, <2>12, <2>13 DEF bars, trades, flow, move, lean, quote, price, bought, side, type
<1>2. SeriesTypes /\ SessionAccount /\ SessionTrades /\ EnginesHold => SignalFitsSession
  BY <1>1, Zenon DEF SignalFitsSession
<1>3. EnginesHold /\ [Next]_vars => EnginesHold'
  BY EnginesStep
<1> QED
  BY <1>2, <1>3, EnginesStart, SessionAlwaysAccounts, SessionTradesHold, SeriesStayTyped,
     PTL DEF Spec

(* For every feed: the running sums of the VWAP engine give exactly the    *)
(* variance the pairs of the session's trades have.                        *)
THEOREM VarianceAlwaysExact == Spec => []VarianceExact
<1>1. SessionTrades => VarianceExact
  BY Zenon DEF SessionTrades, VarianceExact, PairSum, PairsOf
<1> QED
  BY <1>1, SessionTradesHold, PTL

---------------------------------------------------------------------------
(* The levels of a profile: what they hold together, the lowest and the    *)
(* highest of some of them.                                                *)
Profiles(f) == DOMAIN f \subseteq Int /\ IsFiniteSet(DOMAIN f) /\ \A p \in DOMAIN f : f[p] \in Nat

LEMMA LowestLevel ==
  ASSUME NEW Q, IsFiniteSet(Q), Q \subseteq Int, Q # {}
  PROVE  P!Min(Q) \in Q /\ \A y \in Q : P!Min(Q) <= y
<1> DEFINE T == {s \in SUBSET Q : s # {} => \E x \in s : \A y \in s : x <= y}
<1>1. ASSUME NEW s \in SUBSET Q, \A x \in s : s \ {x} \in T PROVE s \in T
  <2> SUFFICES ASSUME NEW x \in s PROVE \E z \in s : \A y \in s : z <= y
    OBVIOUS
  <2>1. CASE s \ {x} = {}
    <3>1. \A y \in s : x <= y
      BY <2>1
    <3> QED
      BY <3>1
  <2>2. CASE s \ {x} # {}
    <3>1. PICK z \in s \ {x} : \A y \in s \ {x} : z <= y
      BY <1>1, <2>2
    <3>2. x \in Int /\ z \in Int
      OBVIOUS
    <3>3. CASE z <= x
      <4>1. \A y \in s : z <= y
        BY <3>1, <3>3
      <4> QED
        BY <4>1
    <3>4. CASE ~(z <= x)
      <4>1. \A y \in s : x <= y
        <5> SUFFICES ASSUME NEW y \in s, y # x PROVE x <= y
          BY <3>2
        <5>1. y \in Int /\ z <= y
          BY <3>1
        <5> QED
          BY <3>2, <3>4, <5>1
      <4> QED
        BY <4>1
    <3> QED
      BY <3>3, <3>4
  <2> QED
    BY <2>1, <2>2
<1>2. {} \in T
  OBVIOUS
<1>3. \A s \in SUBSET Q : s \in T
  <2> HIDE DEF T
  <2> QED
    BY <1>1, <1>2, SubsetInduction
<1>4. \E x \in Q : \A y \in Q : x <= y
  BY <1>3
<1> QED
  BY <1>4, Zenon DEF P!Min

LEMMA HighestLevel ==
  ASSUME NEW Q, IsFiniteSet(Q), Q \subseteq Int, Q # {}
  PROVE  P!Max(Q) \in Q /\ \A y \in Q : P!Max(Q) >= y
<1> DEFINE T == {s \in SUBSET Q : s # {} => \E x \in s : \A y \in s : x >= y}
<1>1. ASSUME NEW s \in SUBSET Q, \A x \in s : s \ {x} \in T PROVE s \in T
  <2> SUFFICES ASSUME NEW x \in s PROVE \E z \in s : \A y \in s : z >= y
    OBVIOUS
  <2>1. CASE s \ {x} = {}
    <3>1. \A y \in s : x >= y
      BY <2>1
    <3> QED
      BY <3>1
  <2>2. CASE s \ {x} # {}
    <3>1. PICK z \in s \ {x} : \A y \in s \ {x} : z >= y
      BY <1>1, <2>2
    <3>2. x \in Int /\ z \in Int
      OBVIOUS
    <3>3. CASE z >= x
      <4>1. \A y \in s : z >= y
        BY <3>1, <3>3
      <4> QED
        BY <4>1
    <3>4. CASE ~(z >= x)
      <4>1. \A y \in s : x >= y
        <5> SUFFICES ASSUME NEW y \in s, y # x PROVE x >= y
          BY <3>2
        <5>1. y \in Int /\ z >= y
          BY <3>1
        <5> QED
          BY <3>2, <3>4, <5>1
      <4> QED
        BY <4>1
    <3> QED
      BY <3>3, <3>4
  <2> QED
    BY <2>1, <2>2
<1>2. {} \in T
  OBVIOUS
<1>3. \A s \in SUBSET Q : s \in T
  <2> HIDE DEF T
  <2> QED
    BY <1>1, <1>2, SubsetInduction
<1>4. \E x \in Q : \A y \in Q : x >= y
  BY <1>3
<1> QED
  BY <1>4, Zenon DEF P!Max

LEMMA VolumeIsSum ==
  ASSUME NEW f, NEW Q, IsFiniteSet(Q)
  PROVE  \E v : SumsUp(v, f, Q) /\ P!VolumeOf(f, Q) = v[Q]
<1> DEFINE v == CHOOSE v : SumsUp(v, f, Q)
<1>1. SumsUp(v, f, Q)
  BY SumsExist
<1>2. P!VolumeOf(f, Q) = v[Q]
  BY Zenon DEF P!VolumeOf, P!MapThenSumSet, P!MapThenFoldSet, SumsUp, One
<1> QED
  BY <1>1, <1>2

(* One sum gives the volume of every set of levels.                        *)
LEMMA VolumesAre ==
  ASSUME NEW f, IsFiniteSet(DOMAIN f)
  PROVE  \E v : /\ SumsUp(v, f, DOMAIN f)
                /\ \A s \in SUBSET DOMAIN f : P!VolumeOf(f, s) = v[s]
<1>1. PICK v : SumsUp(v, f, DOMAIN f)
  BY SumsExist
<1>2. ASSUME NEW s \in SUBSET DOMAIN f PROVE P!VolumeOf(f, s) = v[s]
  <2>1. IsFiniteSet(s)
    BY FS_Subset
  <2>2. PICK w : SumsUp(w, f, s) /\ P!VolumeOf(f, s) = w[s]
    BY <2>1, VolumeIsSum
  <2>3. w[s] = v[s]
    BY <1>1, <2>1, <2>2, SumsAgree
  <2> QED
    BY <2>2, <2>3
<1> QED
  BY <1>1, <1>2

LEMMA VolumeOfNone ==
  ASSUME NEW f, IsFiniteSet(DOMAIN f) PROVE P!VolumeOf(f, {}) = 0
<1>1. PICK v : SumsUp(v, f, DOMAIN f) /\ \A s \in SUBSET DOMAIN f : P!VolumeOf(f, s) = v[s]
  BY VolumesAre
<1>2. v[{}] = 0
  BY <1>1 DEF SumsUp
<1> QED
  BY <1>1, <1>2

LEMMA VolumeTakesOut ==
  ASSUME NEW f, Profiles(f), NEW s \in SUBSET DOMAIN f, NEW x \in s
  PROVE  /\ P!VolumeOf(f, s) = f[x] + P!VolumeOf(f, s \ {x})
         /\ P!VolumeOf(f, s) \in Int /\ P!VolumeOf(f, s \ {x}) \in Int
<1>1. PICK v : SumsUp(v, f, DOMAIN f) /\ \A u \in SUBSET DOMAIN f : P!VolumeOf(f, u) = v[u]
  BY VolumesAre DEF Profiles
<1>2. IsFiniteSet(DOMAIN f) /\ \A p \in DOMAIN f : f[p] \in Int
  BY DEF Profiles
<1>3. \A u \in SUBSET DOMAIN f : v[u] \in Int
  BY <1>1, <1>2, SumsAreIntegers
<1>4. v[s] = f[x] + v[s \ {x}]
  <2> DEFINE Q == DOMAIN f
  <2>1. IsFiniteSet(Q) /\ SumsUp(v, f, Q) /\ s \in SUBSET Q /\ \A y \in Q : f[y] \in Int
    BY <1>1, <1>2
  <2> HIDE DEF Q
  <2> QED
    BY <2>1, SumTakesOut
<1>5. s \ {x} \in SUBSET DOMAIN f
  OBVIOUS
<1> QED
  BY <1>1, <1>3, <1>4, <1>5

LEMMA MoreLevelsMoreVolume ==
  ASSUME NEW f, Profiles(f), NEW s \in SUBSET DOMAIN f, NEW u \in SUBSET s
  PROVE  /\ P!VolumeOf(f, u) \in Nat /\ P!VolumeOf(f, s) \in Nat
         /\ P!VolumeOf(f, u) <= P!VolumeOf(f, s)
<1> DEFINE Q == DOMAIN f
           Grows(a) == P!VolumeOf(f, a) \in Nat /\
                       \A b \in SUBSET a : P!VolumeOf(f, b) <= P!VolumeOf(f, a)
           T == {a \in SUBSET Q : Grows(a)}
<1>0. P!VolumeOf(f, {}) = 0
  BY VolumeOfNone DEF Profiles
<1>1. ASSUME NEW a \in SUBSET Q, \A x \in a : a \ {x} \in T PROVE a \in T
  <2>1. CASE a = {}
    BY <1>0, <2>1
  <2>2. CASE a # {}
    <3>1. ASSUME NEW x \in a
          PROVE  /\ P!VolumeOf(f, a) = f[x] + P!VolumeOf(f, a \ {x})
                 /\ f[x] \in Nat /\ P!VolumeOf(f, a \ {x}) \in Nat
                 /\ P!VolumeOf(f, a) \in Nat
                 /\ P!VolumeOf(f, a \ {x}) <= P!VolumeOf(f, a)
      <4>1. P!VolumeOf(f, a) = f[x] + P!VolumeOf(f, a \ {x})
        BY VolumeTakesOut
      <4>2. f[x] \in Nat
        BY DEF Profiles
      <4>3. P!VolumeOf(f, a \ {x}) \in Nat
        BY <1>1
      <4> DEFINE r == P!VolumeOf(f, a \ {x})
                 e == f[x]
      <4> HIDE DEF r, e
      <4>4. P!VolumeOf(f, a) = e + r /\ e \in Nat /\ r \in Nat
        BY <4>1, <4>2, <4>3 DEF e, r
      <4>5. P!VolumeOf(f, a) \in Nat /\ r <= P!VolumeOf(f, a)
        BY <4>4
      <4> QED
        BY <4>1, <4>2, <4>3, <4>5 DEF r
    <3>2. ASSUME NEW b \in SUBSET a, b # a PROVE P!VolumeOf(f, b) <= P!VolumeOf(f, a)
      <4>1. PICK x \in a : x \notin b
        BY <3>2
      <4>2. b \in SUBSET (a \ {x})
        BY <4>1
      <4>3. P!VolumeOf(f, b) <= P!VolumeOf(f, a \ {x}) /\ P!VolumeOf(f, b) \in Int
        <5>1. Grows(a \ {x})
          BY <1>1
        <5>2. P!VolumeOf(f, b) <= P!VolumeOf(f, a \ {x})
          BY <4>2, <5>1
        <5>3. P!VolumeOf(f, b) \in Int
          <6>1. CASE b = {}
            BY <1>0, <6>1
          <6>2. CASE b # {}
            <7>1. PICK z \in b : TRUE
              BY <6>2
            <7> QED
              BY <7>1, VolumeTakesOut
          <6> QED
            BY <6>1, <6>2
        <5> QED
          BY <5>2, <5>3
      <4>4. P!VolumeOf(f, a \ {x}) <= P!VolumeOf(f, a)
        BY <3>1
      <4> QED
        BY <3>1, <4>1, <4>3, <4>4
    <3>3. P!VolumeOf(f, a) \in Nat
      BY <2>2, <3>1
    <3>4. \A b \in SUBSET a : P!VolumeOf(f, b) <= P!VolumeOf(f, a)
      BY <3>2, <3>3
    <3> QED
      BY <3>3, <3>4
  <2> QED
    BY <2>1, <2>2
<1>2. {} \in T
  BY <1>0
<1>3. \A a \in SUBSET Q : a \in T
  <2>1. IsFiniteSet(Q)
    BY DEF Profiles
  <2> HIDE DEF T, Q
  <2> QED
    BY <1>1, <1>2, <2>1, SubsetInduction
<1>4. s \in T /\ u \in T
  BY <1>3
<1> QED
  BY <1>4

---------------------------------------------------------------------------
(* The value area: an interval of levels around the point of control that  *)
(* was not enough before its outermost levels came in.                     *)
Trimmed(f, a) == a \ ({P!Min(a), P!Max(a)} \ {P!PocPrice(f)})

Area(f, a) ==
  /\ a \subseteq DOMAIN f /\ P!PocPrice(f) \in a
  /\ \A p \in DOMAIN f : P!Min(a) <= p /\ p <= P!Max(a) => p \in a
  /\ Trimmed(f, a) # a => ~P!Covers(f, Trimmed(f, a))

LEMMA AreaStarts ==
  ASSUME NEW f, Profiles(f), P!PocPrice(f) \in DOMAIN f
  PROVE  Area(f, {P!PocPrice(f)})
<1> DEFINE poc == P!PocPrice(f)
           a == {poc}
<1>1. IsFiniteSet(a) /\ a \subseteq Int /\ a # {}
  BY FS_Singleton DEF Profiles
<1>2. P!Min(a) = poc /\ P!Max(a) = poc
  <2> HIDE DEF poc
  <2> QED
    BY <1>1, LowestLevel, HighestLevel
<1>3. Trimmed(f, a) = a
  BY DEF Trimmed
<1>4. \A p \in DOMAIN f : poc <= p /\ p <= poc => p = poc
  BY DEF Profiles
<1> QED
  BY <1>2, <1>3, <1>4 DEF Area

(* Levels next to an area that does not cover make an area again.          *)
LEMMA AreaWidens ==
  ASSUME NEW f, Profiles(f), NEW a, Area(f, a), ~P!Covers(f, a),
         NEW l, NEW r,
         \A y \in l : /\ y \in DOMAIN f /\ y < P!Min(a)
                      /\ \A p \in DOMAIN f : p < P!Min(a) => p <= y,
         \A y \in r : /\ y \in DOMAIN f /\ y > P!Max(a)
                      /\ \A p \in DOMAIN f : p > P!Max(a) => p >= y
  PROVE  Area(f, a \cup l \cup r)
<1> DEFINE b == a \cup l \cup r
           poc == P!PocPrice(f)
           m == P!Min(a)
           h == P!Max(a)
           lo == P!Min(b)
           hi == P!Max(b)
<1>1. /\ a \subseteq DOMAIN f /\ poc \in a
      /\ \A p \in DOMAIN f : m <= p /\ p <= h => p \in a
  BY DEF Area
<1>2. DOMAIN f \subseteq Int /\ IsFiniteSet(DOMAIN f) /\ b \subseteq DOMAIN f
  BY <1>1 DEF Profiles
<1>3. IsFiniteSet(a) /\ IsFiniteSet(b) /\ a # {} /\ b # {}
  BY <1>1, <1>2, FS_Subset
<1>4. /\ m \in a /\ \A y \in a : m <= y
      /\ h \in a /\ \A y \in a : h >= y
  <2>1. a \subseteq Int
    BY <1>1, <1>2
  <2> QED
    BY <1>3, <2>1, LowestLevel, HighestLevel
<1>5. /\ lo \in b /\ \A y \in b : lo <= y
      /\ hi \in b /\ \A y \in b : hi >= y
  <2>1. b \subseteq Int
    BY <1>2
  <2> HIDE DEF b
  <2> QED
    BY <1>3, <2>1, LowestLevel, HighestLevel
<1>6. /\ \A y \in l : y \in DOMAIN f /\ y < m /\ \A p \in DOMAIN f : p < m => p <= y
      /\ \A y \in r : y \in DOMAIN f /\ y > h /\ \A p \in DOMAIN f : p > h => p >= y
  OBVIOUS
<1>7. /\ m \in Int /\ h \in Int /\ lo \in Int /\ hi \in Int /\ m <= h
  BY <1>1, <1>2, <1>4, <1>5
<1>8. \A y \in b : y \in a \/ y \in l \/ y \in r
  OBVIOUS
<1>9. a \subseteq b /\ l \subseteq b /\ r \subseteq b
  OBVIOUS
<1> HIDE DEF b, m, h, lo, hi, poc
<1>10. ASSUME NEW p \in DOMAIN f, lo <= p, p <= hi PROVE p \in b
  <2>0. p \in Int
    BY <1>2
  <2>1. CASE p < m
    <3>1. lo < m
      BY <1>7, <1>10, <2>0, <2>1
    <3>2. lo \notin a
      BY <1>4, <1>7, <3>1
    <3>3. lo \notin r
      <4>1. lo \in r => lo > h
        BY <1>6
      <4> QED
        BY <1>7, <3>1, <4>1
    <3>4. lo \in l
      BY <1>5, <1>8, <3>2, <3>3
    <3>5. p <= lo
      BY <1>6, <2>1, <3>4
    <3>6. p = lo
      BY <1>7, <1>10, <2>0, <3>5
    <3> QED
      BY <1>5, <3>6
  <2>2. CASE p > h
    <3>1. hi > h
      BY <1>7, <1>10, <2>0, <2>2
    <3>2. hi \notin a
      BY <1>4, <1>7, <3>1
    <3>3. hi \notin l
      <4>1. hi \in l => hi < m
        BY <1>6
      <4> QED
        BY <1>7, <3>1, <4>1
    <3>4. hi \in r
      BY <1>5, <1>8, <3>2, <3>3
    <3>5. p >= hi
      BY <1>6, <2>2, <3>4
    <3>6. p = hi
      BY <1>7, <1>10, <2>0, <3>5
    <3> QED
      BY <1>5, <3>6
  <2>3. CASE ~(p < m) /\ ~(p > h)
    BY <1>1, <1>7, <1>9, <2>0, <2>3
  <2> QED
    BY <2>1, <2>2, <2>3
<1>11. b \ ({lo, hi} \ {poc}) \subseteq a
  <2> SUFFICES ASSUME NEW y \in b, y \notin a, y # lo, y # hi PROVE FALSE
    BY <1>1
  <2>0. y \in Int
    BY <1>2
  <2>1. CASE y \in l
    <3>1. y < m /\ lo <= y
      BY <1>5, <1>6, <2>1
    <3>2. lo < m
      BY <1>7, <2>0, <3>1
    <3>3. lo \notin a
      BY <1>4, <1>7, <3>2
    <3>4. lo \notin r
      <4>1. lo \in r => lo > h
        BY <1>6
      <4> QED
        BY <1>7, <3>2, <4>1
    <3>5. lo \in l
      BY <1>5, <1>8, <3>3, <3>4
    <3>6. y <= lo
      BY <1>2, <1>6, <2>1, <3>1, <3>5
    <3> QED
      BY <1>7, <2>0, <3>1, <3>6
  <2>2. CASE y \in r
    <3>1. y > h /\ hi >= y
      BY <1>5, <1>6, <2>2
    <3>2. hi > h
      BY <1>7, <2>0, <3>1
    <3>3. hi \notin a
      BY <1>4, <1>7, <3>2
    <3>4. hi \notin l
      <4>1. hi \in l => hi < m
        BY <1>6
      <4> QED
        BY <1>7, <3>2, <4>1
    <3>5. hi \in r
      BY <1>5, <1>8, <3>3, <3>4
    <3>6. y >= hi
      BY <1>2, <1>6, <2>2, <3>1, <3>5
    <3> QED
      BY <1>7, <2>0, <3>1, <3>6
  <2> QED
    BY <1>8, <2>1, <2>2
<1>12. Trimmed(f, b) \subseteq a
  BY <1>11 DEF Trimmed, lo, hi, poc
<1>13. ~P!Covers(f, Trimmed(f, b))
  <2> DEFINE t == Trimmed(f, b)
  <2>1. a \in SUBSET DOMAIN f /\ t \in SUBSET a
    BY <1>1, <1>12
  <2> HIDE DEF t
  <2>2. /\ P!VolumeOf(f, t) \in Nat /\ P!VolumeOf(f, a) \in Nat
        /\ P!VolumeOf(f, t) <= P!VolumeOf(f, a)
    BY <2>1, MoreLevelsMoreVolume
  <2>3. P!VolumeOf(f, DOMAIN f) \in Nat
    BY MoreLevelsMoreVolume
  <2>4. ~P!Covers(f, t)
    BY <2>2, <2>3 DEF P!Covers, P!RatioDen, P!RatioNum, P!Prices
  <2> QED
    BY <2>4 DEF t
<1>14. b \subseteq DOMAIN f /\ poc \in b
  BY <1>1, <1>2, <1>9
<1>15. Area(f, b)
  BY <1>10, <1>13, <1>14 DEF Area, lo, hi, poc
<1> QED
  BY <1>15 DEF b

LEMMA AreaExpands ==
  ASSUME NEW f, Profiles(f), NEW a, Area(f, a), ~P!Covers(f, a), a # DOMAIN f
  PROVE  LET b == P!Expand(f, a) IN Area(f, b) /\ a \subseteq b /\ \E y \in b : y \notin a
<1> DEFINE below == {p \in DOMAIN f : p < P!Min(a)}
           above == {p \in DOMAIN f : p > P!Max(a)}
           left == IF below = {} THEN {} ELSE {P!Max(below)}
           right == IF above = {} THEN {} ELSE {P!Min(above)}
           lv == IF left = {} THEN -1 ELSE P!VolumeOf(f, left)
           rv == IF right = {} THEN -1 ELSE P!VolumeOf(f, right)
           l == IF lv >= rv THEN left ELSE {}
           r == IF rv >= lv THEN right ELSE {}
<1>1. P!Expand(f, a) = a \cup l \cup r
  BY Zenon DEF P!Expand, P!Prices
<1>2. DOMAIN f \subseteq Int /\ IsFiniteSet(DOMAIN f) /\ a \subseteq DOMAIN f /\ a # {}
  BY DEF Profiles, Area
<1>3. IsFiniteSet(a) /\ IsFiniteSet(below) /\ IsFiniteSet(above) /\ a \subseteq Int
  BY <1>2, FS_Subset
<1>4. /\ P!Min(a) \in a /\ P!Max(a) \in a /\ P!Min(a) \in Int /\ P!Max(a) \in Int
      /\ \A y \in a : P!Min(a) <= y /\ P!Max(a) >= y
  BY <1>2, <1>3, LowestLevel, HighestLevel
<1>5. below \subseteq Int /\ above \subseteq Int /\ below \subseteq DOMAIN f /\ above \subseteq DOMAIN f
  BY <1>2
<1>6. below # {} => P!Max(below) \in below /\ \A y \in below : P!Max(below) >= y
  <2> HIDE DEF below
  <2> QED
    BY <1>3, <1>5, HighestLevel
<1>7. above # {} => P!Min(above) \in above /\ \A y \in above : P!Min(above) <= y
  <2> HIDE DEF above
  <2> QED
    BY <1>3, <1>5, LowestLevel
<1>8. left \subseteq below /\ right \subseteq above
      /\ (below # {} => left # {}) /\ (above # {} => right # {})
  BY <1>6, <1>7
<1>9. lv \in Int /\ rv \in Int /\ (left # {} => lv \in Nat) /\ (right # {} => rv \in Nat)
      /\ (left = {} => lv = -1) /\ (right = {} => rv = -1)
  <2>1. left \in SUBSET DOMAIN f /\ right \in SUBSET DOMAIN f
    BY <1>5, <1>8
  <2> HIDE DEF left, right
  <2>2. P!VolumeOf(f, left) \in Nat /\ P!VolumeOf(f, right) \in Nat
    BY <2>1, MoreLevelsMoreVolume
  <2> QED
    BY <2>2
<1>10. \A y \in l : /\ y \in DOMAIN f /\ y < P!Min(a)
                    /\ \A p \in DOMAIN f : p < P!Min(a) => p <= y
  <2> SUFFICES ASSUME NEW y \in left
               PROVE  /\ y \in DOMAIN f /\ y < P!Min(a)
                      /\ \A p \in DOMAIN f : p < P!Min(a) => p <= y
    OBVIOUS
  <2>1. below # {} /\ y = P!Max(below)
    OBVIOUS
  <2>2. y \in below /\ \A z \in below : y >= z
    BY <1>6, <2>1
  <2>3. \A p \in below : p \in Int
    BY <1>5
  <2> QED
    BY <1>5, <2>2, <2>3
<1>11. \A y \in r : /\ y \in DOMAIN f /\ y > P!Max(a)
                    /\ \A p \in DOMAIN f : p > P!Max(a) => p >= y
  <2> SUFFICES ASSUME NEW y \in right
               PROVE  /\ y \in DOMAIN f /\ y > P!Max(a)
                      /\ \A p \in DOMAIN f : p > P!Max(a) => p >= y
    OBVIOUS
  <2>1. above # {} /\ y = P!Min(above)
    OBVIOUS
  <2>2. y \in above /\ \A z \in above : y <= z
    BY <1>7, <2>1
  <2>3. \A p \in above : p \in Int
    BY <1>5
  <2> QED
    BY <1>5, <2>2, <2>3
<1>12. \E y \in l \cup r : y \notin a
  <2>1. PICK p \in DOMAIN f : p \notin a
    BY <1>2
  <2>2. p \in below \/ p \in above
    <3>1. ~(P!Min(a) <= p /\ p <= P!Max(a)) /\ p \in Int
      BY <1>2, <2>1 DEF Area
    <3> QED
      BY <1>4, <3>1
  <2>3. left # {} \/ right # {}
    BY <1>8, <2>2
  <2> HIDE DEF left, right, lv, rv
  <2>4. \E y \in left \cup right : y \in l \cup r
    BY <1>9, <2>3
  <2>5. \A y \in left \cup right : y \notin a
    <3>1. \A y \in left : y < P!Min(a) /\ y \in Int
      BY <1>5, <1>8
    <3>2. \A y \in right : y > P!Max(a) /\ y \in Int
      BY <1>5, <1>8
    <3> QED
      BY <1>4, <3>1, <3>2
  <2> QED
    BY <2>4, <2>5
<1> HIDE DEF l, r
<1>13. Area(f, a \cup l \cup r)
  BY <1>10, <1>11, AreaWidens
<1> QED
  BY <1>1, <1>12, <1>13

---------------------------------------------------------------------------
(* The loop of snapshot() over a profile.                                  *)
Turn(f, a) == IF P!Covers(f, a) \/ a = P!Prices(f) THEN a ELSE P!Expand(f, a)

Turns(g, f, n) ==
  g = [k \in 0 .. n |-> IF k = 0 THEN {P!PocPrice(f)} ELSE Turn(f, g[k - 1])]

LEMMA TurnsExist == ASSUME NEW f, NEW n \in Nat PROVE \E g : Turns(g, f, n)
<1> DEFINE N == {m \in Nat : \E g : Turns(g, f, m)}
<1>1. 0 \in N
  <2> DEFINE g == [k \in 0 .. 0 |-> {P!PocPrice(f)}]
  <2>1. Turns(g, f, 0)
    BY DEF Turns
  <2> HIDE DEF g
  <2> QED
    BY <2>1
<1>2. ASSUME NEW m \in Nat, m \in N PROVE m + 1 \in N
  <2>1. PICK h : Turns(h, f, m)
    BY <1>2
  <2> DEFINE g == [k \in 0 .. m + 1 |-> IF k <= m THEN h[k] ELSE Turn(f, h[k - 1])]
  <2>2. ASSUME NEW k \in 0 .. m + 1
        PROVE  g[k] = IF k = 0 THEN {P!PocPrice(f)} ELSE Turn(f, g[k - 1])
    <3>1. CASE k = 0
      BY <2>1, <3>1 DEF Turns
    <3>2. CASE k # 0 /\ k <= m
      <4>1. k - 1 \in 0 .. m /\ k - 1 <= m /\ k \in 0 .. m /\ k - 1 \in 0 .. m + 1
        BY <3>2
      <4>2. h[k] = Turn(f, h[k - 1])
        BY <2>1, <3>2, <4>1 DEF Turns
      <4> QED
        BY <3>2, <4>1, <4>2
    <3>3. CASE k # 0 /\ ~(k <= m)
      <4>1. k - 1 \in 0 .. m + 1 /\ k - 1 <= m
        BY <3>3
      <4> QED
        BY <3>3, <4>1
    <3> QED
      BY <3>1, <3>2, <3>3
  <2>3. Turns(g, f, m + 1)
    BY <2>2 DEF Turns
  <2> HIDE DEF g
  <2> QED
    BY <2>3
<1>3. n \in N
  <2> HIDE DEF N
  <2> QED
    BY <1>1, <1>2, Induction
<1> QED
  BY <1>3

LEMMA ValueAreaIs ==
  ASSUME NEW f, IsFiniteSet(DOMAIN f)
  PROVE  \E g : /\ Turns(g, f, Cardinality(DOMAIN f))
                /\ P!ValueArea(f) = g[Cardinality(DOMAIN f)]
<1> DEFINE n == Cardinality(DOMAIN f)
           g == CHOOSE g : Turns(g, f, n)
<1>1. n \in Nat
  BY FS_CardinalityType
<1>2. Turns(g, f, n)
  BY <1>1, TurnsExist
<1>3. P!ValueArea(f) = g[n]
  <2>1. P!Cardinality(DOMAIN f) = Cardinality(DOMAIN f)
    BY Zenon DEF P!Cardinality, Cardinality
  <2>2. P!ValueArea(f) = (CHOOSE h : Turns(h, f, P!Cardinality(DOMAIN f)))[P!Cardinality(DOMAIN f)]
    BY Zenon DEF P!ValueArea, P!Prices, Turns, Turn
  <2> QED
    BY <2>1, <2>2
<1> QED
  BY <1>2, <1>3

LEMMA AreaFound ==
  ASSUME NEW f, Profiles(f), P!PocPrice(f) \in DOMAIN f
  PROVE  P!ValueAreaSound(f)
<1> DEFINE n == Cardinality(DOMAIN f)
<1>0. IsFiniteSet(DOMAIN f) /\ n \in Nat
  BY FS_CardinalityType DEF Profiles
<1>1. PICK g : Turns(g, f, n) /\ P!ValueArea(f) = g[n]
  BY <1>0, ValueAreaIs
<1> DEFINE Done(a) == P!Covers(f, a) \/ a = DOMAIN f
           Is(k) == Area(f, g[k]) /\ (Done(g[k]) \/ Cardinality(g[k]) > k)
           T == {k \in Nat : k <= n => Is(k)}
<1>2. 0 \in T
  <2>1. g[0] = {P!PocPrice(f)}
    BY <1>0, <1>1 DEF Turns
  <2>2. Cardinality(g[0]) = 1 /\ Area(f, g[0])
    BY <2>1, FS_Singleton, AreaStarts
  <2> QED
    BY <2>2
<1>3. ASSUME NEW k \in Nat, k \in T PROVE k + 1 \in T
  <2> SUFFICES ASSUME k + 1 <= n PROVE Is(k + 1)
    OBVIOUS
  <2>1. k + 1 \in 0 .. n /\ (k + 1) - 1 = k /\ k + 1 # 0 /\ k <= n
    BY <1>0
  <2>2. g[k + 1] = Turn(f, g[k])
    BY <1>1, <2>1 DEF Turns
  <2>3. Is(k)
    BY <1>3, <2>1
  <2>4. CASE Done(g[k])
    <3>1. g[k + 1] = g[k]
      BY <2>2, <2>4 DEF Turn, P!Prices
    <3> QED
      BY <2>3, <2>4, <3>1
  <2>5. CASE ~Done(g[k])
    <3> DEFINE a == g[k]
               b == g[k + 1]
    <3>1. b = P!Expand(f, a)
      BY <2>2, <2>5 DEF Turn, P!Prices
    <3>2. Area(f, a) /\ Cardinality(a) > k /\ ~P!Covers(f, a) /\ a # DOMAIN f
      BY <2>3, <2>5
    <3> HIDE DEF a, b
    <3>3. Area(f, b) /\ a \subseteq b /\ \E y \in b : y \notin a
      BY <3>1, <3>2, AreaExpands
    <3>4. Cardinality(b) > k + 1
      <4>1. IsFiniteSet(b)
        BY <1>0, <3>3, FS_Subset DEF Area
      <4>2. Cardinality(a) <= Cardinality(b) /\ Cardinality(a) # Cardinality(b)
        BY <3>3, <4>1, FS_Subset
      <4>3. IsFiniteSet(a)
        BY <3>3, <4>1, FS_Subset
      <4>4. Cardinality(a) \in Nat /\ Cardinality(b) \in Nat
        BY <4>1, <4>3, FS_CardinalityType
      <4> QED
        BY <3>2, <4>2, <4>4
    <3> QED
      BY <3>3, <3>4 DEF b
  <2> QED
    BY <2>4, <2>5
<1>4. Is(n)
  <2> HIDE DEF Is
  <2>1. \A k \in Nat : k \in T
    <3> HIDE DEF T
    <3> QED
      BY <1>2, <1>3, Induction
  <2> QED
    BY <1>0, <2>1
<1> DEFINE a == P!ValueArea(f)
<1>5. Area(f, a) /\ (Done(a) \/ Cardinality(a) > n)
  BY <1>1, <1>4
<1> HIDE DEF a
<1>6. Done(a)
  <2>1. IsFiniteSet(a) /\ Cardinality(a) <= n
    BY <1>0, <1>5, FS_Subset DEF Area
  <2>2. Cardinality(a) \in Nat
    BY <2>1, FS_CardinalityType
  <2> QED
    BY <1>0, <1>5, <2>1, <2>2
<1>7. P!Covers(f, a)
  <2>1. P!VolumeOf(f, DOMAIN f) \in Nat
    BY MoreLevelsMoreVolume
  <2> DEFINE v == P!VolumeOf(f, DOMAIN f)
  <2> HIDE DEF v
  <2>2. v * 10 >= v * 7
    BY <2>1 DEF v
  <2>3. P!Covers(f, DOMAIN f)
    BY <2>2 DEF P!Covers, P!RatioDen, P!RatioNum, P!Prices, v
  <2> QED
    BY <1>6, <2>3
<1> QED
  BY <1>5, <1>7, Zenon DEF P!ValueAreaSound, Area, Trimmed, a, P!Prices

(* What one more trade adds to the volume of all levels.                   *)
LEMMA VolumeGrows ==
  ASSUME NEW f, Profiles(f), NEW price \in Int, NEW volume \in Nat
  PROVE  LET g == P!AddVolume(f, price, volume)
         IN  /\ Profiles(g)
             /\ P!VolumeOf(g, DOMAIN g) = P!VolumeOf(f, DOMAIN f) + volume
<1> DEFINE g == P!AddVolume(f, price, volume)
           old == IF price \in DOMAIN f THEN f[price] ELSE 0
           Q == DOMAIN f
           R == DOMAIN f \ {price}
<1>1. /\ DOMAIN g = Q \cup {price}
      /\ g[price] = old + volume
      /\ \A p \in Q : p # price => g[p] = f[p]
  <2>1. \A p \in Q : f[p] \in Nat
    BY DEF Profiles
  <2>2. DOMAIN g = Q \cup {price} /\ g[price] = old + volume
    BY DEF P!AddVolume
  <2>3. \A p \in Q : p # price => g[p] = f[p] + 0
    BY DEF P!AddVolume
  <2> QED
    BY <2>1, <2>2, <2>3
<1>2. old \in Nat
  BY DEF Profiles
<1>3. Profiles(g)
  <2>1. IsFiniteSet(DOMAIN g)
    BY <1>1, FS_AddElement DEF Profiles
  <2> HIDE DEF g, old
  <2> QED
    BY <1>1, <1>2, <2>1 DEF Profiles
<1> HIDE DEF g, old
<1>4. PICK v : SumsUp(v, f, Q) /\ \A s \in SUBSET Q : P!VolumeOf(f, s) = v[s]
  BY VolumesAre DEF Profiles
<1>5. PICK w : SumsUp(w, g, DOMAIN g) /\ \A s \in SUBSET DOMAIN g : P!VolumeOf(g, s) = w[s]
  BY <1>3, VolumesAre DEF Profiles
<1>6. v[R] = w[R]
  <2>1. PICK u : SumsUp(u, f, R)
    BY FS_Subset, SumsExist DEF Profiles
  <2>2. IsFiniteSet(R)
    BY FS_Subset DEF Profiles
  <2>3. R \subseteq Q /\ R \subseteq DOMAIN g /\ \A p \in R : f[p] = g[p]
    BY <1>1
  <2> HIDE DEF R, Q
  <2>4. u[R] = v[R]
    BY <1>4, <2>1, <2>2, <2>3, SumsAgree
  <2>5. u[R] = w[R]
    BY <1>5, <2>1, <2>2, <2>3, SumsAgree
  <2> QED
    BY <2>4, <2>5
<1>7. v[Q] = old + v[R]
  <2>1. CASE price \in Q
    <3>1. v[Q] = f[price] + v[Q \ {price}]
      BY <1>4, <2>1, SumTakesOut DEF Profiles
    <3> QED
      BY <2>1, <3>1 DEF old
  <2>2. CASE price \notin Q
    <3>1. R = Q
      BY <2>2
    <3>2. v[Q] \in Int
      BY <1>4, SumsAreIntegers DEF Profiles
    <3> QED
      BY <2>2, <3>1, <3>2 DEF old
  <2> QED
    BY <2>1, <2>2
<1>8. w[DOMAIN g] = g[price] + w[DOMAIN g \ {price}]
  BY <1>1, <1>3, <1>5, SumTakesOut DEF Profiles
<1>9. DOMAIN g \ {price} = R
  BY <1>1
<1>10. v[R] \in Int
  BY <1>4, SumsAreIntegers DEF Profiles
<1>11. P!VolumeOf(g, DOMAIN g) = P!VolumeOf(f, Q) + volume
  <2>1. P!VolumeOf(g, DOMAIN g) = w[DOMAIN g] /\ P!VolumeOf(f, Q) = v[Q]
    BY <1>4, <1>5
  <2> DEFINE x == v[R]
  <2>2. w[DOMAIN g] = (old + volume) + x /\ v[Q] = old + x /\ x \in Int
    BY <1>1, <1>6, <1>7, <1>8, <1>9, <1>10
  <2> HIDE DEF x
  <2> QED
    BY <1>2, <2>1, <2>2
<1> QED
  BY <1>3, <1>11 DEF g

VolumesHold ==
  /\ IsFiniteSet(DOMAIN profile)
  /\ P!VolumeOf(profile, DOMAIN profile) = vwap.volume

LEMMA NoVolume == IsFiniteSet(DOMAIN P!EmptyProfile) /\ P!VolumeOf(P!EmptyProfile, DOMAIN P!EmptyProfile) = 0
<1>1. DOMAIN P!EmptyProfile = {}
  BY DEF P!EmptyProfile
<1>2. IsFiniteSet(DOMAIN P!EmptyProfile)
  BY <1>1, FS_EmptySet
<1> QED
  BY <1>1, <1>2, VolumeOfNone

LEMMA VolumesStep == EnginesHold /\ VolumesHold /\ [Next]_vars => VolumesHold'
<1> SUFFICES ASSUME EnginesHold, VolumesHold, [Next]_vars PROVE VolumesHold'
  OBVIOUS
<1>1. CASE Ingest
  <2>1. PICK tick \in Feed : /\ vwap' = V!AddTrade(vwap, tick.price, tick.size)
                             /\ profile' = P!AddVolume(profile, tick.price, tick.size)
    BY <1>1 DEF Ingest
  <2>2. tick.price \in Int /\ tick.size \in Nat
    BY FeedTyped DEF TickTyped
  <2>3. Profiles(profile)
    BY DEF EnginesHold, ProfileHolds, VolumesHold, Profiles
  <2>4. /\ Profiles(profile')
        /\ P!VolumeOf(profile', DOMAIN profile') = P!VolumeOf(profile, DOMAIN profile) + tick.size
    BY <2>1, <2>2, <2>3, VolumeGrows
  <2>5. vwap'.volume = vwap.volume + tick.size
    <3>1. vwap.volume \in Nat
      BY DEF EnginesHold, VwapStates
    <3>2. CASE tick.size <= 0
      <4>1. vwap' = vwap /\ tick.size = 0
        BY <2>1, <2>2, <3>2 DEF V!AddTrade
      <4> QED
        BY <3>1, <4>1
    <3>3. CASE ~(tick.size <= 0)
      BY <2>1, <3>3 DEF V!AddTrade, EnginesHold, VwapStates
    <3> QED
      BY <3>2, <3>3
  <2> QED
    BY <2>4, <2>5 DEF VolumesHold, Profiles
<1>2. CASE ResetSession
  BY <1>2, NoVolume DEF ResetSession, VolumesHold, V!ResetVwap
<1>3. CASE UNCHANGED <<vwap, profile>>
  BY <1>3 DEF VolumesHold
<1> QED
  BY <1>1, <1>2, <1>3 DEF Next, AddSeries, ReadCompleted, vars

(* For every feed: the value area of the session's profile is an interval  *)
(* around the point of control that covers its share and no less would,    *)
(* and the profile holds the volume the VWAP engine counted.               *)
THEOREM ValueAreaAlwaysSound == Spec => []ValueAreaSound
<1>1. Init => VolumesHold
  BY NoVolume DEF Init, VolumesHold, V!ResetVwap
<1>2. EnginesHold /\ VolumesHold => ValueAreaSound
  <2> SUFFICES ASSUME EnginesHold, VolumesHold PROVE ValueAreaSound
    OBVIOUS
  <2>1. Profiles(profile)
    BY DEF EnginesHold, ProfileHolds, VolumesHold, Profiles
  <2>2. ASSUME profile # P!EmptyProfile PROVE P!ValueAreaSound(profile)
    <3>1. \E p \in DOMAIN profile : MostTraded(profile, p)
      BY <2>2 DEF EnginesHold, ProfileHolds
    <3>2. P!PocPrice(profile) = CHOOSE p \in DOMAIN profile : MostTraded(profile, p)
      BY DEF P!PocPrice, P!Prices, MostTraded
    <3>3. P!PocPrice(profile) \in DOMAIN profile
      BY <3>1, <3>2
    <3> QED
      BY <2>1, <3>3, AreaFound
  <2> QED
    BY <2>2 DEF ValueAreaSound, VolumesHold, P!Prices
<1>3. EnginesHold /\ VolumesHold /\ [Next]_vars => VolumesHold'
  BY VolumesStep
<1>4. EnginesHold /\ [Next]_vars => EnginesHold'
  BY EnginesStep
<1> QED
  BY <1>1, <1>2, <1>3, <1>4, EnginesStart, PTL DEF Spec
=============================================================================
