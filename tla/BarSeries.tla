----------------------------- MODULE BarSeries -----------------------------
(***************************************************************************)
(* BarSeries of include/ofe/core/bar_engine.h as operators on the value of *)
(* the object: [type, threshold, active, current, notional, sessionCvd,    *)
(* completed].  Sums of doubles are exact integers here, VWAP is the pair  *)
(* of its sums, and what is computed from the other fields of a bar (range *)
(* aside) is left out: body, wicks, poc_price.                             *)
(***************************************************************************)
EXTENDS Integers, Sequences, SequencesExt

BarTypes == {"Time", "Range", "Volume"}
Larger(a, b) == IF a >= b THEN a ELSE b
Smaller(a, b) == IF a <= b THEN a ELSE b

EmptyBar ==
  [start |-> 0, end |-> 0, open |-> 0, high |-> 0, low |-> 0, close |-> 0,
   volume |-> 0, count |-> 0, buy |-> 0, sell |-> 0, cvd |-> 0,
   maxDelta |-> 0, minDelta |-> 0, notional |-> 0, index |-> 0]

NewSeries(type, threshold) ==
  [type |-> type, threshold |-> threshold, active |-> FALSE,
   current |-> EmptyBar, sessionCvd |-> 0, completed |-> << >>]

Delta(bar) == bar.buy - bar.sell
BarRange(bar) == bar.high - bar.low

(* start_bar(): the running sum restarts from the new bar's empty field.   *)
StartBar(s, tick) ==
  [s EXCEPT !.active = TRUE, !.sessionCvd = EmptyBar.cvd,
            !.current = [EmptyBar EXCEPT
              !.start = tick.time, !.end = tick.time, !.open = tick.price,
              !.high = tick.price, !.low = tick.price, !.close = tick.price,
              !.index = Len(s.completed)]]

(* The side update_bar() gives a trade: none inside the spread, nor        *)
(* against a side without size.                                            *)
BarSide(tick) ==
  IF tick.price >= tick.quote.ask /\ tick.quote.askSize > 0 THEN "buy"
  ELSE IF tick.price <= tick.quote.bid /\ tick.quote.bidSize > 0 THEN "sell"
  ELSE "unknown"

(* Mutant: the extremes of delta start from zero.                          *)
UpdateBarFromZero(s, tick) ==
  LET side == BarSide(tick)
      buy == s.current.buy + (IF side = "buy" THEN tick.size ELSE 0)
      sell == s.current.sell + (IF side = "sell" THEN tick.size ELSE 0)
  IN  [s EXCEPT !.sessionCvd = @ + buy - sell,
                !.current = [s.current EXCEPT
                  !.end = tick.time, !.close = tick.price,
                  !.high = Larger(@, tick.price), !.low = Smaller(@, tick.price),
                  !.volume = @ + tick.size, !.count = @ + 1,
                  !.notional = @ + tick.price * tick.size,
                  !.buy = buy, !.sell = sell,
                  !.cvd = s.sessionCvd + buy - sell,
                  !.maxDelta = Larger(@, buy - sell),
                  !.minDelta = Smaller(@, buy - sell)]]

(* update_bar(): the bar's whole delta is added to session_cvd_ each time. *)
UpdateBar(s, tick) ==
  LET side == BarSide(tick)
      buy == s.current.buy + (IF side = "buy" THEN tick.size ELSE 0)
      sell == s.current.sell + (IF side = "sell" THEN tick.size ELSE 0)
      first == s.current.count = 0
  IN  [s EXCEPT !.sessionCvd = @ + buy - sell,
                !.current = [s.current EXCEPT
                  !.end = tick.time, !.close = tick.price,
                  !.high = Larger(@, tick.price), !.low = Smaller(@, tick.price),
                  !.volume = @ + tick.size, !.count = @ + 1,
                  !.notional = @ + tick.price * tick.size,
                  !.buy = buy, !.sell = sell,
                  !.cvd = s.sessionCvd + buy - sell,
                  !.maxDelta = IF first THEN buy - sell ELSE Larger(@, buy - sell),
                  !.minDelta = IF first THEN buy - sell ELSE Smaller(@, buy - sell)]]

FinalizeBar(s, endTime) ==
  [s EXCEPT !.completed = Append(@, [s.current EXCEPT !.end = endTime]),
            !.current = EmptyBar]

(* Mutant: a range bar closes one late.                                    *)
ShouldFinalizeLate(s) ==
  CASE s.type = "Time"   -> FALSE
    [] s.type = "Range"  -> BarRange(s.current) > s.threshold
    [] s.type = "Volume" -> s.current.volume >= s.threshold

ShouldFinalize(s) ==
  CASE s.type = "Time"   -> FALSE
    [] s.type = "Range"  -> BarRange(s.current) >= s.threshold
    [] s.type = "Volume" -> s.current.volume >= s.threshold

TimeIsUp(s, tick) ==
  /\ s.type = "Time"
  /\ tick.time >= s.current.start + s.threshold
  /\ s.current.count > 0

(* ingest(): a time bar is closed by the first tick past its end, which    *)
(* opens the next one; the other bars are closed by the tick that reaches  *)
(* their threshold.                                                        *)
Ingest(s, tick) ==
  LET opened  == IF s.active THEN s ELSE StartBar(s, tick)
      turned  == IF TimeIsUp(opened, tick) THEN StartBar(FinalizeBar(opened, tick.time), tick)
                 ELSE opened
      updated == UpdateBar(turned, tick)
  IN  IF ShouldFinalize(updated)
        THEN [FinalizeBar(updated, tick.time) EXCEPT !.active = FALSE]
        ELSE updated

ClearCompleted(s) == [s EXCEPT !.completed = << >>]

---------------------------------------------------------------------------
(* What a bar over the ticks of a slice should say.                        *)
SumOf(seq) == FoldLeft(LAMBDA a, b : a + b, 0, seq)

Reference(slice) ==
  LET prices == {slice[i].price : i \in DOMAIN slice}
      sizesOf(side, upTo) ==
        SumOf([i \in 1 .. upTo |-> IF BarSide(slice[i]) = side THEN slice[i].size ELSE 0])
      deltas == {sizesOf("buy", i) - sizesOf("sell", i) : i \in DOMAIN slice}
  IN  [start |-> slice[1].time, open |-> slice[1].price, close |-> Last(slice).price,
       high |-> CHOOSE p \in prices : \A q \in prices : p >= q,
       low |-> CHOOSE p \in prices : \A q \in prices : p <= q,
       count |-> Len(slice),
       volume |-> SumOf([i \in DOMAIN slice |-> slice[i].size]),
       notional |-> SumOf([i \in DOMAIN slice |-> slice[i].price * slice[i].size]),
       buy |-> sizesOf("buy", Len(slice)), sell |-> sizesOf("sell", Len(slice)),
       maxDelta |-> CHOOSE d \in deltas : \A e \in deltas : d >= e,
       minDelta |-> CHOOSE d \in deltas : \A e \in deltas : d <= e]

(* Whether the ticks of a slice reach the threshold of a series: in time   *)
(* after the first, in the distance between two prices, or in size.        *)
Reached(s, slice) ==
  \/ /\ s.type = "Time"
     /\ \E k \in DOMAIN slice : k > 1 /\ slice[k].time >= slice[1].time + s.threshold
  \/ /\ s.type = "Range"
     /\ \E k, m \in DOMAIN slice : slice[k].price - slice[m].price >= s.threshold
  \/ /\ s.type = "Volume" /\ slice # << >>
     /\ SumOf([k \in DOMAIN slice |-> slice[k].size]) >= s.threshold

Agrees(bar, slice) ==
  LET reference == Reference(slice)
  IN  \A f \in DOMAIN reference : bar[f] = reference[f]
===========================================================================
