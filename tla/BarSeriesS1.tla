---------------------------- MODULE BarSeriesS1 ----------------------------
(***************************************************************************)
(* BarSeries of the first-session code (src/core/bar_engine.cpp) as        *)
(* operators on the object [size, current, last]; the two unique_ptrs are  *)
(* sequences of at most one bar.  Prices are whole ticks, times seconds.   *)
(***************************************************************************)
EXTENDS Integers, Sequences, SequencesExt

(* BarSize::is_valid(): the constructor throws on a size out of range.     *)
LongestTime == 31 * 24 * 3600
LargestVolume == 1000000

IsValid(size) ==
  \/ size.type = "TIME" /\ size.value \in 5 .. LongestTime
  \/ size.type = "RANGE" /\ size.value \in 1 .. 500
  \/ size.type = "VOLUME" /\ size.value \in 50 .. LargestVolume

NewSeries(size) == [size |-> size, current |-> << >>, last |-> << >>]

Distance(a, b) == IF a >= b THEN a - b ELSE b - a

OpenNewBar(tick) ==
  [open |-> tick.price, high |-> tick.price, low |-> tick.price, close |-> tick.price,
   opened |-> tick.time, closed |-> tick.time, volume |-> 0, levels |-> << >>, poc |-> 0]

(* Mutant: the volume must be exceeded, not reached.                       *)
ShouldCloseLate(size, bar, tick) ==
  CASE size.type = "TIME"   -> tick.time >= (bar.opened \div size.value) * size.value + size.value
    [] size.type = "RANGE"  -> Distance(tick.price, bar.open) >= size.value
    [] size.type = "VOLUME" -> bar.volume > size.value

(* should_close(), asked before the tick is accumulated.                   *)
ShouldClose(size, bar, tick) ==
  CASE size.type = "TIME"   -> tick.time >= (bar.opened \div size.value) * size.value + size.value
    [] size.type = "RANGE"  -> Distance(tick.price, bar.open) >= size.value
    [] size.type = "VOLUME" -> bar.volume >= size.value

(* get_or_create_level() and the addition to the level it returns.         *)
AddToLevels(levels, tick) ==
  LET found == \E i \in DOMAIN levels : levels[i].price = tick.price
      all == IF found THEN levels
             ELSE Append(levels, [price |-> tick.price, bid |-> 0, ask |-> 0])
  IN  [i \in DOMAIN all |->
         IF all[i].price # tick.price THEN all[i]
         ELSE IF tick.side = "ASK" THEN [all[i] EXCEPT !.ask = @ + tick.volume]
         ELSE [all[i] EXCEPT !.bid = @ + tick.volume]]

(* Mutant: a new high is not looked at as a possible low.                  *)
AccumulateHighOnly(bar, tick) ==
  [bar EXCEPT !.levels = AddToLevels(@, tick), !.volume = @ + tick.volume,
              !.high = IF tick.price > @ THEN tick.price ELSE @, !.close = tick.price]

Accumulate(bar, tick) ==
  [bar EXCEPT !.levels = AddToLevels(@, tick), !.volume = @ + tick.volume,
              !.high = IF tick.price > @ THEN tick.price ELSE @,
              !.low = IF tick.price < @ THEN tick.price ELSE @, !.close = tick.price]

Total(level) == level.bid + level.ask

(* The levels in ascending order of their prices, which differ.            *)
ByPrice(levels) ==
  LET below(i) == Cardinality({j \in DOMAIN levels : levels[j].price < levels[i].price})
  IN  [k \in DOMAIN levels |-> levels[CHOOSE i \in DOMAIN levels : below(i) = k - 1]]

(* Mutant: the levels stay in the order of their first trades.             *)
CompletedUnsorted(bar, time) == [bar EXCEPT !.closed = time, !.poc = bar.open]

(* close_current_bar(): the point of control is the lowest of the levels   *)
(* with the largest volume.                                                *)
Completed(bar, time) ==
  LET levels == ByPrice(bar.levels)
      largest == {i \in DOMAIN levels : \A j \in DOMAIN levels : Total(levels[i]) >= Total(levels[j])}
  IN  [bar EXCEPT !.closed = time, !.levels = levels,
                  !.poc = levels[CHOOSE i \in largest : \A j \in largest : i <= j].price]

OnTick(s, tick) ==
  LET bar == IF s.current = << >> THEN OpenNewBar(tick) ELSE s.current[1]
      grown == Accumulate(bar, tick)
  IN  IF ShouldClose(s.size, bar, tick)
        THEN [s EXCEPT !.current = << >>, !.last = <<Completed(grown, tick.time)>>]
        ELSE [s EXCEPT !.current = <<grown>>]

ForceCloseBar(s, time) ==
  IF s.current = << >> THEN s
  ELSE [s EXCEPT !.current = << >>, !.last = <<Completed(s.current[1], time)>>]

OnSessionOpen(s, time) == [ForceCloseBar(s, time) EXCEPT !.last = << >>]

---------------------------------------------------------------------------
(* What a bar over a sequence of trades should say.                        *)
SumOf(seq) == FoldLeft(LAMBDA a, b : a + b, 0, seq)
VolumeOf(trades, side) ==
  SumOf([i \in DOMAIN trades |-> IF trades[i].side = side THEN trades[i].volume ELSE 0])
VolumeAt(trades, price, side) ==
  SumOf([i \in DOMAIN trades |->
           IF trades[i].price = price /\ trades[i].side = side THEN trades[i].volume ELSE 0])
DeltaOf(trades) == VolumeOf(trades, "ASK") - VolumeOf(trades, "BID")

Footprint(bar, trades) ==
  LET prices == {trades[i].price : i \in DOMAIN trades}
  IN  /\ bar.open = Head(trades).price /\ bar.close = Last(trades).price
      /\ {bar.high, bar.low} \subseteq prices /\ \A p \in prices : bar.low <= p /\ p <= bar.high
      /\ bar.opened = Head(trades).time
      /\ bar.volume = VolumeOf(trades, "ASK") + VolumeOf(trades, "BID")
      /\ Len(bar.levels) = Cardinality(prices)
      /\ ToSet(bar.levels) = {[price |-> p, bid |-> VolumeAt(trades, p, "BID"),
                               ask |-> VolumeAt(trades, p, "ASK")] : p \in prices}

(* Whether the i-th trade of a bar finds the bar due, as the code has it.  *)
DueAt(size, trades, i) ==
  LET first == Head(trades)
      before == SubSeq(trades, 1, i - 1)
  IN  CASE size.type = "TIME"   -> trades[i].time \div size.value > first.time \div size.value
        [] size.type = "RANGE"  -> trades[i].price \notin first.price - size.value + 1 .. first.price + size.value - 1
        [] size.type = "VOLUME" -> VolumeOf(before, "ASK") + VolumeOf(before, "BID") >= size.value

(* The comments at should_close() want a range bar to close on a move of   *)
(* more than its size (the code: as much), and a volume bar after the      *)
(* trade that reaches its size (the code: after the next one).  OverdueAt  *)
(* is what neither allows a bar to be, RipeAt what either closes it on.    *)
OverdueAt(size, trades, i) ==
  IF size.type = "RANGE"
    THEN trades[i].price \notin Head(trades).price - size.value .. Head(trades).price + size.value
    ELSE DueAt(size, trades, i)

RipeAt(size, trades, i) ==
  IF size.type = "VOLUME"
    THEN LET upto == SubSeq(trades, 1, i)
         IN  VolumeOf(upto, "ASK") + VolumeOf(upto, "BID") >= size.value
    ELSE DueAt(size, trades, i)
===========================================================================
