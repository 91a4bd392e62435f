-------------------------- MODULE SymbolPipelineS1 --------------------------
(***************************************************************************)
(* The analytics of one symbol in the first-session code: Lee-Ready        *)
(* classification, the BarEngine with its series, the DeltaEngine and the  *)
(* ImbalanceDetector.  The worker that calls them is declared, in stages,  *)
(* by include/core/symbol_worker.h but not implemented: the order of its   *)
(* stages is taken from there, and the bars of the series Main are those   *)
(* it analyses.  "since", "past" and "deltas" only remember what happened. *)
(***************************************************************************)
EXTENDS Integers, Sequences, SequencesExt, FiniteSets

CONSTANTS
  Feed,      \* ticks a feed may give: trades [type, price, volume, aggressor,
             \* gap] and quotes [type, price]; gap: seconds since the last trade
  Sizes,     \* bar sizes [type, value]
  MaxSeries, \* series of a symbol at a time
  Ratio, StackedMin, AbsorptionVolume,  \* ImbalanceConfig
  MaxTicks, MaxSessions, MaxChanges  \* bounds: ticks, session events, series changes

ASSUME S1FeedAssumption ==
  \A tick \in Feed :
    /\ tick.price \in Nat \ {0}
    /\ tick.type = "TRADE" => tick.volume \in Nat \ {0} /\ tick.gap \in Nat

ASSUME S1SizesAssumption == Sizes \subseteq [type : {"TIME", "RANGE", "VOLUME"}, value : Nat]

ASSUME S1ConfigAssumption == {Ratio, StackedMin, MaxSeries} \subseteq Nat \ {0}

B == INSTANCE BarSeriesS1
D == INSTANCE DeltaEngineS1
I == INSTANCE ImbalanceDetectorS1
L == INSTANCE LeeReadyS1

VARIABLES
  main,     \* the size of the series the worker analyses
  series,   \* series_: [size -> BarSeries] for the active sizes
  state,    \* lee_ready_state_
  delta,    \* DeltaState
  zones,    \* the zone registry
  report,   \* what the analysis of the last bar of Main gave, if any
  clock,    \* exchange time of the last tick
  count,    \* [ticks, sessions, changes]: how much has happened
  since,    \* since[size]: the trades after the last bar of the series
  past,     \* past[size]: [trades, forced] of that bar
  deltas    \* the deltas of Main's bars in this session

vars == <<main, series, state, delta, zones, report, clock, count, since, past, deltas>>

ValidSizes == {size \in Sizes : B!IsValid(size)}

NoPast == [trades |-> << >>, forced |-> FALSE]

Init ==
  /\ main \in ValidSizes
  /\ series = [size \in {main} |-> B!NewSeries(size)]
  /\ state = L!InitState /\ delta = D!DeltaState /\ zones = << >> /\ report = << >>
  /\ clock = 0 /\ count = [ticks |-> 0, sessions |-> 0, changes |-> 0]
  /\ since = [size \in {main} |-> << >>] /\ past = [size \in {main} |-> NoPast]
  /\ deltas = << >>

(* The number of the event under way, which numbers the bars it closes.    *)
Now == count.ticks + count.sessions + 1

(* What the worker does with a bar of Main, given the delta state.         *)
Analyse(bar, filling, trades) ==
  LET filled == D!FilledIn(filling)
      left == D!OnBarClose(filling)
  IN  /\ delta' = left
      /\ zones' = I!Zones(zones, bar, Now)
      /\ deltas' = Append(deltas, B!DeltaOf(trades))
      /\ report' = <<[filled |-> filled,
                      signals |-> I!Signals(zones, bar) \cup D!DeltaSignals(bar, filled, left)]>>

(* The history of the series that had a bar closed.                        *)
Remember(closed, trades, forced) ==
  /\ since' = [size \in DOMAIN series |-> IF size \in closed THEN << >> ELSE trades[size]]
  /\ past' = [size \in DOMAIN series |->
                IF size \in closed THEN [trades |-> trades[size], forced |-> forced] ELSE past[size]]

Counted(what) == count' = [count EXCEPT ![what] = @ + 1]

(* A quote updates the prevailing quote, a summary nothing at all.         *)
Quote ==
  /\ count.ticks < MaxTicks
  /\ \E tick \in {t \in Feed : t.type # "TRADE"} :
       state' = L!UpdateQuote(tick.type, tick.price, state)
  /\ Counted("ticks")
  /\ UNCHANGED <<main, series, delta, zones, report, clock, since, past, deltas>>

(* A trade that cannot be classified is not accumulated.                   *)
TradeUnclassified ==
  /\ count.ticks < MaxTicks
  /\ \E t \in {u \in Feed : u.type = "TRADE"} :
       /\ L!Side(t.price, t.aggressor, state) = "UNKNOWN"
       /\ state' = L!ClassifyTrade(t.price, t.aggressor, state)
       /\ clock' = clock + t.gap
  /\ Counted("ticks")
  /\ UNCHANGED <<main, series, delta, zones, report, since, past, deltas>>

(* The stages of a classified trade: bars, delta, and the analysis of the  *)
(* bar of Main it may have closed.                                         *)
Trade ==
  /\ count.ticks < MaxTicks
  /\ \E t \in {u \in Feed : u.type = "TRADE"} :
       LET side == L!Side(t.price, t.aggressor, state)
           tick == [price |-> t.price, volume |-> t.volume, side |-> side, time |-> clock + t.gap]
           after == [size \in DOMAIN series |-> B!OnTick(series[size], tick)]
           closed == {size \in DOMAIN series : after[size].current = << >>}
           trades == [size \in DOMAIN series |-> Append(since[size], tick)]
       IN  /\ side # "UNKNOWN"
           /\ state' = L!ClassifyTrade(t.price, t.aggressor, state)
           /\ clock' = clock + t.gap
           /\ series' = after
           /\ Remember(closed, trades, FALSE)
           /\ \/ /\ main \in closed
                 /\ Analyse(after[main].last[1], D!OnTick(delta, tick), trades[main])
              \/ /\ main \notin closed
                 /\ delta' = D!OnTick(delta, tick)
                 /\ UNCHANGED <<zones, report, deltas>>
  /\ Counted("ticks")
  /\ UNCHANGED main

(* The series that a session event closes a bar of.                        *)
Pending == {size \in DOMAIN series : series[size].current # << >>}

(* BarEngine::on_session_close.                                            *)
SessionClose ==
  /\ count.sessions < MaxSessions
  /\ series' = [size \in DOMAIN series |-> B!ForceCloseBar(series[size], clock)]
  /\ Remember(Pending, since, TRUE)
  /\ \/ main \in Pending /\ Analyse(series'[main].last[1], delta, since[main])
     \/ main \notin Pending /\ UNCHANGED <<delta, zones, report, deltas>>
  /\ Counted("sessions")
  /\ UNCHANGED <<main, state, clock>>

(* BarEngine::on_session_open, then DeltaEngine::on_session_open.          *)
SessionOpen ==
  /\ count.sessions < MaxSessions
  /\ series' = [size \in DOMAIN series |-> B!OnSessionOpen(series[size], clock)]
  /\ Remember(Pending, since, TRUE)
  /\ delta' = D!DeltaState
  /\ deltas' = << >>
  /\ zones' = IF main \in Pending
                THEN I!Zones(zones, B!ForceCloseBar(series[main], clock).last[1], Now) ELSE zones
  /\ report' = << >>
  /\ Counted("sessions")
  /\ UNCHANGED <<main, state, clock>>

(* BarEngine::add_series refuses a size it has and more than it may have;  *)
(* when the constructor throws on a size, nothing has changed.             *)
AddSeries ==
  /\ count.changes < MaxChanges
  /\ Cardinality(DOMAIN series) < MaxSeries
  /\ \E size \in ValidSizes \ DOMAIN series :
       LET with == DOMAIN series \cup {size}
       IN  /\ series' = [s \in with |-> IF s = size THEN B!NewSeries(size) ELSE series[s]]
           /\ since' = [s \in with |-> IF s = size THEN << >> ELSE since[s]]
           /\ past' = [s \in with |-> IF s = size THEN NoPast ELSE past[s]]
  /\ Counted("changes")
  /\ UNCHANGED <<main, state, delta, zones, report, clock, deltas>>

(* BarEngine::remove_series drops the series and its bar in progress.      *)
RemoveSeries ==
  /\ count.changes < MaxChanges
  /\ \E size \in DOMAIN series \ {main} :
       LET without == DOMAIN series \ {size}
       IN  /\ series' = [s \in without |-> series[s]]
           /\ since' = [s \in without |-> since[s]]
           /\ past' = [s \in without |-> past[s]]
  /\ Counted("changes")
  /\ UNCHANGED <<main, state, delta, zones, report, clock, deltas>>

Next ==
  \/ Quote \/ TradeUnclassified \/ Trade
  \/ SessionClose \/ SessionOpen
  \/ AddSeries \/ RemoveSeries

Spec == Init /\ [][Next]_vars

---------------------------------------------------------------------------
(* The trades a bar shows are those after the one before it: its open,     *)
(* high, low, close, volume and price levels, in progress or completed,    *)
(* closed by a tick or forced, are those of exactly these trades           *)
(* (BarSeries::on_tick), for every series whenever it was added.           *)
BarsMatchTrades ==
  \A size \in DOMAIN series :
    LET s == series[size]
    IN  /\ (s.current = << >>) <=> (since[size] = << >>)
        /\ s.current # << >> => B!Footprint(s.current[1], since[size])
        /\ s.last # << >> => B!Footprint(s.last[1], past[size].trades)

(* A bar is closed by a trade that makes it ripe, and with that trade in   *)
(* it, or is forced at a session's edge; none in progress is overdue, and  *)
(* none has been before its last trade (BarSeries::should_close).  The     *)
(* code and the comments beside it differ in when a range or volume bar is *)
(* due (bar_engine.h:107 and :112): what they differ in is left open here. *)
BarsCloseWhenDue ==
  \A size \in DOMAIN series :
    LET t == past[size].trades
        forced == past[size].forced
    IN  /\ \A i \in DOMAIN since[size] : ~B!OverdueAt(size, since[size], i)
        /\ \A i \in DOMAIN t : i < Len(t) \/ forced => ~B!OverdueAt(size, t, i)
        /\ t # << >> => forced \/ B!RipeAt(size, t, Len(t))

(* The DeltaEngine keeps its own sums of the trades the BarSeries          *)
(* accumulates: they agree with the bar in progress, with every completed  *)
(* bar, and over the session; the moving average stays between the         *)
(* smallest and the largest delta (DeltaEngine::on_bar_close).  Extremes   *)
(* bound the deltas and are among them, or zero: whether zero may be one   *)
(* when all have one sign, as in the code, or not, as delta_engine.h:32    *)
(* and :40 say, is left open here.                                         *)
DeltaMatchesTrades ==
  LET t == since[main]
      running == {B!DeltaOf(SubSeq(t, 1, i)) : i \in DOMAIN t}
      session == {deltas[i] : i \in DOMAIN deltas}
      sizes == {D!Magnitude(d) : d \in session}
  IN  /\ <<delta.ask, delta.bid>> = <<B!VolumeOf(t, "ASK"), B!VolumeOf(t, "BID")>>
      /\ {delta.max, delta.min} \ {0} \subseteq running
      /\ \A d \in running : delta.min <= d /\ d <= delta.max
      /\ delta.cumulative = B!SumOf(deltas)
      /\ {delta.sessionMax, delta.sessionMin} \ {0} \subseteq session
      /\ \A d \in session : delta.sessionMin <= d /\ d <= delta.sessionMax
      /\ deltas # << >> => /\ \E d \in sizes : delta.average <= d
                          /\ \E d \in sizes : delta.average >= d
      /\ report # << >> => /\ report[1].filled.delta = Last(deltas)
                          /\ report[1].filled.cumulative = delta.cumulative

(* A delta surge (three times the average or more) names the side of the   *)
(* bar's delta and stands out in its session: some earlier bar had at most *)
(* a third of it, although the average it is held against includes the bar *)
(* itself (DeltaEngine::detect_surge after on_bar_close).                  *)
SurgeStandsOut ==
  report # << >> =>
    LET d == Last(deltas)
    IN  \A kind \in {<<"DELTA_SURGE_BULLISH", "LONG">>, <<"DELTA_SURGE_BEARISH", "SHORT">>} :
          kind \in report[1].signals =>
            /\ (d > 0) <=> (kind[2] = "LONG")
            /\ \E i \in 1 .. Len(deltas) - 1 : 3 * D!Magnitude(deltas[i]) <= D!Magnitude(d)

(* Once a trade has been classified every later one is, and as long as     *)
(* none is the price has not moved (LeeReadyClassifier, zero ticks): no    *)
(* volume is left out of the bars but that of the opening price.           *)
ClassificationSticks ==
  [][state'.last = "UNKNOWN" =>
       state.last = "UNKNOWN" /\ (state.prev # 0 => state'.prev = state.prev)]_state

(* The signal of a stacked imbalance is given exactly when StackedMin      *)
(* adjacent prices of the bar each had Ratio times the opposite volume of  *)
(* the next price down (up), although detect_stacked looks at neighbours   *)
(* in the vector of levels only.                                           *)
StackSignalsExact ==
  report # << >> =>
    LET t == past[main].trades
        at(p, side) == B!VolumeAt(t, p, side)
        buy(p) == at(p - 1, "BID") > 0 /\ at(p, "ASK") >= Ratio * at(p - 1, "BID")
        sell(p) == at(p + 1, "ASK") > 0 /\ at(p, "BID") >= Ratio * at(p + 1, "ASK")
        prices == {t[i].price : i \in DOMAIN t}
        given(kind) == kind \in report[1].signals
    IN  /\ given(<<"STACKED_IMBALANCE_BUY", "LONG">>) <=>
             \E p \in prices : \A k \in 0 .. StackedMin - 1 : buy(p + k)
        /\ given(<<"STACKED_IMBALANCE_SELL", "SHORT">>) <=>
             \E p \in prices : \A k \in 0 .. StackedMin - 1 : sell(p + k)

(* A stacked zone survives the bar that created it, to be resolved by a    *)
(* later one (signal_types.h:188, "Persistent stacked imbalance zone that  *)
(* survives across bars").                                                 *)
ZonesOutliveTheirBar ==
  \A i \in DOMAIN zones : zones[i].resolved # zones[i].created
=============================================================================
