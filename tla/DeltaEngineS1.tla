--------------------------- MODULE DeltaEngineS1 ---------------------------
(***************************************************************************)
(* DeltaEngine of the first-session code (src/analytics/delta_engine.cpp)  *)
(* as operators on DeltaState, and the delta signals of a completed bar.   *)
(* The bar's fields the engine fills in are the record FilledIn returns.   *)
(***************************************************************************)
EXTENDS Integers

Magnitude(x) == IF x >= 0 THEN x ELSE -x
Greater(a, b) == IF a >= b THEN a ELSE b
Lesser(a, b) == IF a <= b THEN a ELSE b

(* on_session_open() assigns a fresh state.                                *)
DeltaState == [ask |-> 0, bid |-> 0, running |-> 0, max |-> 0, min |-> 0,
               cumulative |-> 0, sessionMax |-> 0, sessionMin |-> 0, average |-> 0]

OnTick(state, tick) ==
  LET bought == IF tick.side = "ASK" THEN tick.volume ELSE 0
      running == state.running + 2 * bought - tick.volume
  IN  [state EXCEPT !.ask = @ + bought, !.bid = @ + tick.volume - bought,
                    !.running = running,
                    !.max = Greater(@, running), !.min = Lesser(@, running)]

(* Mutant: the first bar is averaged with nothing.                         *)
AverageUnseeded(average, size) == (1333 * size + 8667 * average) \div 10000

(* The EMA of the deltas' sizes, alpha = 0.1333, cut to an integer; zero   *)
(* stands for no bar yet.                                                  *)
Average(average, size) ==
  IF average = 0 THEN size ELSE (1333 * size + 8667 * average) \div 10000

FilledIn(state) ==
  [delta |-> state.ask - state.bid, max |-> state.max, min |-> state.min,
   cumulative |-> state.cumulative + state.ask - state.bid, volume |-> state.ask + state.bid]

(* Mutant: the running delta is carried into the next bar.                 *)
OnBarCloseCarries(state) ==
  LET delta == state.ask - state.bid
  IN  [DeltaState EXCEPT !.running = state.running,
         !.cumulative = state.cumulative + delta,
         !.sessionMax = Greater(state.sessionMax, delta),
         !.sessionMin = Lesser(state.sessionMin, delta),
         !.average = Average(state.average, Magnitude(delta))]

OnBarClose(state) ==
  LET delta == state.ask - state.bid
  IN  [DeltaState EXCEPT
         !.cumulative = state.cumulative + delta,
         !.sessionMax = Greater(state.sessionMax, delta),
         !.sessionMin = Lesser(state.sessionMin, delta),
         !.average = Average(state.average, Magnitude(delta))]

(* The detectors look at the filled-in bar and the state on_bar_close()    *)
(* left, with their default thresholds: 3, 1.5 and 10%.                    *)
Divergence(bar, filled) ==
  CASE bar.close < bar.open /\ filled.delta > 0 -> {<<"DELTA_DIVERGENCE_BAR", "LONG">>}
    [] bar.close > bar.open /\ filled.delta < 0 -> {<<"DELTA_DIVERGENCE_BAR", "SHORT">>}
    [] OTHER -> {}

Surge(filled, state) ==
  CASE state.average = 0 \/ Magnitude(filled.delta) < 3 * state.average -> {}
    [] OTHER -> IF filled.delta > 0 THEN {<<"DELTA_SURGE_BULLISH", "LONG">>}
                ELSE {<<"DELTA_SURGE_BEARISH", "SHORT">>}

ExtremeDelta(filled, state) ==
  LET most == Greater(Magnitude(state.sessionMax), Magnitude(state.sessionMin))
  IN  CASE most = 0 \/ 2 * Magnitude(filled.delta) < 3 * most -> {}
        [] OTHER -> {<<"EXTREME_DELTA", IF filled.delta > 0 THEN "LONG" ELSE "SHORT">>}

SmallRange(filled) ==
  IF filled.volume # 0 /\ 10 * (filled.max - filled.min) < filled.volume
    THEN {<<"SMALL_MIN_MAX_DELTA", "NEUTRAL">>} ELSE {}

DeltaSignals(bar, filled, state) ==
  Divergence(bar, filled) \cup Surge(filled, state) \cup ExtremeDelta(filled, state)
    \cup SmallRange(filled)
===========================================================================
