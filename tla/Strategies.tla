------------------------------ MODULE Strategies ------------------------------
(***************************************************************************)
(* The levels the registered strategies plan: for a window of candles, the *)
(* set of plans a strategy may build from it.                              *)
(*                                                                         *)
(* Averages, regimes, scores and the shape of candles are not computed:    *)
(* w.sides holds the sides whose gates on them pass, w.strength their      *)
(* verdict on a breakout or a continuation.  What places a level is exact: *)
(* multiples of the average true range in Fine-ths, reward multiples in    *)
(* R-ths, the levels of a plan in Fine * R-ths of a price.                 *)
(***************************************************************************)
EXTENDS Prices, Sequences

Fine == 10000
R == 1000

\* A window: the newest candle is the last.  anchor is the local mean of the
\* closes, in Fine-ths.
Windows == [candles : Seq({c \in Candle : WellFormed(c)}), atr : Nat \ {0}, anchor : Int,
            sides : SUBSET Sides, strength : {"strong", "neutral", "weak"}]
IsWindow(w) == w \in Windows /\ Len(w.candles) > 2

Last(w) == w.candles[Len(w.candles)]
Prev(w) == w.candles[Len(w.candles) - 1]
Close(w) == Fine * Last(w).close

\* candles.slice(-n), and the n candles before the last one.
Recent(w, n) == {w.candles[j] : j \in {k \in 1..Len(w.candles) : k > Len(w.candles) - n}}
Before(w, n) == {w.candles[j] : j \in {k \in 1..(Len(w.candles) - 1) : k >= Len(w.candles) - n}}

Ahead(side, a, b) == Past(side, a, b) /\ a # b
Toward(side, level, d) == IF side = "LONG" THEN level + d ELSE level - d

\* The end of a candle behind a trade and the one ahead of it, and the
\* furthest of them in a set of candles.
Rear(side, c) == IF side = "LONG" THEN c.low ELSE c.high
Front(side, c) == IF side = "LONG" THEN c.high ELSE c.low
Rearmost(side, C) == {Rear(side, c) : c \in {d \in C : \A e \in C :
                                               Past(side, Rear(side, e), Rear(side, d))}}
Foremost(side, C) == {Front(side, c) : c \in {d \in C : \A e \in C :
                                                Past(side, Front(side, d), Front(side, e))}}

\* The less and the more advanced of two prices, in the direction of a trade.
Behind(side, a, b) == IF Past(side, a, b) THEN b ELSE a
InFront(side, a, b) == IF Past(side, a, b) THEN a ELSE b
Lesser(a, b) == IF a <= b THEN a ELSE b
Greater(a, b) == IF a <= b THEN b ELSE a

-----------------------------------------------------------------------------
(* What the strategies share.                                              *)

Planned(side, entry, stop, m1, m2) ==
    LET d == Abs(entry - stop)
    IN  [side |-> side, entry |-> R * entry, stop |-> R * stop,
         tp1 |-> Toward(side, R * entry, d * m1), tp2 |-> Toward(side, R * entry, d * m2)]

\* Stops pad behind the prices xs.
Stops(side, xs, pad, w) == {Toward(side, Fine * x, -(pad * w.atr)) : x \in xs}

StopWithin(p, w, entry, stop) ==
    p.minStop * w.atr <= Abs(entry - stop) /\ Abs(entry - stop) <= p.maxStop * w.atr

\* Room to the extreme of the last n candles, and beyond it.
RoomTo(p, w, side, n, beyond, entry, stop) == \A x \in Foremost(side, Recent(w, n)) :
    R * Abs(Toward(side, Fine * x, beyond) - entry) >= p.minRoom * Abs(entry - stop)

Rises(side, w) == Ahead(side, Last(w).close, Last(w).open)
Breaks(side, w) == Ahead(side, Last(w).close, Front(side, Prev(w))) /\ Rises(side, w)

-----------------------------------------------------------------------------
(* Trend pullback.                                                         *)

TrendStops(p, w, side) ==
    {stop \in Stops(side, Rearmost(side, Recent(w, 2)), 2500, w) :
        Breaks(side, w) /\ StopWithin(p, w, Close(w), stop)
        /\ RoomTo(p, w, side, 28, 0, Close(w), stop)}

TrendPlans(p, w) == UNION {{Planned(side, Close(w), stop, 1200, 2400) :
                               stop \in TrendStops(p, w, side)} : side \in w.sides}

TrendProfiles == {[minStop |-> 5000, maxStop |-> 22000, minRoom |-> 1900],
                  [minStop |-> 3500, maxStop |-> 26000, minRoom |-> 1450]}

-----------------------------------------------------------------------------
(* Swing continuation: the stop is behind the pullback, the n candles      *)
(* since the impulse; pad and multiples depend on the strength.            *)

SwingStops(p, w, side) ==
    {stop \in UNION {Stops(side, Rearmost(side, Before(w, n)), p.stopPad[w.strength], w) :
                        n \in 2..37} :
        Ahead(side, Last(w).close, Prev(w).close) /\ Rises(side, w)
        /\ StopWithin(p, w, Close(w), stop)
        /\ RoomTo(p, w, side, 120, Fine * w.atr, Close(w), stop)}

SwingPlans(p, w) == UNION {{Planned(side, Close(w), stop, p.tp1[w.strength], p.tp2[w.strength]) :
                               stop \in SwingStops(p, w, side)} : side \in w.sides}

SwingStrict == [minStop |-> 5500, maxStop |-> 26000, minRoom |-> 2000,
                stopPad |-> [strong |-> 2808, neutral |-> 2600, weak |-> 2470],
                tp1 |-> [strong |-> 1196, neutral |-> 1300, weak |-> 1378],
                tp2 |-> [strong |-> 4864, neutral |-> 3800, weak |-> 3420]]
SwingBalanced == [minStop |-> 4000, maxStop |-> 27000, minRoom |-> 2000,
                  stopPad |-> [strong |-> 1908, neutral |-> 1800, weak |-> 1656],
                  tp1 |-> [strong |-> 1056, neutral |-> 1200, weak |-> 1344],
                  tp2 |-> [strong |-> 5244, neutral |-> 3800, weak |-> 3116]]

-----------------------------------------------------------------------------
(* Expansion reload: the stop is behind the reset, the candles between the *)
(* expansion and the last one, at least two of them.                       *)

ReloadStops(p, w, side) ==
    {stop \in UNION {Stops(side, {x \in Rearmost(side, Before(w, n)) :
                                     Past(side, Close(w),
                                          Toward(side, Fine * InFront(side, Front(side, Prev(w)), x),
                                                 p.minOffset * w.atr))},
                           p.stopPad, w) : n \in 2..(p.maxBars - 1)} :
        Breaks(side, w) /\ StopWithin(p, w, Close(w), stop)
        /\ RoomTo(p, w, side, 96, 0, Close(w), stop)}

ReloadPlans(p, w) == UNION {{Planned(side, Close(w), stop, p.tp1, p.tp2) :
                                stop \in ReloadStops(p, w, side)} : side \in w.sides}

ReloadProfiles ==
    {[maxBars |-> 18, minOffset |-> 0, minStop |-> 3000, maxStop |-> 26000,
      stopPad |-> 1800, minRoom |-> 1500, tp1 |-> 1150, tp2 |-> 3000],
     [maxBars |-> 22, minOffset |-> -200, minStop |-> 2800, maxStop |-> 28000,
      stopPad |-> 1700, minRoom |-> 1400, tp1 |-> 1100, tp2 |-> 2900],
     [maxBars |-> 24, minOffset |-> -400, minStop |-> 2500, maxStop |-> 30000,
      stopPad |-> 1600, minRoom |-> 1300, tp1 |-> 1050, tp2 |-> 2800],
     [maxBars |-> 26, minOffset |-> -600, minStop |-> 2200, maxStop |-> 31000,
      stopPad |-> 1500, minRoom |-> 1200, tp1 |-> 1000, tp2 |-> 2650]}

-----------------------------------------------------------------------------
(* Compression breakout: entered at the broken level when the candle came  *)
(* back to it, else at the close, with a buffer.                           *)

Retests(side, w, level) ==
    Past(side, level, Rear(side, Last(w))) /\ Ahead(side, Last(w).close, level)

BreakoutEntry(p, w, side, level) ==
    LET buffered == Toward(side, Fine * level, p.buffer * w.atr)
    IN  IF Retests(side, w, level) THEN buffered ELSE InFront(side, Close(w), buffered)

BreakoutStop(w, side, level) ==
    Toward(side, Fine * Behind(side, Rear(side, Last(w)), level), -(2000 * w.atr))

\* The levels a close may break: the extreme of the 24 candles before it.
BreakoutLevels(p, w, side) ==
    {level \in Foremost(side, Before(w, 24)) :
        LET entry == BreakoutEntry(p, w, side, level) IN
        /\ Ahead(side, Close(w), Toward(side, Fine * level, p.minOffset * w.atr))
        /\ ~Retests(side, w, level) => Abs(entry - Fine * level) <= p.maxChase * w.atr
        /\ RoomTo(p, w, side, 64, Fine * w.atr, entry, BreakoutStop(w, side, level))}

BreakoutPlan(p, w, side, level) ==
    Planned(side, BreakoutEntry(p, w, side, level), BreakoutStop(w, side, level), p.tp1,
            IF w.strength = "strong" THEN (p.tp2 * p.boost) \div R ELSE p.tp2)

BreakoutPlans(p, w) == UNION {{BreakoutPlan(p, w, side, level) :
                                  level \in BreakoutLevels(p, w, side)} : side \in w.sides}

BreakoutConfigs ==
    {[minOffset |-> 2200, maxChase |-> 5000, minRoom |-> 1700, buffer |-> 600,
      tp1 |-> 1150, tp2 |-> 2550, boost |-> 1100],
     [minOffset |-> 1500, maxChase |-> 8000, minRoom |-> 1350, buffer |-> 500,
      tp1 |-> 1250, tp2 |-> 2600, boost |-> 1080]}
CombinedBreakout == [minOffset |-> 1500, maxChase |-> 8000, minRoom |-> 1350, buffer |-> 500,
                     tp1 |-> 1100, tp2 |-> 2600, boost |-> 1080]

Personal(p) == [p EXCEPT !.buffer = Greater(0, @ - 500), !.tp2 = Greater(2800, @ + 350)]
Prop(p) == [p EXCEPT !.buffer = Greater(0, @ - 100), !.tp2 = Greater(2350, @ - 50)]
Baseline(p) == [p EXCEPT !.buffer = 0, !.tp1 = 1000, !.tp2 = 2000, !.boost = R]
BreakoutProfiles == {CombinedBreakout}
    \cup UNION {{p, Personal(p), Prop(p), Baseline(p)} : p \in BreakoutConfigs}

-----------------------------------------------------------------------------
(* Mean reversion: the second target is bounded in distance, the first is  *)
(* the nearer of a reward multiple and a fraction of the way to it.        *)

ReversionDistance(p, w) ==
    Greater(p.minTarget * w.atr,
            Lesser(p.maxTarget * w.atr, Abs(Close(w) - w.anchor) - p.valueBuffer * w.atr))

ReversionStops(p, w, side) ==
    {stop \in Stops(side, Rearmost(side, Recent(w, 2)), 1500, w) :
        /\ Ahead(side, w.anchor, Close(w))
        /\ Abs(Close(w) - w.anchor) >= p.minStretch * w.atr
        /\ StopWithin(p, w, Close(w), stop)
        /\ R * ReversionDistance(p, w) >= p.minRoom * Abs(Close(w) - stop)
        /\ R * ReversionDistance(p, w) <= p.maxRoom * Abs(Close(w) - stop)}

ReversionPlan(p, w, side, stop) ==
    LET entry == R * Close(w)
        second == ReversionDistance(p, w)
        first == Lesser(Abs(Close(w) - stop) * p.tp1, second * p.fraction)
    IN  [side |-> side, entry |-> entry, stop |-> R * stop,
         tp1 |-> Toward(side, entry, first), tp2 |-> Toward(side, entry, R * second)]

ReversionPlans(p, w) == UNION {{ReversionPlan(p, w, side, stop) :
                                   stop \in ReversionStops(p, w, side)} : side \in w.sides}

ReversionProfiles ==
    {[minStretch |-> 14500, minStop |-> 4500, maxStop |-> 18000, minRoom |-> 1100,
      maxRoom |-> 3200, tp1 |-> 700, fraction |-> 500, valueBuffer |-> 1500,
      minTarget |-> 8500, maxTarget |-> 22000],
     [minStretch |-> 10000, minStop |-> 3500, maxStop |-> 22000, minRoom |-> 950,
      maxRoom |-> 3800, tp1 |-> 650, fraction |-> 580, valueBuffer |-> 1000,
      minTarget |-> 7000, maxTarget |-> 26000]}

-----------------------------------------------------------------------------
(* Continuations on five minutes: the first setup that is found sets the   *)
(* stop.  p.back and p.swing are its look-backs.                           *)

Older(w, n) == {w.candles[j] : j \in {k \in 1..(Len(w.candles) - 2) : k > Len(w.candles) - 2 - n}}
FirstOf(a, b) == IF a # {} THEN a ELSE b

PullbackStops(p, w, side) ==
    UNION {{stop \in Stops(side, {back}, p.stopPad, w) : \A swing \in Foremost(side, Before(w, p.swing)) :
               /\ p.minRetrace * w.atr <= Fine * Abs(swing - back)
               /\ Fine * Abs(swing - back) <= p.maxRetrace * w.atr} :
           back \in Rearmost(side, Before(w, p.back))}

RangeStops(p, w, side) ==
    UNION {{stop \in Stops(side, {back}, p.stopPad, w) : \E edge \in Foremost(side, Before(w, 5)) :
               /\ Ahead(side, Last(w).close, edge) /\ Rises(side, w)
               /\ p.minRange * w.atr <= Fine * Abs(edge - back)
               /\ Fine * Abs(edge - back) <= p.maxRange * w.atr} :
           back \in Rearmost(side, Before(w, 5))}

ReclaimStops(p, w, side) ==
    {stop \in Stops(side, Rearmost(side, Recent(w, 2)), p.stopPad, w) :
        /\ Rises(side, w)
        /\ \E d \in Older(w, 8) :
             /\ \A e \in Older(w, 8) : Past(side, Rear(side, d), Rear(side, e))
             /\ Ahead(side, Rear(side, d), Prev(w).close)
             /\ Ahead(side, Last(w).close, Rear(side, d))}

ContinuationStops(p, w, side) ==
    FirstOf({stop \in PullbackStops(p, w, side) :
                Breaks(side, w) /\ Past(side, Prev(w).open, Prev(w).close)},
            FirstOf(ReclaimStops(p, w, side), RangeStops(p, w, side)))

ResetStops(p, w, side) ==
    {stop \in Stops(side, Rearmost(side, Recent(w, 11)), p.stopPad, w) :
        /\ Rises(side, w)
        /\ \A level \in Foremost(side, Older(w, 9)) :
             Past(side, level, Prev(w).close) /\ Ahead(side, Last(w).close, level)}

PulseStops(p, w, side) ==
    {stop \in Stops(side, Rearmost(side, Before(w, 6)), p.stopPad, w) : Breaks(side, w)}

ScalpStops(p, w, side) ==
    FirstOf({stop \in PullbackStops(p, w, side) : Breaks(side, w)},
            FirstOf(ResetStops(p, w, side),
                    FirstOf(RangeStops(p, w, side), PulseStops(p, w, side))))

Within(p, w, side, n, stops) ==
    {stop \in stops : StopWithin(p, w, Close(w), stop) /\ RoomTo(p, w, side, n, 0, Close(w), stop)}

ContinuationPlans(p, w) ==
    UNION {{Planned(side, Close(w), stop, p.tp1, p.tp2) :
               stop \in Within(p, w, side, 24, ContinuationStops(p, w, side))} : side \in w.sides}
ScalpPlans(p, w) ==
    UNION {{Planned(side, Close(w), stop, p.tp1, p.tp2) :
               stop \in Within(p, w, side, 18, ScalpStops(p, w, side))} : side \in w.sides}

ContinuationDefault ==
    [back |-> 6, swing |-> 14, minRetrace |-> 2000, maxRetrace |-> 13500, minRange |-> 0,
     maxRange |-> 18000, stopPad |-> 1000, minStop |-> 4200, maxStop |-> 22000,
     minRoom |-> 1250, tp1 |-> 900, tp2 |-> 1750]
ScalpDefault ==
    [back |-> 5, swing |-> 10, minRetrace |-> 1200, maxRetrace |-> 14000, minRange |-> 1600,
     maxRange |-> 16000, stopPad |-> 500, minStop |-> 1200, maxStop |-> 18000,
     minRoom |-> 800, tp1 |-> 900, tp2 |-> 1750]

\* The deterministic strategy, exported and not registered, plans both sides.
MockPlans(w) == {Planned(side, Close(w), Toward(side, Close(w), -(Fine * w.atr)), R, 2 * R) :
                    side \in Sides}

-----------------------------------------------------------------------------
(* Arbitration between a breakout and a swing: score per price at risk.    *)

Risk(c) == Abs(c.plan.entry - c.plan.stop)
BelowFloor(c) == c.score * Fine * R < 10 * Risk(c)
Tied(b, s) == 20 * Fine * R * Abs(b.score * Risk(s) - s.score * Risk(b)) <= Risk(b) * Risk(s)
Better(b, s) == IF b.score * Risk(s) > s.score * Risk(b) THEN b ELSE s

\* bs and ss hold the candidate of each strategy, if it has one.
selectWinner(bs, ss) ==
    IF bs = {} \/ ss = {} THEN {c \in bs \cup ss : ~BelowFloor(c)}
    ELSE UNION {{Better(b, s) : s \in {x \in ss : /\ ~(BelowFloor(b) /\ BelowFloor(x))
                                                /\ ~Tied(b, x)}} : b \in bs}

\* What any strategy may plan for a window.
AnyPlans(w) ==
    (UNION {TrendPlans(p, w) : p \in TrendProfiles})
    \cup (UNION {SwingPlans(p, w) : p \in {SwingStrict, SwingBalanced}})
    \cup (UNION {ReloadPlans(p, w) : p \in ReloadProfiles})
    \cup (UNION {BreakoutPlans(p, w) : p \in BreakoutProfiles})
    \cup (UNION {ReversionPlans(p, w) : p \in ReversionProfiles})
    \cup ContinuationPlans(ContinuationDefault, w) \cup ScalpPlans(ScalpDefault, w)
    \cup MockPlans(w)

-----------------------------------------------------------------------------
(* Properties.                                                             *)

\* The engine finds the entry within the candle the plan was built from, so
\* its "Entry not touched" rejection is dead code for these strategies.
EntryTouched(w, p) == Fine * R * Last(w).low <= p.entry /\ p.entry <= Fine * R * Last(w).high
=============================================================================
