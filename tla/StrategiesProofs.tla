--------------------------- MODULE StrategiesProofs ---------------------------
(***************************************************************************)
(* What holds of the plans of every registered strategy, for every window. *)
(***************************************************************************)
EXTENDS Strategies, TLAPS

-----------------------------------------------------------------------------
(* Prices and sides.                                                       *)

LEMMA ProductOrder ==
    ASSUME NEW d \in Nat, NEW a \in Nat, NEW b \in Nat, a <= b
    PROVE  d * a <= d * b
  OBVIOUS

LEMMA ProductPositive ==
    ASSUME NEW d \in Nat, NEW a \in Nat, d > 0, a > 0
    PROVE  d * a \in Nat /\ d * a > 0
  OBVIOUS

\* The last and the previous candle of a window, and the sides of both.
LEMMA WindowFacts ==
    ASSUME NEW w, IsWindow(w)
    PROVE  /\ Last(w) \in Candle /\ WellFormed(Last(w))
           /\ Prev(w) \in Candle /\ WellFormed(Prev(w))
           /\ w.atr \in Nat /\ w.atr > 0 /\ w.anchor \in Int
           /\ w.sides \subseteq Sides /\ Len(w.candles) \in Nat /\ Len(w.candles) > 2
  BY DEF IsWindow, Windows, Last, Prev

LEMMA AheadTypes ==
    ASSUME NEW side \in Sides, NEW w, IsWindow(w)
    PROVE  /\ Close(w) \in Int /\ Last(w).close \in Int /\ Prev(w).close \in Int
           /\ Rear(side, Last(w)) \in Int /\ Rear(side, Prev(w)) \in Int
           /\ Front(side, Last(w)) \in Int /\ Front(side, Prev(w)) \in Int
           /\ Past(side, Last(w).close, Rear(side, Last(w)))
           /\ Past(side, Prev(w).close, Rear(side, Prev(w)))
           /\ Past(side, Front(side, Prev(w)), Rear(side, Prev(w)))
  BY WindowFacts DEF Sides, Close, Fine, Rear, Front, Past, Candle, WellFormed

\* The last candle is among the n last, the previous one among the n before it.
LEMMA Members ==
    ASSUME NEW w, IsWindow(w), NEW n \in Nat, n > 0
    PROVE  Last(w) \in Recent(w, n) /\ Prev(w) \in Before(w, n)
<1>1. Len(w.candles) \in {k \in 1..Len(w.candles) : k > Len(w.candles) - n}
  BY WindowFacts
<1>2. Len(w.candles) - 1 \in {k \in 1..(Len(w.candles) - 1) : k >= Len(w.candles) - n}
  BY WindowFacts
<1> QED
  BY <1>1, <1>2 DEF Last, Prev, Recent, Before

\* Every candle of a window is one.
LEMMA CandlesOfWindow ==
    ASSUME NEW w, IsWindow(w), NEW n
    PROVE  /\ Recent(w, n) \subseteq {c \in Candle : WellFormed(c)}
           /\ Before(w, n) \subseteq {c \in Candle : WellFormed(c)}
  BY DEF IsWindow, Windows, Recent, Before

LEMMA ExtremesAreNumbers ==
    ASSUME NEW side \in Sides, NEW C, C \subseteq {c \in Candle : WellFormed(c)}
    PROVE  Rearmost(side, C) \subseteq Int /\ Foremost(side, C) \subseteq Int
  BY DEF Rearmost, Foremost, Rear, Front, Candle

\* The rear of a set is not ahead of the rear of any of its candles.
LEMMA RearmostIsBehind ==
    ASSUME NEW side, NEW C, NEW c \in C, NEW x \in Rearmost(side, C)
    PROVE  Past(side, Rear(side, c), x)
  BY DEF Rearmost

LEMMA ForemostIsAhead ==
    ASSUME NEW side, NEW C, NEW c \in C, NEW x \in Foremost(side, C)
    PROVE  Past(side, x, Front(side, c))
  BY DEF Foremost

-----------------------------------------------------------------------------
(* Stops and targets.                                                      *)

\* A padded stop is strictly behind every price at or ahead of its base.
LEMMA PaddedStop ==
    ASSUME NEW side \in Sides, NEW w, IsWindow(w), NEW x \in Int, NEW pad \in Nat, pad > 0,
           NEW y \in Int, Past(side, y, x)
    PROVE  /\ Toward(side, Fine * x, -(pad * w.atr)) \in Int
           /\ Ahead(side, Fine * y, Toward(side, Fine * x, -(pad * w.atr)))
<1>1. pad * w.atr \in Nat /\ pad * w.atr > 0
  BY WindowFacts, ProductPositive
<1> DEFINE q == pad * w.atr
<1>2. q \in Nat /\ q > 0
  BY <1>1
<1> HIDE DEF q
<1>3. Toward(side, Fine * x, -q) \in Int /\ Ahead(side, Fine * y, Toward(side, Fine * x, -q))
  BY <1>2 DEF Sides, Toward, Ahead, Past, Fine
<1> QED
  BY <1>3 DEF q

LEMMA StopsBehindLast ==
    ASSUME NEW side \in Sides, NEW w, IsWindow(w), NEW n \in Nat, n > 0, NEW pad \in Nat, pad > 0,
           NEW stop \in Stops(side, Rearmost(side, Recent(w, n)), pad, w)
    PROVE  stop \in Int /\ Ahead(side, Close(w), stop)
<1>1. PICK x \in Rearmost(side, Recent(w, n)) : stop = Toward(side, Fine * x, -(pad * w.atr))
  BY DEF Stops
<1>2. x \in Int
  BY <1>1, CandlesOfWindow, ExtremesAreNumbers
<1>3. Past(side, Rear(side, Last(w)), x)
  BY <1>1, Members, RearmostIsBehind
<1>4. Past(side, Last(w).close, x)
  BY <1>2, <1>3, AheadTypes DEF Sides, Past
<1> QED
  BY <1>1, <1>2, <1>4, AheadTypes, PaddedStop DEF Close

\* Behind the candles before the last, whose close is past the previous one's.
LEMMA StopsBehindPrevious ==
    ASSUME NEW side \in Sides, NEW w, IsWindow(w), NEW n \in Nat, n > 0, NEW pad \in Nat, pad > 0,
           NEW X \in SUBSET Rearmost(side, Before(w, n)), NEW stop \in Stops(side, X, pad, w),
           Past(side, Last(w).close, Rear(side, Prev(w)))
    PROVE  stop \in Int /\ Ahead(side, Close(w), stop)
<1>1. PICK x \in Rearmost(side, Before(w, n)) : stop = Toward(side, Fine * x, -(pad * w.atr))
  BY DEF Stops
<1>2. x \in Int
  BY <1>1, CandlesOfWindow, ExtremesAreNumbers
<1>3. Past(side, Rear(side, Prev(w)), x)
  BY <1>1, Members, RearmostIsBehind
<1>4. Past(side, Last(w).close, x)
  BY <1>2, <1>3, AheadTypes DEF Sides, Past
<1> QED
  BY <1>1, <1>2, <1>4, AheadTypes, PaddedStop DEF Close

\* A candle that breaks the previous one closes past all of it.
LEMMA BreaksPast ==
    ASSUME NEW side \in Sides, NEW w, IsWindow(w), Breaks(side, w)
    PROVE  Past(side, Last(w).close, Rear(side, Prev(w)))
  BY AheadTypes DEF Breaks, Ahead, Past, Sides

\* Reward multiples, the second no smaller than the first, make a plan.
LEMMA PlannedIsWell ==
    ASSUME NEW side \in Sides, NEW entry \in Int, NEW stop \in Int, Ahead(side, entry, stop),
           NEW m1 \in Nat, NEW m2 \in Nat, 0 < m1, m1 <= m2
    PROVE  WellPlanned(Planned(side, entry, stop, m1, m2))
<1> DEFINE d == Abs(entry - stop)
<1>1. d \in Nat /\ d > 0
  BY DEF Ahead, Abs
<1> DEFINE a == d * m1
           b == d * m2
<1>2. a \in Nat /\ a > 0 /\ b \in Nat /\ a <= b
  BY <1>1, ProductPositive, ProductOrder
<1>3. Planned(side, entry, stop, m1, m2) =
        [side |-> side, entry |-> R * entry, stop |-> R * stop,
         tp1 |-> Toward(side, R * entry, a), tp2 |-> Toward(side, R * entry, b)]
  BY DEF Planned
<1> HIDE DEF d, a, b
<1> QED
  BY <1>2, <1>3 DEF WellPlanned, Toward, Past, Ahead, Sides, R

-----------------------------------------------------------------------------
(* One strategy at a time.                                                 *)

\* What is shown of every plan a strategy builds from a window.
Sound(w, p) == WellPlanned(p) /\ EntryTouched(w, p)

LEMMA PlannedAtClose ==
    ASSUME NEW w, IsWindow(w), NEW side \in Sides, NEW stop \in Int,
           Ahead(side, Close(w), stop), NEW m1 \in Nat, NEW m2 \in Nat, 0 < m1, m1 <= m2
    PROVE  Sound(w, Planned(side, Close(w), stop, m1, m2))
<1>1. WellPlanned(Planned(side, Close(w), stop, m1, m2))
  BY AheadTypes, PlannedIsWell
<1>2. Planned(side, Close(w), stop, m1, m2).entry = R * Close(w)
  BY DEF Planned
<1>3. EntryTouched(w, Planned(side, Close(w), stop, m1, m2))
  BY <1>2, WindowFacts DEF EntryTouched, Close, Candle, WellFormed, R, Fine
<1> QED
  BY <1>1, <1>3 DEF Sound

LEMMA TrendIsSound ==
    ASSUME NEW w, IsWindow(w), NEW p \in TrendProfiles, NEW plan \in TrendPlans(p, w)
    PROVE  Sound(w, plan)
<1>0. PICK side \in w.sides : \E stop \in TrendStops(p, w, side) :
        plan = Planned(side, Close(w), stop, 1200, 2400)
  BY DEF TrendPlans
<1>1. PICK stop \in TrendStops(p, w, side) :
        plan = Planned(side, Close(w), stop, 1200, 2400)
  BY <1>0
<1>2. side \in Sides
  BY <1>1, WindowFacts
<1>3. stop \in Stops(side, Rearmost(side, Recent(w, 2)), 2500, w)
  BY <1>1 DEF TrendStops
<1>4. stop \in Int /\ Ahead(side, Close(w), stop)
  BY <1>2, <1>3, StopsBehindLast
<1> QED
  BY <1>1, <1>2, <1>4, PlannedAtClose

LEMMA SwingIsSound ==
    ASSUME NEW w, IsWindow(w), NEW p \in {SwingStrict, SwingBalanced}, NEW plan \in SwingPlans(p, w)
    PROVE  Sound(w, plan)
<1>0. PICK side \in w.sides : \E stop \in SwingStops(p, w, side) :
        plan = Planned(side, Close(w), stop, p.tp1[w.strength], p.tp2[w.strength])
  BY DEF SwingPlans
<1>1. PICK stop \in SwingStops(p, w, side) :
        plan = Planned(side, Close(w), stop, p.tp1[w.strength], p.tp2[w.strength])
  BY <1>0
<1>2. side \in Sides /\ w.strength \in {"strong", "neutral", "weak"}
  BY <1>1, WindowFacts DEF IsWindow, Windows
<1>3. /\ p.stopPad[w.strength] \in Nat /\ p.stopPad[w.strength] > 0
      /\ p.tp1[w.strength] \in Nat /\ p.tp1[w.strength] > 0
      /\ p.tp2[w.strength] \in Nat /\ p.tp1[w.strength] <= p.tp2[w.strength]
  BY <1>2 DEF SwingStrict, SwingBalanced
<1>4. PICK n \in 2..37 : stop \in Stops(side, Rearmost(side, Before(w, n)), p.stopPad[w.strength], w)
  BY <1>1 DEF SwingStops
<1>5. Past(side, Last(w).close, Rear(side, Prev(w)))
  BY <1>1, <1>2, AheadTypes DEF SwingStops, Ahead, Past, Sides
<1>6. stop \in Int /\ Ahead(side, Close(w), stop)
  BY <1>2, <1>3, <1>4, <1>5, StopsBehindPrevious
<1> QED
  BY <1>1, <1>2, <1>3, <1>6, PlannedAtClose

LEMMA ReloadIsSound ==
    ASSUME NEW w, IsWindow(w), NEW p \in ReloadProfiles, NEW plan \in ReloadPlans(p, w)
    PROVE  Sound(w, plan)
<1>0. PICK side \in w.sides : \E stop \in ReloadStops(p, w, side) :
        plan = Planned(side, Close(w), stop, p.tp1, p.tp2)
  BY DEF ReloadPlans
<1>1. PICK stop \in ReloadStops(p, w, side) :
        plan = Planned(side, Close(w), stop, p.tp1, p.tp2)
  BY <1>0
<1>2. side \in Sides
  BY <1>1, WindowFacts
<1>3. /\ p.stopPad \in Nat /\ p.stopPad > 0 /\ p.maxBars \in Nat
      /\ p.tp1 \in Nat /\ p.tp1 > 0 /\ p.tp2 \in Nat /\ p.tp1 <= p.tp2
  BY DEF ReloadProfiles
<1>4. PICK n \in 2..(p.maxBars - 1) : \E X \in SUBSET Rearmost(side, Before(w, n)) :
        stop \in Stops(side, X, p.stopPad, w)
  BY <1>1 DEF ReloadStops
<1>5. Past(side, Last(w).close, Rear(side, Prev(w)))
  BY <1>1, <1>2, BreaksPast DEF ReloadStops
<1>6. stop \in Int /\ Ahead(side, Close(w), stop)
  BY <1>2, <1>3, <1>4, <1>5, StopsBehindPrevious
<1> QED
  BY <1>1, <1>2, <1>3, <1>6, PlannedAtClose

LEMMA ReversionProfileFacts ==
    ASSUME NEW p \in ReversionProfiles
    PROVE  /\ p.minStretch \in Nat /\ p.valueBuffer \in Nat /\ p.minTarget \in Nat
           /\ p.maxTarget \in Nat /\ p.minTarget > 0 /\ p.minTarget <= p.maxTarget
           /\ p.minTarget + p.valueBuffer <= p.minStretch
           /\ p.tp1 \in Nat /\ p.tp1 > 0 /\ p.fraction \in Nat /\ p.fraction > 0
           /\ p.fraction <= R /\ R \in Nat
  BY DEF ReversionProfiles, R

\* The second target is between the least distance and the value anchor.
LEMMA ReversionDistanceFacts ==
    ASSUME NEW w, IsWindow(w), NEW p \in ReversionProfiles,
           Abs(Close(w) - w.anchor) >= p.minStretch * w.atr
    PROVE  /\ ReversionDistance(p, w) \in Nat /\ ReversionDistance(p, w) > 0
           /\ ReversionDistance(p, w) <= Abs(Close(w) - w.anchor)
<1> DEFINE least == p.minTarget * w.atr
           most == p.maxTarget * w.atr
           buffer == p.valueBuffer * w.atr
           stretch == p.minStretch * w.atr
           away == Abs(Close(w) - w.anchor)
<1>1. least \in Nat /\ least > 0 /\ most \in Nat /\ buffer \in Nat /\ stretch \in Nat
  <2>1. /\ w.atr \in Nat /\ w.atr > 0 /\ p.minTarget \in Nat /\ p.minTarget > 0
        /\ p.maxTarget \in Nat /\ p.valueBuffer \in Nat /\ p.minStretch \in Nat
    BY WindowFacts, ReversionProfileFacts
  <2>2. least \in Nat /\ least > 0
    BY <2>1, ProductPositive
  <2> QED
    BY <2>1, <2>2
<1>2. least + buffer <= stretch
  <2>1. (p.minTarget + p.valueBuffer) * w.atr = least + buffer
    BY WindowFacts, ReversionProfileFacts
  <2>2. w.atr * (p.minTarget + p.valueBuffer) <= w.atr * p.minStretch
    <3>1. /\ w.atr \in Nat /\ p.minStretch \in Nat /\ p.minTarget + p.valueBuffer \in Nat
          /\ p.minTarget + p.valueBuffer <= p.minStretch
      BY WindowFacts, ReversionProfileFacts
    <3> QED
      BY <3>1, ProductOrder
  <2> QED
    BY <2>1, <2>2, WindowFacts, ReversionProfileFacts
<1>3. away \in Nat /\ away >= stretch
  BY WindowFacts DEF Abs, Close, Candle, Fine
<1>4. ReversionDistance(p, w) = Greater(least, Lesser(most, away - buffer))
  BY DEF ReversionDistance
<1> HIDE DEF least, most, buffer, stretch, away
<1>5. /\ ReversionDistance(p, w) \in Nat /\ ReversionDistance(p, w) > 0
      /\ ReversionDistance(p, w) <= away
  BY <1>1, <1>2, <1>3, <1>4 DEF Greater, Lesser
<1> QED
  BY <1>5 DEF away

LEMMA ReversionIsSound ==
    ASSUME NEW w, IsWindow(w), NEW p \in ReversionProfiles, NEW plan \in ReversionPlans(p, w)
    PROVE  Sound(w, plan)
<1>0. PICK side \in w.sides : \E stop \in ReversionStops(p, w, side) :
        plan = ReversionPlan(p, w, side, stop)
  BY DEF ReversionPlans
<1>1. PICK stop \in ReversionStops(p, w, side) :
        plan = ReversionPlan(p, w, side, stop)
  BY <1>0
<1>2. side \in Sides
  BY <1>1, WindowFacts
<1>3. stop \in Stops(side, Rearmost(side, Recent(w, 2)), 1500, w)
  BY <1>1 DEF ReversionStops
<1>4. stop \in Int /\ Ahead(side, Close(w), stop)
  BY <1>2, <1>3, StopsBehindLast
<1> DEFINE second == ReversionDistance(p, w)
           reward == Abs(Close(w) - stop) * p.tp1
           part == second * p.fraction
           whole == R * second
           first == Lesser(reward, part)
<1>5. second \in Nat /\ second > 0
  BY <1>1, ReversionDistanceFacts DEF ReversionStops
<1>6. reward \in Nat /\ reward > 0
  <2>1. Abs(Close(w) - stop) \in Nat /\ Abs(Close(w) - stop) > 0
    BY <1>2, <1>4, AheadTypes DEF Abs, Ahead
  <2>2. p.tp1 \in Nat /\ p.tp1 > 0
    BY ReversionProfileFacts
  <2> QED
    BY <2>1, <2>2, ProductPositive
<1>7. part \in Nat /\ part > 0 /\ part <= whole /\ whole \in Nat
  <2>1. p.fraction \in Nat /\ p.fraction > 0 /\ p.fraction <= R /\ R \in Nat
    BY ReversionProfileFacts
  <2>2. part \in Nat /\ part > 0
    BY <2>1, <1>5, ProductPositive
  <2>3. second * p.fraction <= second * R
    BY <2>1, <1>5, ProductOrder
  <2> QED
    BY <2>2, <2>3, <1>5 DEF R
<1>8. first \in Nat /\ first > 0 /\ first <= whole
  BY <1>6, <1>7 DEF Lesser
<1>9. plan = [side |-> side, entry |-> R * Close(w), stop |-> R * stop,
              tp1 |-> Toward(side, R * Close(w), first), tp2 |-> Toward(side, R * Close(w), whole)]
  BY <1>1 DEF ReversionPlan
<1> HIDE DEF second, reward, part, whole, first
<1>10. WellPlanned(plan)
  BY <1>2, <1>4, <1>7, <1>8, <1>9, AheadTypes DEF WellPlanned, Toward, Past, Ahead, Sides, R
<1>11. EntryTouched(w, plan)
  BY <1>9, WindowFacts DEF EntryTouched, Close, Candle, WellFormed, R, Fine
<1> QED
  BY <1>10, <1>11 DEF Sound

LEMMA BreakoutProfileFacts ==
    ASSUME NEW p \in BreakoutProfiles
    PROVE  /\ p.buffer \in Nat /\ p.minOffset \in Nat /\ p.buffer <= p.minOffset
           /\ p.minOffset > 0 /\ p.tp1 \in Nat /\ p.tp1 > 0
           /\ p.tp2 \in Nat /\ p.tp1 <= p.tp2
           /\ (p.tp2 * p.boost) \div R \in Nat /\ p.tp1 <= (p.tp2 * p.boost) \div R
<1> DEFINE Ranged(q) ==
             /\ q.buffer \in Nat /\ q.buffer <= 600 /\ q.minOffset \in Nat /\ q.minOffset >= 1500
             /\ q.tp1 \in Nat /\ q.tp1 >= 1000 /\ q.tp1 <= 1250 /\ q.tp2 \in Nat /\ q.tp2 >= 2000
             /\ q.boost \in {1000, 1080, 1100}
<1>1. Ranged(CombinedBreakout)
  BY DEF CombinedBreakout
<1>2. ASSUME NEW c \in BreakoutConfigs
      PROVE  Ranged(c) /\ Ranged(Personal(c)) /\ Ranged(Prop(c)) /\ Ranged(Baseline(c))
  <2>1. CASE c = [minOffset |-> 2200, maxChase |-> 5000, minRoom |-> 1700, buffer |-> 600,
                  tp1 |-> 1150, tp2 |-> 2550, boost |-> 1100]
    BY <2>1 DEF Personal, Prop, Baseline, Greater, R
  <2>2. CASE c = [minOffset |-> 1500, maxChase |-> 8000, minRoom |-> 1350, buffer |-> 500,
                  tp1 |-> 1250, tp2 |-> 2600, boost |-> 1080]
    BY <2>2 DEF Personal, Prop, Baseline, Greater, R
  <2> HIDE DEF Ranged
  <2> QED
    BY <2>1, <2>2 DEF BreakoutConfigs
<1>3. Ranged(p)
  BY <1>1, <1>2 DEF BreakoutProfiles
<1> DEFINE n == p.tp2
<1>4. n \in Nat /\ (n * 1000) \div 1000 \in Nat /\ n <= (n * 1000) \div 1000
      /\ (n * 1080) \div 1000 \in Nat /\ n <= (n * 1080) \div 1000
      /\ (n * 1100) \div 1000 \in Nat /\ n <= (n * 1100) \div 1000
  <2>1. n \in Nat
    BY <1>3
  <2> HIDE DEF n
  <2> QED
    BY <2>1
<1>5. (p.tp2 * p.boost) \div R \in Nat /\ p.tp2 <= (p.tp2 * p.boost) \div R
  BY <1>3, <1>4 DEF R
<1> QED
  BY <1>3, <1>5

\* A breakout is entered between the broken level and the close: at the close,
\* unless the candle came back to the level.
LEMMA BreakoutEntryFacts ==
    ASSUME NEW w, IsWindow(w), NEW p \in BreakoutProfiles, NEW side \in Sides,
           NEW level \in Int, Ahead(side, Close(w), Toward(side, Fine * level, p.minOffset * w.atr))
    PROVE  /\ BreakoutEntry(p, w, side, level) \in Int
           /\ Past(side, BreakoutEntry(p, w, side, level), Fine * level)
           /\ Past(side, Close(w), BreakoutEntry(p, w, side, level))
           /\ Ahead(side, Close(w), Fine * level)
           /\ Retests(side, w, level) => Ahead(side, Close(w), BreakoutEntry(p, w, side, level))
           /\ ~Retests(side, w, level) => BreakoutEntry(p, w, side, level) = Close(w)
<1> DEFINE offset == p.minOffset * w.atr
           buffer == p.buffer * w.atr
<1>1. offset \in Nat /\ offset > 0 /\ buffer \in Nat
  BY WindowFacts, BreakoutProfileFacts, ProductPositive
<1>2. buffer <= offset
  <2>1. w.atr \in Nat /\ p.buffer \in Nat /\ p.minOffset \in Nat /\ p.buffer <= p.minOffset
    BY WindowFacts, BreakoutProfileFacts
  <2>2. w.atr * p.buffer <= w.atr * p.minOffset
    BY <2>1, ProductOrder
  <2> QED
    BY <2>1, <2>2
<1>3. /\ Ahead(side, Close(w), Toward(side, Fine * level, offset))
      /\ BreakoutEntry(p, w, side, level) =
           IF Retests(side, w, level) THEN Toward(side, Fine * level, buffer)
           ELSE InFront(side, Close(w), Toward(side, Fine * level, buffer))
  BY DEF BreakoutEntry
<1> HIDE DEF offset, buffer
<1> QED
  BY <1>1, <1>2, <1>3, AheadTypes DEF Ahead, Past, Toward, InFront, Sides, Fine

LEMMA BreakoutIsSound ==
    ASSUME NEW w, IsWindow(w), NEW p \in BreakoutProfiles, NEW plan \in BreakoutPlans(p, w)
    PROVE  Sound(w, plan)
<1>0. PICK side \in w.sides : \E level \in BreakoutLevels(p, w, side) :
        plan = BreakoutPlan(p, w, side, level)
  BY DEF BreakoutPlans
<1>1. PICK level \in BreakoutLevels(p, w, side) : plan = BreakoutPlan(p, w, side, level)
  BY <1>0
<1>2. side \in Sides
  BY WindowFacts
<1>3. /\ level \in Int
      /\ Ahead(side, Close(w), Toward(side, Fine * level, p.minOffset * w.atr))
  BY <1>2, CandlesOfWindow, ExtremesAreNumbers DEF BreakoutLevels
<1> DEFINE entry == BreakoutEntry(p, w, side, level)
           stop == BreakoutStop(w, side, level)
           base == Behind(side, Rear(side, Last(w)), level)
<1>4. entry \in Int /\ Past(side, entry, Fine * level) /\ Past(side, Close(w), entry)
  BY <1>2, <1>3, BreakoutEntryFacts
<1>5. stop \in Int /\ Ahead(side, entry, stop)
  <2>1. base \in Int /\ Past(side, level, base)
    BY <1>2, <1>3, AheadTypes DEF Behind, Past, Sides
  <2>2. stop \in Int /\ Ahead(side, Fine * level, stop)
    BY <1>2, <1>3, <2>1, PaddedStop DEF BreakoutStop
  <2> QED
    BY <1>2, <1>3, <1>4, <2>2 DEF Ahead, Past, Sides, Fine
<1>6. WellPlanned(plan)
  <2>1. CASE w.strength = "strong"
    BY <1>1, <1>2, <1>4, <1>5, <2>1, BreakoutProfileFacts, PlannedIsWell DEF BreakoutPlan
  <2>2. CASE w.strength # "strong"
    BY <1>1, <1>2, <1>4, <1>5, <2>2, BreakoutProfileFacts, PlannedIsWell DEF BreakoutPlan
  <2> QED
    BY <2>1, <2>2
<1>7. EntryTouched(w, plan)
  <2>1. plan.entry = R * entry
    BY <1>1 DEF BreakoutPlan, Planned
  <2>2. Fine * Last(w).low <= entry /\ entry <= Fine * Last(w).high
    <3>1. CASE Retests(side, w, level)
      BY <1>2, <1>3, <1>4, <3>1, WindowFacts
         DEF Retests, Past, Rear, Sides, Close, Candle, WellFormed, Fine
    <3>2. CASE ~Retests(side, w, level)
      BY <1>2, <1>3, <3>2, BreakoutEntryFacts, WindowFacts DEF Close, Candle, WellFormed, Fine
    <3> QED
      BY <3>1, <3>2
  <2> HIDE DEF entry
  <2> QED
    BY <1>4, <2>1, <2>2, WindowFacts DEF EntryTouched, Candle, R, Fine
<1> QED
  BY <1>6, <1>7 DEF Sound

\* What either five-minute strategy needs of its configuration.
LEMMA DefaultFacts ==
    ASSUME NEW p \in {ContinuationDefault, ScalpDefault}
    PROVE  /\ p.back \in Nat /\ p.back > 0 /\ p.stopPad \in Nat /\ p.stopPad > 0
           /\ p.tp1 \in Nat /\ p.tp1 > 0 /\ p.tp2 \in Nat /\ p.tp1 <= p.tp2
  BY DEF ContinuationDefault, ScalpDefault

LEMMA PullbackStopsBehind ==
    ASSUME NEW w, IsWindow(w), NEW p \in {ContinuationDefault, ScalpDefault}, NEW side \in Sides,
           Breaks(side, w), NEW stop \in PullbackStops(p, w, side)
    PROVE  stop \in Int /\ Ahead(side, Close(w), stop)
<1>1. PICK back \in Rearmost(side, Before(w, p.back)) : stop \in Stops(side, {back}, p.stopPad, w)
  BY DEF PullbackStops
<1> QED
  BY <1>1, DefaultFacts, BreaksPast, StopsBehindPrevious

LEMMA RangeStopsBehind ==
    ASSUME NEW w, IsWindow(w), NEW p \in {ContinuationDefault, ScalpDefault}, NEW side \in Sides,
           NEW stop \in RangeStops(p, w, side)
    PROVE  stop \in Int /\ Ahead(side, Close(w), stop)
<1>1. PICK back \in Rearmost(side, Before(w, 5)) :
        /\ stop \in Stops(side, {back}, p.stopPad, w)
        /\ \E edge \in Foremost(side, Before(w, 5)) : Ahead(side, Last(w).close, edge)
  BY DEF RangeStops
<1>2. PICK edge \in Foremost(side, Before(w, 5)) : Ahead(side, Last(w).close, edge)
  BY <1>1
<1>3. edge \in Int /\ Past(side, edge, Front(side, Prev(w)))
  BY <1>2, Members, CandlesOfWindow, ExtremesAreNumbers, ForemostIsAhead
<1>4. Past(side, Last(w).close, Rear(side, Prev(w)))
  BY <1>2, <1>3, AheadTypes DEF Ahead, Past, Sides
<1> QED
  BY <1>1, <1>4, DefaultFacts, StopsBehindPrevious

LEMMA ReclaimStopsBehind ==
    ASSUME NEW w, IsWindow(w), NEW p \in {ContinuationDefault, ScalpDefault}, NEW side \in Sides,
           NEW stop \in ReclaimStops(p, w, side)
    PROVE  stop \in Int /\ Ahead(side, Close(w), stop)
  BY DefaultFacts, StopsBehindLast DEF ReclaimStops

LEMMA ResetStopsBehind ==
    ASSUME NEW w, IsWindow(w), NEW p \in {ContinuationDefault, ScalpDefault}, NEW side \in Sides,
           NEW stop \in ResetStops(p, w, side)
    PROVE  stop \in Int /\ Ahead(side, Close(w), stop)
  BY DefaultFacts, StopsBehindLast DEF ResetStops

LEMMA PulseStopsBehind ==
    ASSUME NEW w, IsWindow(w), NEW p \in {ContinuationDefault, ScalpDefault}, NEW side \in Sides,
           NEW stop \in PulseStops(p, w, side)
    PROVE  stop \in Int /\ Ahead(side, Close(w), stop)
  BY DefaultFacts, BreaksPast, StopsBehindPrevious DEF PulseStops

LEMMA ContinuationIsSound ==
    ASSUME NEW w, IsWindow(w), NEW plan \in ContinuationPlans(ContinuationDefault, w)
    PROVE  Sound(w, plan)
<1> DEFINE p == ContinuationDefault
<1>0. PICK side \in w.sides : \E stop \in Within(p, w, side, 24, ContinuationStops(p, w, side)) :
        plan = Planned(side, Close(w), stop, p.tp1, p.tp2)
  BY DEF ContinuationPlans
<1>1. PICK stop \in ContinuationStops(p, w, side) :
        plan = Planned(side, Close(w), stop, p.tp1, p.tp2)
  BY <1>0 DEF Within
<1>2. side \in Sides /\ p \in {ContinuationDefault, ScalpDefault}
  BY WindowFacts
<1>3. \/ stop \in PullbackStops(p, w, side) /\ Breaks(side, w)
      \/ stop \in ReclaimStops(p, w, side) \/ stop \in RangeStops(p, w, side)
  BY DEF ContinuationStops, FirstOf
<1>4. stop \in Int /\ Ahead(side, Close(w), stop)
  BY <1>2, <1>3, PullbackStopsBehind, ReclaimStopsBehind, RangeStopsBehind
<1> QED
  BY <1>1, <1>2, <1>4, DefaultFacts, PlannedAtClose

LEMMA ScalpIsSound ==
    ASSUME NEW w, IsWindow(w), NEW plan \in ScalpPlans(ScalpDefault, w)
    PROVE  Sound(w, plan)
<1> DEFINE p == ScalpDefault
<1>0. PICK side \in w.sides : \E stop \in Within(p, w, side, 18, ScalpStops(p, w, side)) :
        plan = Planned(side, Close(w), stop, p.tp1, p.tp2)
  BY DEF ScalpPlans
<1>1. PICK stop \in ScalpStops(p, w, side) : plan = Planned(side, Close(w), stop, p.tp1, p.tp2)
  BY <1>0 DEF Within
<1>2. side \in Sides /\ p \in {ContinuationDefault, ScalpDefault}
  BY WindowFacts
<1>3. \/ stop \in PullbackStops(p, w, side) /\ Breaks(side, w)
      \/ stop \in ResetStops(p, w, side) \/ stop \in RangeStops(p, w, side)
      \/ stop \in PulseStops(p, w, side)
  BY DEF ScalpStops, FirstOf
<1>4. stop \in Int /\ Ahead(side, Close(w), stop)
  BY <1>2, <1>3, PullbackStopsBehind, ResetStopsBehind, RangeStopsBehind, PulseStopsBehind
<1> QED
  BY <1>1, <1>2, <1>4, DefaultFacts, PlannedAtClose

LEMMA MockIsSound ==
    ASSUME NEW w, IsWindow(w), NEW plan \in MockPlans(w)
    PROVE  Sound(w, plan)
<1>1. PICK side \in Sides :
        plan = Planned(side, Close(w), Toward(side, Close(w), -(Fine * w.atr)), R, 2 * R)
  BY DEF MockPlans
<1> DEFINE stop == Toward(side, Close(w), -(Fine * w.atr))
<1>2. stop \in Int /\ Ahead(side, Close(w), stop)
  <2> DEFINE q == Fine * w.atr
  <2>1. q \in Nat /\ q > 0
    BY WindowFacts DEF Fine
  <2>2. stop = Toward(side, Close(w), -q) /\ Close(w) \in Int
    BY AheadTypes
  <2> HIDE DEF q, stop
  <2> QED
    BY <2>1, <2>2 DEF Toward, Ahead, Past, Sides
<1>3. R \in Nat /\ 0 < R /\ 2 * R \in Nat /\ R <= 2 * R
  BY DEF R
<1> QED
  BY <1>1, <1>2, <1>3, PlannedAtClose

LEMMA AnyIsSound ==
    ASSUME NEW w, IsWindow(w), NEW plan \in AnyPlans(w)
    PROVE  Sound(w, plan)
<1>1. \/ \E p \in TrendProfiles : plan \in TrendPlans(p, w)
      \/ \E p \in {SwingStrict, SwingBalanced} : plan \in SwingPlans(p, w)
      \/ \E p \in ReloadProfiles : plan \in ReloadPlans(p, w)
      \/ \E p \in BreakoutProfiles : plan \in BreakoutPlans(p, w)
      \/ \E p \in ReversionProfiles : plan \in ReversionPlans(p, w)
      \/ plan \in ContinuationPlans(ContinuationDefault, w)
      \/ plan \in ScalpPlans(ScalpDefault, w)
      \/ plan \in MockPlans(w)
  BY DEF AnyPlans
<1> QED
  BY <1>1, TrendIsSound, SwingIsSound, ReloadIsSound, BreakoutIsSound, ReversionIsSound,
     ContinuationIsSound, ScalpIsSound, MockIsSound

-----------------------------------------------------------------------------
(* The theorems.                                                           *)

\* Whatever window a strategy sees, with every profile it is registered with,
\* the plan it builds has its stop behind the entry and its targets ahead of
\* it in their order, for both sides: what the engine that replays the plan
\* takes for granted and never validates.
THEOREM PlansAreWellPlanned ==
    ASSUME NEW w, IsWindow(w), NEW plan \in AnyPlans(w)
    PROVE  WellPlanned(plan)
  BY AnyIsSound DEF Sound

\* Every plan is entered within the candle it was built from: the engine's
\* check that the entry was touched on that candle rejects nothing.
THEOREM EntriesAreTouched ==
    ASSUME NEW w, IsWindow(w), NEW plan \in AnyPlans(w)
    PROVE  EntryTouched(w, plan)
  BY AnyIsSound DEF Sound

\* A breakout whose candle came back to the broken level is entered strictly
\* behind the close that confirmed it: the replay buys at a price that was
\* gone when the signal was known.  Without a retest the entry is the close.
THEOREM RetestsFillBehindTheClose ==
    ASSUME NEW w, IsWindow(w), NEW p \in BreakoutProfiles, NEW side \in w.sides,
           NEW level \in BreakoutLevels(p, w, side)
    PROVE  IF Retests(side, w, level)
           THEN Ahead(side, R * Close(w), BreakoutPlan(p, w, side, level).entry)
           ELSE BreakoutPlan(p, w, side, level).entry = R * Close(w)
<1>1. side \in Sides
  BY WindowFacts
<1>2. level \in Int /\ Ahead(side, Close(w), Toward(side, Fine * level, p.minOffset * w.atr))
  BY <1>1, CandlesOfWindow, ExtremesAreNumbers DEF BreakoutLevels
<1> DEFINE entry == BreakoutEntry(p, w, side, level)
<1>3. /\ entry \in Int
      /\ Retests(side, w, level) => Ahead(side, Close(w), entry)
      /\ ~Retests(side, w, level) => entry = Close(w)
  BY <1>1, <1>2, BreakoutEntryFacts
<1>4. BreakoutPlan(p, w, side, level).entry = R * entry
  BY DEF BreakoutPlan, Planned
<1> HIDE DEF entry
<1> QED
  BY <1>1, <1>3, <1>4, AheadTypes DEF Ahead, Past, Sides, R

\* A reversion never aims beyond the value it reverts to: although the least
\* distance of its second target is a bound of its own, the stretch each
\* profile demands leaves room for it and for the buffer before the anchor.
THEOREM ReversionsStopAtValue ==
    ASSUME NEW w, IsWindow(w), NEW p \in ReversionProfiles, NEW plan \in ReversionPlans(p, w)
    PROVE  Past(plan.side, R * w.anchor, plan.tp2)
<1>1. PICK side \in w.sides : \E stop \in ReversionStops(p, w, side) :
        plan = ReversionPlan(p, w, side, stop)
  BY DEF ReversionPlans
<1>2. PICK stop \in ReversionStops(p, w, side) : plan = ReversionPlan(p, w, side, stop)
  BY <1>1
<1>3. side \in Sides /\ Ahead(side, w.anchor, Close(w))
  BY <1>2, WindowFacts DEF ReversionStops
<1> DEFINE second == ReversionDistance(p, w)
<1>4. second \in Nat /\ second <= Abs(Close(w) - w.anchor)
  BY <1>2, ReversionDistanceFacts DEF ReversionStops
<1>5. plan.side = side /\ plan.tp2 = Toward(side, R * Close(w), R * second)
  BY <1>2 DEF ReversionPlan
<1> HIDE DEF second
<1>6. CASE side = "LONG"
  BY <1>3, <1>4, <1>5, <1>6, AheadTypes, WindowFacts DEF Past, Ahead, Toward, Abs, R
<1>7. CASE side = "SHORT"
  BY <1>3, <1>4, <1>5, <1>7, AheadTypes, WindowFacts DEF Past, Ahead, Toward, Abs, R
<1> QED
  BY <1>3, <1>6, <1>7 DEF Sides

\* The more efficient of two candidates is above the floor if either is.
LEMMA EfficientIsAboveFloor ==
    ASSUME NEW x \in Nat, NEW y \in Nat, NEW u \in Nat, NEW v \in Nat, v > 0, u > 0,
           NEW f \in Nat, y * u <= x * v, 10 * v <= y * f
    PROVE  10 * u <= x * f
<1>1. SUFFICES ASSUME x * f < 10 * u PROVE FALSE
  OBVIOUS
<1>2. (x * f) * v < (10 * u) * v
  BY <1>1
<1>3. (10 * v) * u <= (y * f) * u
  BY ProductOrder
<1>4. (y * u) * f <= (x * v) * f
  BY ProductOrder
<1>5. (10 * u) * v = (10 * v) * u /\ (y * f) * u = (y * u) * f /\ (x * f) * v = (x * v) * f
  OBVIOUS
<1> DEFINE a == (x * v) * f
           b == (y * u) * f
           c == (10 * v) * u
<1>6. a < c /\ c <= b /\ b <= a /\ a \in Int /\ b \in Int /\ c \in Int
  BY <1>2, <1>3, <1>4, <1>5
<1> HIDE DEF a, b, c
<1> QED
  BY <1>6

\* The arbitration measures a score against a price: with scores of at most a
\* hundred no winner, alone or of two, risks more than ten price units, so on a
\* symbol quoted in the tens of thousands the combined strategy never trades.
THEOREM WinnersRiskLittle ==
    ASSUME NEW bs, NEW ss,
           \A c \in bs \cup ss : c.score \in 0..100 /\ Risk(c) \in Nat /\ Risk(c) > 0,
           NEW c \in selectWinner(bs, ss)
    PROVE  Risk(c) <= 10 * Fine * R
<1> DEFINE f == Fine * R
<1>1. f \in Nat
  BY DEF Fine, R
<1>2. ASSUME NEW d \in bs \cup ss, ~BelowFloor(d)
      PROVE  Risk(d) <= 10 * Fine * R
  <2>1. d.score \in Nat /\ d.score <= 100 /\ Risk(d) \in Nat
    BY <1>2
  <2>2. 10 * Risk(d) <= d.score * Fine * R
    BY <1>2, <2>1 DEF BelowFloor, Fine, R
  <2> QED
    BY <2>1, <2>2 DEF Fine, R
<1>3. c \in bs \cup ss /\ ~BelowFloor(c)
  <2>1. CASE bs = {} \/ ss = {}
    BY <2>1 DEF selectWinner
  <2>2. CASE ~(bs = {} \/ ss = {})
    <3>1. PICK b \in bs : c \in {Better(b, s) : s \in {x \in ss :
             /\ ~(BelowFloor(b) /\ BelowFloor(x)) /\ ~Tied(b, x)}}
      BY <2>2 DEF selectWinner
    <3>2. PICK s \in ss : c = Better(b, s) /\ ~(BelowFloor(b) /\ BelowFloor(s))
      BY <3>1
    <3>3. /\ b.score \in Nat /\ Risk(b) \in Nat /\ Risk(b) > 0
          /\ s.score \in Nat /\ Risk(s) \in Nat /\ Risk(s) > 0
      BY <3>1, <3>2
    <3>4. /\ BelowFloor(b) <=> ~(10 * Risk(b) <= b.score * f)
          /\ BelowFloor(s) <=> ~(10 * Risk(s) <= s.score * f)
      BY <3>3 DEF BelowFloor, Fine, R
    <3>5. CASE b.score * Risk(s) > s.score * Risk(b)
      <4>1. c = b /\ s.score * Risk(b) <= b.score * Risk(s)
        BY <3>2, <3>3, <3>5 DEF Better
      <4> HIDE DEF f
      <4> QED
        BY <1>1, <3>1, <3>2, <3>3, <3>4, <4>1, EfficientIsAboveFloor
    <3>6. CASE ~(b.score * Risk(s) > s.score * Risk(b))
      <4>1. c = s /\ b.score * Risk(s) <= s.score * Risk(b)
        BY <3>2, <3>3, <3>6 DEF Better
      <4> HIDE DEF f
      <4> QED
        BY <1>1, <3>1, <3>2, <3>3, <3>4, <4>1, EfficientIsAboveFloor
    <3> QED
      BY <3>5, <3>6
  <2> QED
    BY <2>1, <2>2
<1> QED
  BY <1>2, <1>3
=============================================================================
