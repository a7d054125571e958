----------------------------- MODULE MCBacktest -----------------------------
(* A small instance of Backtest: one long and one short plan, candles that *)
(* stand still, run to a target, run through everything or fall to a stop. *)
(* The plans of the strategies are evaluated over every window of four     *)
(* candles out of four shapes and their mirror images.                     *)
EXTENDS Backtest

S == INSTANCE Strategies

Bar(open, low, high, close) == [open |-> open, low |-> low, high |-> high, close |-> close]

MCCandles == {Bar(10, 9, 11, 10),       \* nothing but the entries
              Bar(12, 11, 13, 13),      \* past the first target, strongly
              Bar(14, 14, 15, 15),      \* on past the target of a continuation
              Bar(11, 7, 15, 9),        \* through every level
              Bar(12, 12, 16, 15),      \* gaps to the second target
              Bar(8, 5, 9, 7)}          \* gaps through the stop

Planned(side, entry, stop, tp1, tp2, early, grade) ==
    [side |-> side, entry |-> entry, stop |-> stop, tp1 |-> tp1, tp2 |-> tp2,
     early |-> early, grade |-> grade]

MCPlans == {Planned("LONG", 10, 8, 12, 14, TRUE, "A"),
            Planned("SHORT", 10, 12, 8, 6, FALSE, "B")}
MCAtrs == {2}

-----------------------------------------------------------------------------
Windows(Cs) == [candles : {<<a, b, c, d>> : a \in Cs, b \in Cs, c \in Cs, d \in Cs},
                atr : {4}, anchor : {S!Fine * 12}, sides : {Sides}, strength : {"strong"}]
Rising == {Bar(9, 7, 10, 8), Bar(11, 9, 13, 13), Bar(11, 10, 12, 10), Bar(14, 11, 22, 14)}
Falling == {Bar(24 - b.open, 24 - b.high, 24 - b.low, 24 - b.close) : b \in Rising}
MCWindows == Windows(Rising \cup Falling)

\* The plans are what StrategiesProofs shows, and every strategy builds some.
ASSUME WindowsAreWindows == \A w \in MCWindows :
    /\ \A k \in DOMAIN w.candles : w.candles[k] \in Candle /\ WellFormed(w.candles[k])
    /\ \A p \in S!AnyPlans(w) : WellPlanned(p) /\ S!EntryTouched(w, p)
ASSUME EveryStrategyPlans ==
    /\ \E w \in MCWindows, p \in S!TrendProfiles : S!TrendPlans(p, w) # {}
    /\ \E w \in MCWindows : S!SwingPlans(S!SwingBalanced, w) # {}
    /\ \E w \in MCWindows, p \in S!ReloadProfiles : S!ReloadPlans(p, w) # {}
    /\ \E w \in MCWindows, p \in S!ReversionProfiles : S!ReversionPlans(p, w) # {}
    /\ \E w \in MCWindows : S!ContinuationPlans(S!ContinuationDefault, w) # {}
    /\ \E w \in MCWindows : S!ScalpPlans(S!ScalpDefault, w) # {}
    /\ \E w \in MCWindows, p \in S!BreakoutProfiles, side \in Sides :
         \E level \in S!BreakoutLevels(p, w, side) : S!Retests(side, w, level)
    /\ \E w \in MCWindows, p \in S!BreakoutProfiles, side \in Sides :
         \E level \in S!BreakoutLevels(p, w, side) : ~S!Retests(side, w, level)
=============================================================================
