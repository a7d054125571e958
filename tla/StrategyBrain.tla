---------------------------- MODULE StrategyBrain ----------------------------
(***************************************************************************)
(* The arbitration of signal mode: every ranked candidate is scored, those *)
(* below their expected R are disqualified, the best of the rest may be    *)
(* overridden when it is a scalp, and what remains below a least score is  *)
(* not traded.                                                             *)
(*                                                                         *)
(* cs is the ranked list of candidates and recent the engines selected     *)
(* lately, the last of them last.  Component scores and R are in           *)
(* thousandths, the distance to the stop in ten-thousandths of the entry,  *)
(* and totals in thousandths of a point.  The worker passes no market, so  *)
(* the regime is the candidate's own and the ATR its default of 0.6 %.     *)
(***************************************************************************)
EXTENDS Integers, Sequences, FiniteSets

Engines == {"engine1", "engine2", "engine3", "engine4"}
Regimes == {"compressed", "normal", "expansion"}

Positive(x) == IF x < 0 THEN 0 ELSE x
clamp01(x) == IF x > 1000 THEN 1000 ELSE Positive(x)
Gap(a, b) == IF a < b THEN b - a ELSE a - b

-----------------------------------------------------------------------------
(* What the worker makes of a ranked signal.                               *)

\* The label is that of the locked strategy whatever the signal; the brain
\* knows no engine of that name.
LockedEngine == "engine1_breakout"

toBrainCandidate(s) ==
    [engine |-> LockedEngine, symbol |-> s.symbol, side |-> s.side, rr |-> s.rr, stop |-> s.stop,
     structure |-> clamp01(9 * s.score + s.confidence \div 10),
     cleanliness |-> IF s.rr >= 1800 THEN 920 ELSE IF s.rr >= 1200 THEN 780 ELSE 550,
     regime |-> CASE s.regime = "SHOCK_UNSTABLE" -> "expansion"
                  [] s.regime = "CHOP" -> "compressed" [] OTHER -> "normal",
     profile |-> "none"]

-----------------------------------------------------------------------------
(* The components of the score.                                            *)

ENGINE_PRIORITY == [engine1 |-> 1000, engine2 |-> 880, engine3 |-> 800, engine4 |-> 680]
SHARE_CAP       == [engine1 |-> 300, engine2 |-> 300, engine3 |-> 200, engine4 |-> 350]

expectedRScore(c) ==
    clamp01(IF c.rr < 1000 THEN c.rr \div 5
            ELSE IF c.rr < 1100 THEN 250 + (4 * (c.rr - 1000)) \div 5
            ELSE IF c.rr >= 3000 THEN 1000 ELSE 600 + (4 * (c.rr - 1100)) \div 19)

volatilityAlignment(c) ==
    clamp01(CASE c.regime = "expansion"  -> IF c.stop >= 40 THEN 1000 ELSE 25 * c.stop
              [] c.regime = "compressed" -> IF c.stop <= 80 THEN 1000
                                            ELSE 1000 - (25 * (c.stop - 80)) \div 3
              [] OTHER -> 1000 - 10 * Gap(c.stop, 66))

inferHoldProfile(c) ==
    CASE c.profile = "scalp_fast"            -> "structured_scalp"
      [] c.profile = "intraday_fast"         -> "fast_intraday"
      [] c.profile = "intraday_balanced"     -> "balanced_intraday"
      [] c.profile = "intraday_continuation" -> "continuation_hold"
      [] OTHER -> CASE c.engine = "engine4" /\ c.rr < 1000 -> "weak_micro_scalp"
                    [] c.engine = "engine4" /\ c.rr >= 1000 -> "structured_scalp"
                    [] c.engine = "engine3" /\ c.rr < 1500 -> "fast_intraday"
                    [] c.engine \notin {"engine3", "engine4"} /\ c.regime = "expansion" /\ c.stop >= 45
                         -> "continuation_hold"
                    [] OTHER -> "balanced_intraday"

\* A close stop costs, a far target earns.
TimeStopPenalty(c) == IF c.stop < 18 THEN 80 ELSE IF c.stop < 26 THEN 40 ELSE 0
GeometryBonus(c)   == IF c.rr >= 1800 THEN 80 ELSE IF c.rr >= 1450 THEN 50 ELSE 0

holdScore(c) ==
    LET e == expectedRScore(c)
        profile == inferHoldProfile(c)
    IN  clamp01(
          CASE profile = "weak_micro_scalp"  -> (IF e >= 600 THEN 500 ELSE 300) - TimeStopPenalty(c)
            [] profile = "structured_scalp"  -> (IF e >= 700 THEN 720 ELSE 580)
                                                  - TimeStopPenalty(c) \div 2 + (4 * GeometryBonus(c)) \div 5
            [] profile = "fast_intraday"     -> (IF e >= 720 THEN 740 ELSE 600)
                                                  - (2 * TimeStopPenalty(c)) \div 5 + GeometryBonus(c)
            [] profile = "continuation_hold" -> (IF e >= 750 THEN 900 ELSE 750) + GeometryBonus(c)
            [] OTHER                         -> (IF e >= 750 THEN 840 ELSE 700)
                                                  - (7 * TimeStopPenalty(c)) \div 20 + GeometryBonus(c))

-----------------------------------------------------------------------------
(* What the recent selections cost or earn an engine.                      *)

\* The last n of them count.
Window(recent, n) == IF Len(recent) <= n THEN recent ELSE SubSeq(recent, Len(recent) - n + 1, Len(recent))

Taken(recent, engine) == Cardinality({k \in DOMAIN recent : recent[k] = engine})

\* How many of the latest are of the engine.
trailingCount(recent, engine) ==
    Cardinality({k \in DOMAIN recent : \A l \in k..Len(recent) : recent[l] = engine})

\* By how many thousandths of the window the next selection would exceed the
\* cap, and by how many the engine is short of it, scaled by its length.
ShareOver(recent, engine) ==
    1000 * (Taken(recent, engine) + 1) - SHARE_CAP[engine] * (Len(recent) + 1)
ShareBelow(recent, engine) == SHARE_CAP[engine] * Len(recent) - 1000 * Taken(recent, engine)

sharePenalty(recent, engine) ==
    IF Len(recent) < 20 \/ ShareOver(recent, engine) <= 0 THEN 0
    ELSE IF engine = "engine4" /\ 10 * Taken(recent, engine) < Len(recent) THEN 0
    ELSE LET points == IF ShareOver(recent, engine) <= 50 * (Len(recent) + 1) THEN 2000
                       ELSE IF ShareOver(recent, engine) <= 100 * (Len(recent) + 1) THEN 6000
                       ELSE 11000
         IN  IF engine = "engine4" THEN (5 * points) \div 4 ELSE points

participationSupport(recent, engine) ==
    IF Len(recent) < 20 \/ ShareOver(recent, engine) > 0 THEN 0
    ELSE IF ShareBelow(recent, engine) >= 80 * Len(recent) THEN 2500
    ELSE IF ShareBelow(recent, engine) >= 40 * Len(recent) THEN 1200 ELSE 0

StrongScalp(c, rr, quality, volatility) ==
    /\ c.rr >= rr /\ c.structure >= quality /\ c.cleanliness >= quality
    /\ volatilityAlignment(c) >= volatility

fatiguePenalty(recent, c) ==
    IF c.engine # "engine4" \/ trailingCount(recent, "engine4") = 0 THEN 0
    ELSE LET points == CASE trailingCount(recent, "engine4") = 1 -> 2000
                         [] trailingCount(recent, "engine4") = 2 -> 7000 [] OTHER -> 12000
         IN  IF StrongScalp(c, 1250, 720, 600) THEN (7 * points) \div 20 ELSE points

\* Only the engines the brain knows have a total: that of another is NaN.
Known(c) == c.engine \in Engines
totalScore(c, recent) ==
    27 * c.structure + 28 * expectedRScore(c) + 12 * volatilityAlignment(c)
      + 10 * ENGINE_PRIORITY[c.engine] + 12 * c.cleanliness + 11 * holdScore(c)
      + participationSupport(recent, c.engine) - sharePenalty(recent, c.engine)
      - fatiguePenalty(recent, c)

-----------------------------------------------------------------------------
(* The decision.                                                           *)

resolveExpectedRThreshold(c) ==
    IF c.engine # "engine4" THEN 1100
    ELSE IF c.regime = "expansion" /\ StrongScalp(c, c.rr, 750, 720) THEN 850
    ELSE IF c.regime = "compressed" \/ c.structure < 620 \/ c.cleanliness < 620 THEN 1000
    ELSE 900

Qualified(cs) == {i \in DOMAIN cs : cs[i].rr >= resolveExpectedRThreshold(cs[i])}

\* The order of the sort: comparisons with NaN keep the order given.
Above(cs, recent, i, j) ==
    LET a == totalScore(cs[i], recent)  b == totalScore(cs[j], recent)
    IN  IF Known(cs[i]) /\ Known(cs[j]) THEN a > b \/ (a = b /\ i < j) ELSE i < j

Best(cs, recent, of) == {i \in of : \A j \in of \ {i} : Above(cs, recent, i, j)}

MarginalScalp(c) == c.rr < 1050 \/ c.structure < 650 \/ c.cleanliness < 650

\* Whether the non-scalp n is better enough than the best, a scalp.
ByComponents(s, n) ==
    LET strong == StrongScalp(s, 1250, 750, 650)
    IN  /\ expectedRScore(n) - expectedRScore(s)
              >= (IF strong THEN 120 ELSE IF MarginalScalp(s) THEN 60 ELSE 90)
        /\ n.structure - s.structure >= (IF strong THEN 90 ELSE 60)
ByTotal(s, n, recent) ==
    LET strong == StrongScalp(s, 1250, 750, 650)
    IN  /\ totalScore(n, recent) - totalScore(s, recent)
              >= (IF strong THEN 10000 ELSE IF MarginalScalp(s) THEN 5000 ELSE 7000)
        /\ \/ n.structure - s.structure >= 50 \/ n.cleanliness - s.cleanliness >= 60
           \/ holdScore(n) - holdScore(s) >= 70
Meaningful(s, n, recent) == ByComponents(s, n) \/ ByTotal(s, n, recent)

NonScalps(cs) == {i \in Qualified(cs) : cs[i].engine # "engine4"}

\* The best qualified candidate, or the non-scalp that overrides it.
Preferred(cs, recent) ==
    LET best == Best(cs, recent, Qualified(cs))
        rival == Best(cs, recent, NonScalps(cs))
    IN  IF \E i \in best, j \in rival :
              cs[i].engine = "engine4" /\ Meaningful(cs[i], cs[j], recent)
        THEN rival ELSE best

\* The least total that is traded; asked is minArbitrationScore, 58 points.
dynamicMinScore(c, asked) ==
    LET min == CASE c.regime = "compressed" -> asked + 2000
                 [] c.regime = "expansion" /\ c.engine \in {"engine2", "engine4"} -> asked - 2000
                 [] OTHER -> asked
    IN  IF min > 62000 THEN 62000 ELSE IF min < 55000 THEN 55000 ELSE min

TooLow(c, recent, asked) == Known(c) /\ totalScore(c, recent) < dynamicMinScore(c, asked)

runStrategyBrain(cs, recent, asked) ==
    {i \in Preferred(cs, Window(recent, 100)) : ~TooLow(cs[i], Window(recent, 100), asked)}

\* The other arbitration, of the strategy families: the best score, if it is
\* enough; equal scores fall to the strategy named first.
selectWinningCandidate(cs, min) ==
    {i \in DOMAIN cs : /\ cs[i].score >= min
                       /\ \A j \in DOMAIN cs \ {i} : \/ cs[i].score > cs[j].score
                                                     \/ cs[i].score = cs[j].score /\ i < j}
=============================================================================
