--------------------------- MODULE SelectionProofs ---------------------------
(***************************************************************************)
(* What holds of the selection of a cycle and of its arbitration, for any  *)
(* candidates, any settings and any account of what was read; and that the *)
(* default selection implements SignalDesk!Select.                         *)
(***************************************************************************)
EXTENDS SignalDesk, Selection, StrategyBrain, FiniteSetTheorems, WellFoundedInduction, TLAPS

-----------------------------------------------------------------------------
(* Readiness.                                                              *)

Contexts == [transport : BOOLEAN, failed : BOOLEAN, count : [Timeframes -> Nat],
             exec : Timeframes, age : Nat]

LEMMA MinutesAre ==
    /\ Minutes["5m"] = 5 /\ Minutes["15m"] = 15 /\ Minutes["1h"] = 60 /\ Minutes["4h"] = 240
    /\ \A tf \in Timeframes : Minutes[tf] \in {5, 15, 60, 240}
  BY DEF Minutes, Timeframes

LEMMA BarsAreBounded ==
    ASSUME NEW exec \in Timeframes, NEW tf \in Timeframes, NEW min \in Nat
    PROVE  /\ UnflooredBars(exec, tf, min) \in Nat
           /\ UnflooredBars(exec, tf, min) <= UnflooredBars(exec, "5m", min)
<1> DEFINE span == min * Minutes[exec]
<1>1. span \in Nat
  BY MinutesAre
<1> HIDE DEF span
<1>2. \A d \in {5, 15, 60, 240} : /\ (span + d - 1) \div d \in Nat
                                  /\ (span + d - 1) \div d <= (span + 5 - 1) \div 5
  BY <1>1
<1> QED
  BY <1>2, MinutesAre DEF UnflooredBars, span

\* The preload never asks for fewer candles than readiness then requires, of
\* any timeframe and for any configuration (index.ts:2628-2634, 1923-1932).
THEOREM PreloadSuffices ==
    ASSUME NEW exec \in Timeframes, NEW tf \in Timeframes, NEW min \in Nat, NEW configured \in Nat
    PROVE  minBarsForTimeframe(exec, tf, min) <= PreloadLimit(configured, exec, min)
<1>1. "5m" \in Timeframes
  BY DEF Timeframes
<1>2. /\ UnflooredBars(exec, tf, min) \in Nat /\ UnflooredBars(exec, "5m", min) \in Nat
      /\ UnflooredBars(exec, tf, min) <= UnflooredBars(exec, "5m", min)
  BY <1>1, BarsAreBounded
<1> QED
  BY <1>2 DEF minBarsForTimeframe, PreloadLimit, AtLeast

LEMMA PairsBegin ==
    ASSUME NEW a, NEW b
    PROVE  <<a, b>>[1] = a
  OBVIOUS

\* A symbol is ready exactly when no reason is given against it: the code
\* computes the two apart (index.ts:1993-2004).
THEOREM ReadyWithoutAReason ==
    ASSUME NEW ctx \in Contexts, NEW min \in Nat
    PROVE  analysisReady(ctx, min) <=> blockedReason(ctx, min) = "none"
<1> DEFINE asked == ReadinessReasons(ctx, min)
<1>1. /\ asked[1] = <<~ctx.transport, "transport_not_ready">>
      /\ asked[2] = <<Missing(ctx), "missing_candles">>
      /\ asked[3] = <<Insufficient(ctx, min), "insufficient_candles">>
      /\ asked[4] = <<Stale(ctx), "feed_stale">>
      /\ asked[5] = <<Incomputable(ctx), "insufficient_indicator_context">>
      /\ DOMAIN asked = 1..5
  BY DEF ReadinessReasons
<1>2. \A k \in DOMAIN asked : asked[k][2] # "none"
  BY <1>1
<1>3. (\A k \in DOMAIN asked : ~asked[k][1]) <=> analysisReady(ctx, min)
  <2>1. \A k \in 1..5 : k \in {1, 2, 3, 4, 5}
    OBVIOUS
  <2>2. analysisReady(ctx, min) <=> ~(\/ ~ctx.transport \/ Missing(ctx) \/ Incomputable(ctx)
                                     \/ Insufficient(ctx, min) \/ Stale(ctx))
    BY DEF analysisReady
  <2>3. (\E k \in DOMAIN asked : asked[k][1])
          <=> \/ ~ctx.transport \/ Missing(ctx) \/ Incomputable(ctx)
              \/ Insufficient(ctx, min) \/ Stale(ctx)
    <3>1. /\ asked[1][1] <=> ~ctx.transport
          /\ asked[2][1] <=> Missing(ctx)
          /\ asked[3][1] <=> Insufficient(ctx, min)
          /\ asked[4][1] <=> Stale(ctx)
          /\ asked[5][1] <=> Incomputable(ctx)
      <4> HIDE DEF asked
      <4>1. /\ asked[1][1] = (~ctx.transport) /\ asked[2][1] = Missing(ctx)
            /\ asked[3][1] = Insufficient(ctx, min) /\ asked[4][1] = Stale(ctx)
            /\ asked[5][1] = Incomputable(ctx)
        BY <1>1, PairsBegin
      <4> QED
        BY <4>1, Zenon
    <3>2. (\E k \in DOMAIN asked : asked[k][1])
            <=> asked[1][1] \/ asked[2][1] \/ asked[3][1] \/ asked[4][1] \/ asked[5][1]
      BY <1>1, <2>1
    <3> QED
      BY <3>1, <3>2
  <2> QED
    BY <2>2, <2>3
<1>4. ASSUME NEW k \in DOMAIN asked, asked[k][1]
      PROVE  \E l \in DOMAIN asked : asked[l][1] /\ \A m \in 1..(l - 1) : ~asked[m][1]
  <2> HIDE DEF asked
  <2>1. k \in {1, 2, 3, 4, 5} /\ DOMAIN asked = {1, 2, 3, 4, 5}
    BY <1>1
  <2>2. /\ \A m \in 1..(1 - 1) : FALSE
        /\ \A m \in 1..(2 - 1) : m = 1
        /\ \A m \in 1..(3 - 1) : m \in {1, 2}
        /\ \A m \in 1..(4 - 1) : m \in {1, 2, 3}
        /\ \A m \in 1..(5 - 1) : m \in {1, 2, 3, 4}
    OBVIOUS
  <2>3. CASE asked[1][1]
    BY <2>1, <2>2, <2>3
  <2>4. CASE ~asked[1][1] /\ asked[2][1]
    BY <2>1, <2>2, <2>4
  <2>5. CASE ~asked[1][1] /\ ~asked[2][1] /\ asked[3][1]
    BY <2>1, <2>2, <2>5
  <2>6. CASE ~asked[1][1] /\ ~asked[2][1] /\ ~asked[3][1] /\ asked[4][1]
    BY <2>1, <2>2, <2>6
  <2>7. CASE ~asked[1][1] /\ ~asked[2][1] /\ ~asked[3][1] /\ ~asked[4][1]
    <3>1. asked[5][1]
      BY <2>1, <2>7, <1>4
    <3> QED
      BY <2>1, <2>2, <2>7, <3>1
  <2> QED
    BY <2>3, <2>4, <2>5, <2>6, <2>7
<1> HIDE DEF asked
<1>5. CASE \A k \in DOMAIN asked : ~asked[k][1]
  BY <1>5, <1>3 DEF blockedReason, FirstReason, asked
<1>6. CASE \E k \in DOMAIN asked : asked[k][1]
  <2>1. blockedReason(ctx, min) # "none"
    BY <1>6, <1>4, <1>2 DEF blockedReason, FirstReason, asked
  <2> QED
    BY <2>1, <1>6, <1>3
<1> QED
  BY <1>5, <1>6

-----------------------------------------------------------------------------
(* Quality.                                                                *)

Scored == [score : Int, grade : {"A+", "A", "B"}, rr : Int, stretch : Nat,
           regime : {"TREND_ORDERLY", "TREND_STRETCHED", "SHOCK_UNSTABLE",
                     "COMPRESSION_READY", "CHOP", "NEUTRAL"}]

LEMMA PartsAreBounded ==
    ASSUME NEW s \in Scored
    PROVE  /\ breakoutScore(s) \in 0..25 /\ entryScore(s) \in 0..10
           /\ structureScore(s) \in {12, 16, 19}
           /\ trendScore(s) \in {14, 22} /\ volatilityScore(s) \in {12, 18}
<1>1. (25 * s.score + 50) \div 100 \in Int /\ (105 - AtMost(100, s.stretch)) \div 10 \in Int
  BY DEF Scored, AtMost
<1>2. breakoutScore(s) \in 0..25 /\ entryScore(s) \in 0..10
  BY <1>1 DEF breakoutScore, entryScore, boundedScore, AtLeast, AtMost
<1> QED
  BY <1>2 DEF Scored, structureScore, trendScore, volatilityScore

\* No signal of the strategy the worker runs is graded A+: in the regime it
\* trades the parts of the score add up to 80 at most, and A+ begins at 85
\* (index.ts:1200-1213, compression-breakout-retest.ts:84).
THEOREM NoLiveSignalIsAPlus ==
    ASSUME NEW s \in Scored, FromLiveStrategy(s)
    PROVE  signalScore(s) <= 80 /\ SignalTier(s) # "A+"
<1>1. trendScore(s) = 14 /\ volatilityScore(s) = 12
  BY DEF FromLiveStrategy, trendScore, volatilityScore, Trending
<1>2. signalScore(s) <= 80
  BY <1>1, PartsAreBounded DEF signalScore
<1>3. signalScore(s) \in Int
  BY PartsAreBounded DEF signalScore
<1> QED
  BY <1>2, <1>3 DEF SignalTier

-----------------------------------------------------------------------------
(* Selection.                                                              *)

\* A list of candidates whose scores are numbers.
Listed(cs) == DOMAIN cs \subseteq Nat /\ \A i \in DOMAIN cs : cs[i].score \in Int

LEMMA ScoresAreOrdered ==
    ASSUME NEW cs, Listed(cs), NEW i \in DOMAIN cs, NEW j \in DOMAIN cs, i # j
    PROVE  ScoresAbove(cs, i, j) <=> ~ScoresAbove(cs, j, i)
  BY DEF Listed, ScoresAbove

LEMMA AdmittedAreApart ==
    ASSUME NEW cs, Listed(cs), NEW i \in IndependentAdmits(cs), NEW j \in IndependentAdmits(cs),
           cs[i].symbol = cs[j].symbol
    PROVE  i = j
<1> SUFFICES ASSUME i # j PROVE FALSE
  OBVIOUS
<1>1. ~ScoresAbove(cs, i, j) /\ ~ScoresAbove(cs, j, i)
  BY DEF IndependentAdmits
<1> QED
  BY <1>1, ScoresAreOrdered DEF IndependentAdmits

\* What a worker with a database stores is A+, on symbols that were free,
\* and one candidate per symbol, whatever the mode and the brain admitted
\* (index.ts:3990-4033).
THEOREM StoredAreFreeAndApart ==
    ASSUME NEW cs, Listed(cs), NEW run, run.database, NEW choice, NEW desk, NEW locked,
           Admitted(cs, run, choice, desk) \subseteq DOMAIN cs,
           NEW i \in FinalSelection(cs, run, choice, desk, locked),
           NEW j \in FinalSelection(cs, run, choice, desk, locked)
    PROVE  /\ cs[i].tier = "A+" /\ cs[i].symbol \notin locked
           /\ cs[i].symbol = cs[j].symbol => i = j
<1> DEFINE admitted == Admitted(cs, run, choice, desk)
<1>1. i \in Persisted(cs, admitted, locked) /\ j \in Persisted(cs, admitted, locked)
  BY DEF FinalSelection
<1>2. i \in APlus(cs, admitted) /\ j \in APlus(cs, admitted)
  BY <1>1 DEF Persisted
<1>3. i \in DOMAIN cs /\ j \in DOMAIN cs /\ cs[i].tier = "A+"
  BY <1>2 DEF APlus
<1>4. ASSUME cs[i].symbol = cs[j].symbol, i # j
      PROVE  FALSE
  <2>1. ~ScoresAbove(cs, i, j) /\ ~ScoresAbove(cs, j, i)
    BY <1>1, <1>2, <1>4 DEF Persisted
  <2> QED
    BY <2>1, <1>3, <1>4, ScoresAreOrdered
<1> QED
  BY <1>1, <1>3, <1>4 DEF Persisted

\* Independent engines store a symbol exactly when it is free and its best
\* scored candidate is A+: a better scored one of a lower tier keeps an A+
\* candidate of the same symbol out (index.ts:3910, 3990).
THEOREM TheBestScoredDecides ==
    ASSUME NEW cs, Listed(cs), NEW locked, NEW i \in IndependentAdmits(cs)
    PROVE  (\E j \in Persisted(cs, IndependentAdmits(cs), locked) : cs[j].symbol = cs[i].symbol)
             <=> cs[i].tier = "A+" /\ cs[i].symbol \notin locked
<1>1. ASSUME NEW j \in Persisted(cs, IndependentAdmits(cs), locked), cs[j].symbol = cs[i].symbol
      PROVE  cs[i].tier = "A+" /\ cs[i].symbol \notin locked
  <2>1. j \in IndependentAdmits(cs) /\ cs[j].tier = "A+" /\ cs[j].symbol \notin locked
    BY DEF Persisted, APlus
  <2>2. i = j
    BY <2>1, <1>1, AdmittedAreApart
  <2> QED
    BY <2>1, <2>2
<1>2. ASSUME cs[i].tier = "A+", cs[i].symbol \notin locked
      PROVE  i \in Persisted(cs, IndependentAdmits(cs), locked)
  <2>1. i \in APlus(cs, IndependentAdmits(cs))
    BY <1>2 DEF APlus
  <2>2. \A j \in APlus(cs, IndependentAdmits(cs)) \ {i} : cs[j].symbol # cs[i].symbol
    BY AdmittedAreApart DEF APlus
  <2> QED
    BY <1>2, <2>1, <2>2 DEF Persisted
<1> QED
  BY <1>1, <1>2

\* With a database, a cycle whose candidates all come from the strategy the
\* worker runs stores nothing, in any mode and with any settings.
THEOREM NothingLiveIsStored ==
    ASSUME NEW cs, NEW run, run.database, NEW choice, NEW desk, NEW locked,
           Admitted(cs, run, choice, desk) \subseteq DOMAIN cs,
           \A i \in DOMAIN cs : \E s \in Scored : FromLiveStrategy(s) /\ cs[i].tier = SignalTier(s)
    PROVE  FinalSelection(cs, run, choice, desk, locked) = {}
<1>1. \A i \in DOMAIN cs : cs[i].tier # "A+"
  BY NoLiveSignalIsAPlus
<1>2. APlus(cs, Admitted(cs, run, choice, desk)) = {}
  BY <1>1 DEF APlus
<1> QED
  BY <1>2 DEF FinalSelection, Persisted

\* The selection of independent engines is one SignalDesk allows: if the
\* signals are the A+ candidates admitted and the locks are those of its
\* trades and outcomes, what is stored is one of its Selections.
THEOREM IndependentEnginesImplementSelect ==
    ASSUME NEW cs, Listed(cs), NEW locked, NEW signal \in [DOMAIN cs -> Signals],
           \A i \in DOMAIN cs : symbolOf[signal[i]] = cs[i].symbol,
           \A i \in DOMAIN cs : cs[i].symbol \in locked <=> Locked(cs[i].symbol)
    PROVE  {signal[i] : i \in Persisted(cs, IndependentAdmits(cs), locked)}
              \in Selections({signal[i] : i \in APlus(cs, IndependentAdmits(cs))})
<1> DEFINE A == APlus(cs, IndependentAdmits(cs))
           P == Persisted(cs, IndependentAdmits(cs), locked)
           picked == {signal[i] : i \in P}
           candidates == {signal[i] : i \in A}
<1>1. A \subseteq DOMAIN cs /\ P \subseteq A /\ A \subseteq IndependentAdmits(cs)
  BY DEF APlus, Persisted, IndependentAdmits
<1>2. \A i \in A, j \in A : cs[i].symbol = cs[j].symbol => i = j
  BY <1>1, AdmittedAreApart
<1>3. P = {i \in A : ~Locked(cs[i].symbol)}
  BY <1>1, <1>2 DEF Persisted
<1> HIDE DEF A, P
<1>4. picked \subseteq {s \in candidates : ~Locked(symbolOf[s])}
  BY <1>1, <1>3
<1>5. ASSUME NEW s \in candidates, ~Locked(symbolOf[s])
      PROVE  \E t \in picked : \A u \in picked : symbolOf[u] = symbolOf[s] <=> u = t
  <2>1. PICK i \in A : s = signal[i]
    OBVIOUS
  <2>2. i \in P /\ symbolOf[s] = cs[i].symbol
    BY <2>1, <1>1, <1>3, <1>5
  <2>3. ASSUME NEW u \in picked
        PROVE  symbolOf[u] = symbolOf[s] <=> u = s
    <3>1. PICK j \in P : u = signal[j]
      OBVIOUS
    <3>2. symbolOf[u] = cs[j].symbol /\ j \in A
      BY <3>1, <1>1
    <3> QED
      BY <2>1, <2>2, <3>1, <3>2, <1>2
  <2> QED
    BY <2>1, <2>2, <2>3
<1> QED
  BY <1>4, <1>5 DEF Selections, A, P
-----------------------------------------------------------------------------
(* Arbitration.                                                            *)

Contenders == [engine : Engines, rr : Int, stop : Nat, structure : Nat, cleanliness : Nat,
               regime : Regimes,
               profile : {"scalp_fast", "intraday_fast", "intraday_balanced",
                          "intraday_continuation", "none"}]
Contended(cs) == DOMAIN cs \subseteq Nat /\ \A i \in DOMAIN cs : cs[i] \in Contenders

\* Candidates of engines the brain does not know, as the worker's all are.
Unlabelled(cs) == DOMAIN cs \subseteq Nat /\ \A i \in DOMAIN cs : ~Known(cs[i])

LEMMA ClampedAreNumbers ==
    ASSUME NEW x \in Int
    PROVE  clamp01(x) \in Int
  BY DEF clamp01, Positive

LEMMA CountsAreNumbers ==
    ASSUME NEW recent \in Seq(Engines), NEW engine
    PROVE  Taken(recent, engine) \in Nat /\ trailingCount(recent, engine) \in Nat
<1>1. IsFiniteSet(DOMAIN recent)
  BY FS_Interval
<1>2. \A S \in SUBSET DOMAIN recent : Cardinality(S) \in Nat
  BY <1>1, FS_Subset, FS_CardinalityType
<1> QED
  BY <1>2 DEF Taken, trailingCount

LEMMA ComponentsAreNumbers ==
    ASSUME NEW c \in Contenders
    PROVE  /\ expectedRScore(c) \in Int /\ volatilityAlignment(c) \in Int
           /\ holdScore(c) \in Int /\ ENGINE_PRIORITY[c.engine] \in Int
           /\ c.structure \in Nat /\ c.cleanliness \in Nat
<1>1. c.rr \in Int /\ c.stop \in Nat /\ c.engine \in Engines /\ c.regime \in Regimes
      /\ c.structure \in Nat /\ c.cleanliness \in Nat
  BY DEF Contenders
<1>2. c.rr \div 5 \in Int /\ (4 * (c.rr - 1000)) \div 5 \in Int /\ (4 * (c.rr - 1100)) \div 19 \in Int
  BY <1>1
<1>3. expectedRScore(c) \in Int
  BY <1>1, <1>2, ClampedAreNumbers DEF expectedRScore
<1>4. Gap(c.stop, 66) \in Int /\ (25 * (c.stop - 80)) \div 3 \in Int
  BY <1>1 DEF Gap
<1>5. volatilityAlignment(c) \in Int
  BY <1>1, <1>4, ClampedAreNumbers DEF volatilityAlignment, Regimes
<1>6. TimeStopPenalty(c) \in {0, 40, 80} /\ GeometryBonus(c) \in {0, 50, 80}
  BY <1>1 DEF TimeStopPenalty, GeometryBonus
<1>7. /\ TimeStopPenalty(c) \div 2 \in Int /\ (4 * GeometryBonus(c)) \div 5 \in Int
      /\ (2 * TimeStopPenalty(c)) \div 5 \in Int /\ (7 * TimeStopPenalty(c)) \div 20 \in Int
  BY <1>6
<1>8. holdScore(c) \in Int
  <2> DEFINE of(e, profile) ==
        CASE profile = "weak_micro_scalp"  -> (IF e >= 600 THEN 500 ELSE 300) - TimeStopPenalty(c)
          [] profile = "structured_scalp"  -> (IF e >= 700 THEN 720 ELSE 580)
                                                - TimeStopPenalty(c) \div 2 + (4 * GeometryBonus(c)) \div 5
          [] profile = "fast_intraday"     -> (IF e >= 720 THEN 740 ELSE 600)
                                                - (2 * TimeStopPenalty(c)) \div 5 + GeometryBonus(c)
          [] profile = "continuation_hold" -> (IF e >= 750 THEN 900 ELSE 750) + GeometryBonus(c)
          [] OTHER                         -> (IF e >= 750 THEN 840 ELSE 700)
                                                - (7 * TimeStopPenalty(c)) \div 20 + GeometryBonus(c)
  <2>1. \A e \in Int : \A profile : of(e, profile) \in Int
    BY <1>6, <1>7
  <2>2. holdScore(c) = clamp01(of(expectedRScore(c), inferHoldProfile(c)))
    BY DEF holdScore
  <2> HIDE DEF of
  <2> QED
    BY <2>1, <2>2, <1>3, ClampedAreNumbers
<1>9. ENGINE_PRIORITY[c.engine] \in Int
  BY <1>1 DEF Engines, ENGINE_PRIORITY
<1> QED
  BY <1>1, <1>3, <1>5, <1>8, <1>9

LEMMA TotalsAreNumbers ==
    ASSUME NEW c \in Contenders, NEW recent \in Seq(Engines)
    PROVE  totalScore(c, recent) \in Int
<1>1. c.engine \in Engines
  BY DEF Contenders
<1>2. /\ Taken(recent, c.engine) \in Nat /\ trailingCount(recent, "engine4") \in Nat
      /\ Len(recent) \in Nat /\ SHARE_CAP[c.engine] \in Nat
  BY <1>1, CountsAreNumbers DEF Engines, SHARE_CAP
<1>3. participationSupport(recent, c.engine) \in Int
  BY DEF participationSupport
<1>4. sharePenalty(recent, c.engine) \in Int
  BY DEF sharePenalty
<1>5. fatiguePenalty(recent, c) \in Int
  BY DEF fatiguePenalty
<1>6. /\ expectedRScore(c) \in Int /\ volatilityAlignment(c) \in Int /\ holdScore(c) \in Int
      /\ ENGINE_PRIORITY[c.engine] \in Int /\ c.structure \in Int /\ c.cleanliness \in Int
  BY ComponentsAreNumbers
<1> DEFINE structure == c.structure
           reward == expectedRScore(c)
           volatility == volatilityAlignment(c)
           priority == ENGINE_PRIORITY[c.engine]
           cleanliness == c.cleanliness
           hold == holdScore(c)
           support == participationSupport(recent, c.engine)
           share == sharePenalty(recent, c.engine)
           fatigue == fatiguePenalty(recent, c)
<1>7. totalScore(c, recent) = 27 * structure + 28 * reward + 12 * volatility + 10 * priority
                                + 12 * cleanliness + 11 * hold + support - share - fatigue
  BY Zenon DEF totalScore
<1>8. /\ structure \in Int /\ reward \in Int /\ volatility \in Int /\ priority \in Int
      /\ cleanliness \in Int /\ hold \in Int /\ support \in Int /\ share \in Int /\ fatigue \in Int
  BY <1>3, <1>4, <1>5, <1>6, Zenon
<1> HIDE DEF structure, reward, volatility, priority, cleanliness, hold, support, share, fatigue
<1> QED
  BY <1>7, <1>8

LEMMA AboveIsOneSided ==
    ASSUME NEW cs, Contended(cs), NEW recent \in Seq(Engines),
           NEW i \in DOMAIN cs, NEW j \in DOMAIN cs, Above(cs, recent, i, j)
    PROVE  /\ ~Above(cs, recent, j, i)
           /\ totalScore(cs[i], recent) >= totalScore(cs[j], recent)
<1>1. totalScore(cs[i], recent) \in Int /\ totalScore(cs[j], recent) \in Int
  BY TotalsAreNumbers DEF Contended
<1>2. Known(cs[i]) /\ Known(cs[j]) /\ i \in Nat /\ j \in Nat
  BY DEF Contended, Contenders, Known
<1> QED
  BY <1>1, <1>2 DEF Above

LEMMA WindowsAreLists ==
    ASSUME NEW recent \in Seq(Engines)
    PROVE  Window(recent, 100) \in Seq(Engines)
<1>1. CASE Len(recent) <= 100
  BY <1>1 DEF Window
<1>2. CASE Len(recent) > 100
  BY <1>2 DEF Window
<1> QED
  BY <1>1, <1>2

LEMMA LabelledIsOneAndClears ==
    ASSUME NEW cs, Contended(cs), NEW recent \in Seq(Engines), NEW asked \in Int,
           NEW i \in runStrategyBrain(cs, recent, asked)
    PROVE  /\ cs[i].rr >= resolveExpectedRThreshold(cs[i])
           /\ totalScore(cs[i], Window(recent, 100)) >= 55000
           /\ runStrategyBrain(cs, recent, asked) = {i}
<1> DEFINE r == Window(recent, 100)
<1>1. r \in Seq(Engines)
  BY WindowsAreLists
<1> HIDE DEF r
<1>2. i \in Preferred(cs, r) /\ ~TooLow(cs[i], r, asked)
  BY DEF runStrategyBrain, r
<1>3. Preferred(cs, r) = Best(cs, r, Qualified(cs)) \/ Preferred(cs, r) = Best(cs, r, NonScalps(cs))
  BY DEF Preferred
<1>4. NonScalps(cs) \subseteq Qualified(cs) /\ Qualified(cs) \subseteq DOMAIN cs
  BY DEF NonScalps, Qualified
<1>5. Preferred(cs, r) \subseteq Qualified(cs)
  BY <1>3, <1>4 DEF Best
<1>6. \A j \in Preferred(cs, r) : j = i
  <2>1. \A j \in Preferred(cs, r) \ {i} : Above(cs, r, i, j) /\ Above(cs, r, j, i)
    BY <1>2, <1>3 DEF Best
  <2> QED
    BY <2>1, <1>1, <1>2, <1>4, <1>5, AboveIsOneSided
<1>7. totalScore(cs[i], r) >= 55000
  <2>1. totalScore(cs[i], r) \in Int /\ Known(cs[i])
    <3>1. cs[i] \in Contenders
      BY <1>2, <1>4, <1>5 DEF Contended
    <3> QED
      BY <3>1, <1>1, TotalsAreNumbers DEF Contenders, Known
  <2>2. dynamicMinScore(cs[i], asked) \in Int /\ dynamicMinScore(cs[i], asked) >= 55000
    BY DEF dynamicMinScore
  <2> QED
    BY <2>1, <2>2, <1>2 DEF TooLow
<1>8. cs[i].rr >= resolveExpectedRThreshold(cs[i])
  BY <1>2, <1>5 DEF Qualified
<1>9. runStrategyBrain(cs, recent, asked) = {i}
  BY <1>6 DEF runStrategyBrain, r
<1> QED
  BY <1>7, <1>8, <1>9 DEF r

\* A scalp is never overridden for its total: the rival ranks below it, so
\* the second way to be meaningful is dead code (strategy-brain.ts:395-396).
THEOREM TotalsNeverOverride ==
    ASSUME NEW cs, Contended(cs), NEW recent \in Seq(Engines),
           NEW i \in Best(cs, recent, Qualified(cs)), NEW j \in NonScalps(cs),
           cs[i].engine = "engine4"
    PROVE  ~ByTotal(cs[i], cs[j], recent)
<1>1. j \in Qualified(cs) \ {i} /\ i \in DOMAIN cs /\ j \in DOMAIN cs
  BY DEF NonScalps, Qualified, Best
<1>2. Above(cs, recent, i, j)
  BY <1>1 DEF Best
<1>3. totalScore(cs[i], recent) >= totalScore(cs[j], recent)
  BY <1>1, <1>2, AboveIsOneSided
<1>4. totalScore(cs[i], recent) \in Int /\ totalScore(cs[j], recent) \in Int
  BY <1>1, TotalsAreNumbers DEF Contended
<1> QED
  BY <1>3, <1>4 DEF ByTotal

\* Where the brain knows no engine no total exists: the first ranked candidate
\* that pays 1.1 R or more is selected, however low it scores
\* (strategy-brain.ts:98, 369, 417).
LEMMA UnlabelledTakesTheFirst ==
    ASSUME NEW cs, Unlabelled(cs), NEW recent, NEW asked
    PROVE  runStrategyBrain(cs, recent, asked) =
             {i \in DOMAIN cs : cs[i].rr >= 1100 /\ \A j \in DOMAIN cs : cs[j].rr >= 1100 => i <= j}
<1> DEFINE r == Window(recent, 100)
<1>1. \A i \in DOMAIN cs : ~Known(cs[i]) /\ cs[i].engine # "engine4"
                           /\ resolveExpectedRThreshold(cs[i]) = 1100
  BY DEF Unlabelled, Known, Engines, resolveExpectedRThreshold
<1>2. Qualified(cs) = {i \in DOMAIN cs : cs[i].rr >= 1100}
  BY <1>1 DEF Qualified
<1>3. \A i \in DOMAIN cs, j \in DOMAIN cs : Above(cs, r, i, j) <=> i < j
  BY <1>1 DEF Above
<1>4. Best(cs, r, Qualified(cs)) = {i \in Qualified(cs) : \A j \in Qualified(cs) : i <= j}
  BY <1>2, <1>3 DEF Best, Unlabelled
<1> HIDE DEF r
<1>5. Preferred(cs, r) = Best(cs, r, Qualified(cs))
  BY <1>1, <1>2 DEF Preferred, Best
<1>6. runStrategyBrain(cs, recent, asked) = Preferred(cs, r)
  <2>1. \A i \in Preferred(cs, r) : ~TooLow(cs[i], r, asked)
    BY <1>1, <1>2, <1>4, <1>5 DEF TooLow
  <2> QED
    BY <2>1 DEF runStrategyBrain, r
<1> QED
  BY <1>2, <1>4, <1>5, <1>6

\* The brain selects one candidate at most, which clears its own expected R:
\* an override may change which one, and never lets one below through.  A
\* floor of 55 points holds only of engines the brain knows; among candidates
\* of engines it does not know the first that clears is taken, whatever it
\* scores (strategy-brain.ts:371-422).
THEOREM SelectedIsOneAndClears ==
    ASSUME NEW cs, Contended(cs) \/ Unlabelled(cs), NEW recent \in Seq(Engines),
           NEW asked \in Int, NEW i \in runStrategyBrain(cs, recent, asked)
    PROVE  /\ runStrategyBrain(cs, recent, asked) = {i}
           /\ cs[i].rr >= resolveExpectedRThreshold(cs[i])
           /\ IF Known(cs[i]) THEN totalScore(cs[i], Window(recent, 100)) >= 55000
              ELSE \A j \in Qualified(cs) : i <= j
<1>1. CASE Contended(cs)
  <2>1. i \in DOMAIN cs
    BY DEF runStrategyBrain, Preferred, Best, NonScalps, Qualified
  <2>2. Known(cs[i])
    BY <1>1, <2>1 DEF Contended, Contenders, Known
  <2> QED
    BY <1>1, <2>2, LabelledIsOneAndClears
<1>2. CASE Unlabelled(cs)
  <2>1. \A k \in DOMAIN cs : ~Known(cs[k]) /\ k \in Nat /\ resolveExpectedRThreshold(cs[k]) = 1100
    BY <1>2 DEF Unlabelled, Known, Engines, resolveExpectedRThreshold
  <2>2. Qualified(cs) = {k \in DOMAIN cs : cs[k].rr >= 1100}
    BY <2>1 DEF Qualified
  <2>3. runStrategyBrain(cs, recent, asked) = {k \in Qualified(cs) : \A l \in Qualified(cs) : k <= l}
    BY <1>2, <2>2, UnlabelledTakesTheFirst
  <2>4. i \in Qualified(cs) /\ \A l \in Qualified(cs) : i <= l
    BY <2>3
  <2>5. \A k \in runStrategyBrain(cs, recent, asked) : k = i
    BY <2>1, <2>2, <2>3, <2>4
  <2> QED
    BY <2>1, <2>2, <2>4, <2>5
<1> QED
  BY <1>1, <1>2

\* What the worker asks the brain is answered by the rank and 1.1 R alone: it
\* labels every ranked signal with an engine the brain does not know, so the
\* configured least score, what was selected lately, the quality of the setup
\* and the market change nothing (index.ts:279, 1083, strategy-brain.ts:98).
THEOREM LiveArbitrationIsByRank ==
    ASSUME NEW signals, DOMAIN signals \subseteq Nat, NEW recent, NEW asked
    PROVE  runStrategyBrain([i \in DOMAIN signals |-> toBrainCandidate(signals[i])], recent, asked) =
             {i \in DOMAIN signals : /\ signals[i].rr >= 1100
                                    /\ \A j \in DOMAIN signals : signals[j].rr >= 1100 => i <= j}
<1> DEFINE cs == [i \in DOMAIN signals |-> toBrainCandidate(signals[i])]
<1>1. \A i \in DOMAIN signals : /\ toBrainCandidate(signals[i]).engine = LockedEngine
                                /\ toBrainCandidate(signals[i]).rr = signals[i].rr
  BY DEF toBrainCandidate
<1>2. /\ DOMAIN cs = DOMAIN signals
      /\ \A i \in DOMAIN cs : cs[i].engine = LockedEngine /\ cs[i].rr = signals[i].rr
  BY <1>1
<1> HIDE DEF cs
<1>3. Unlabelled(cs)
  BY <1>2 DEF Unlabelled, Known, LockedEngine, Engines
<1>4. runStrategyBrain(cs, recent, asked) =
        {i \in DOMAIN cs : cs[i].rr >= 1100 /\ \A j \in DOMAIN cs : cs[j].rr >= 1100 => i <= j}
  BY <1>3, UnlabelledTakesTheFirst
<1>5. runStrategyBrain(cs, recent, asked) =
        {i \in DOMAIN signals : signals[i].rr >= 1100
                                  /\ \A j \in DOMAIN signals : signals[j].rr >= 1100 => i <= j}
  BY <1>2, <1>4
<1> QED
  BY <1>5 DEF cs

-----------------------------------------------------------------------------
(* The diversified ranking.                                                *)

LEMMA SetInduction ==
    ASSUME NEW S, 0 \in S, \A k \in Nat : k \in S => k + 1 \in S
    PROVE  \A n \in Nat : n \in S
<1> SUFFICES ASSUME Nat \ S # {} PROVE FALSE
  OBVIOUS
<1>1. PICK least \in Nat \ S : \A n \in Nat \ S : <<n, least>> \notin OpToRel(<, Nat)
  BY NatLessThanWellFounded, WFMin, Zenon
<1>2. least # 0 /\ least - 1 \in Nat
  OBVIOUS
<1>3. <<least - 1, least>> \in OpToRel(<, Nat)
  BY <1>2 DEF OpToRel
<1>4. least - 1 \in S
  BY <1>1, <1>2, <1>3
<1> QED BY <1>2, <1>4

LEMMA LeastOf ==
    ASSUME NEW S \in SUBSET Nat, S # {}
    PROVE  (CHOOSE l \in S : \A m \in S : l <= m) \in S
<1>1. PICK least \in S : \A n \in S : <<n, least>> \notin OpToRel(<, Nat)
  BY NatLessThanWellFounded, WFMin, Zenon
<1>2. \A n \in S : n \in Nat /\ least \in Nat /\ ~(n < least)
  BY <1>1, Zenon DEF OpToRel
<1>3. \E l \in S : \A m \in S : l <= m
  BY <1>2
<1> QED BY <1>3, Zenon

\* The ways to reorder n places that leave the first alone.
Reorderings(n) ==
    {p \in [1..n -> 1..n] : /\ \A i, j \in 1..n : p[i] = p[j] => i = j
                            /\ \A i \in 1..n : \E j \in 1..n : p[j] = i
                            /\ n > 0 => p[1] = 1}

\* r is q in another order.
Reordered(r, q) ==
    \E p \in Reorderings(Len(q)) : r = [i \in 1..Len(q) |-> q[p[i]]]

LEMMA ReorderedTwice ==
    ASSUME NEW S, NEW q \in Seq(S), NEW r \in Seq(S), NEW t,
           Reordered(r, q), Reordered(t, r)
    PROVE  Reordered(t, q)
<1> DEFINE n == Len(q)
<1>1. PICK p \in Reorderings(n) : r = [i \in 1..n |-> q[p[i]]]
  BY DEF Reordered
<1>2. n \in Nat /\ Len(r) = n
  BY <1>1
<1>3. PICK o \in Reorderings(n) : t = [i \in 1..n |-> r[o[i]]]
  BY <1>2 DEF Reordered
<1> HIDE DEF n
<1> DEFINE both == [i \in 1..n |-> p[o[i]]]
<1>4. /\ p \in [1..n -> 1..n] /\ o \in [1..n -> 1..n]
      /\ \A i, j \in 1..n : (p[i] = p[j] => i = j) /\ (o[i] = o[j] => i = j)
      /\ \A i \in 1..n : (\E j \in 1..n : p[j] = i) /\ (\E j \in 1..n : o[j] = i)
      /\ n > 0 => p[1] = 1 /\ o[1] = 1
  BY <1>1, <1>3 DEF Reorderings
<1>5. both \in Reorderings(n)
  <2>1. both \in [1..n -> 1..n]
    BY <1>4
  <2>2. \A i, j \in 1..n : both[i] = both[j] => i = j
    BY <1>4
  <2>3. ASSUME NEW i \in 1..n
        PROVE  \E j \in 1..n : both[j] = i
    <3>1. PICK k \in 1..n : p[k] = i
      BY <1>4
    <3>2. PICK j \in 1..n : o[j] = k
      BY <1>4
    <3> QED BY <3>1, <3>2
  <2>4. n > 0 => both[1] = 1
    BY <1>2, <1>4
  <2> QED BY <2>1, <2>2, <2>3, <2>4 DEF Reorderings
<1>6. t = [i \in 1..n |-> q[both[i]]]
  <2>1. \A i \in 1..n : o[i] \in 1..n /\ r[o[i]] = q[p[o[i]]]
    BY <1>1, <1>4
  <2> QED BY <1>3, <2>1
<1> QED BY <1>5, <1>6 DEF Reordered, n

LEMMA ReorderedNotAtAll ==
    ASSUME NEW S, NEW q \in Seq(S)
    PROVE  Reordered(q, q)
<1> DEFINE p == [i \in 1..Len(q) |-> i]
<1>1. p \in Reorderings(Len(q))
  BY DEF Reorderings
<1>2. q = [i \in 1..Len(q) |-> q[p[i]]]
  OBVIOUS
<1> QED BY <1>1, <1>2 DEF Reordered

LEMMA PromotionReorders ==
    ASSUME NEW S, NEW q \in Seq(S), NEW k \in Nat \ {0}, NEW l \in (k + 2)..Len(q)
    PROVE  Reordered(Promoted(q, k, l), q)
<1> DEFINE n == Len(q)
           p == [i \in 1..n |-> IF i = k + 1 THEN l ELSE IF i \in (k + 2)..l THEN i - 1 ELSE i]
<1>1. n \in Nat /\ DOMAIN q = 1..n /\ l \in Nat /\ k + 2 <= l /\ l <= n
  OBVIOUS
<1> HIDE DEF n
<1>2. p \in [1..n -> 1..n]
  BY <1>1
<1>3. \A i, j \in 1..n : p[i] = p[j] => i = j
  BY <1>1
<1>4. ASSUME NEW i \in 1..n
      PROVE  \E j \in 1..n : p[j] = i
  <2>1. CASE i = l
    BY <1>1, <2>1
  <2>2. CASE i \in (k + 1)..(l - 1)
    <3>1. i + 1 \in 1..n /\ p[i + 1] = i
      BY <1>1, <2>2
    <3> QED BY <3>1
  <2>3. CASE i # l /\ i \notin (k + 1)..(l - 1)
    <3>1. p[i] = i
      BY <1>1, <2>3
    <3> QED BY <3>1
  <2> QED BY <2>1, <2>2, <2>3
<1>5. p[1] = 1
  BY <1>1
<1>6. p \in Reorderings(n)
  BY <1>2, <1>3, <1>4, <1>5 DEF Reorderings
<1>7. Promoted(q, k, l) = [i \in 1..n |-> q[p[i]]]
  BY <1>1 DEF Promoted
<1> QED BY <1>6, <1>7 DEF Reordered, n

\* What is defined from its predecessor exists: the runs of a step function.
RunOf(f, step, x, N) == f[0] = x /\ \A n \in 1..N : f[n] = step[n][f[n - 1]]

LEMMA RunExists ==
    ASSUME NEW S, NEW x \in S, NEW N \in Nat, NEW step \in [Nat -> [S -> S]]
    PROVE  \E f \in [0..N -> S] : RunOf(f, step, x, N)
<1> DEFINE Runs(f, m) == f[0] = x /\ \A n \in 1..m : f[n] = step[n][f[n - 1]]
           Reached == {m \in Nat : \E f \in [0..m -> S] : Runs(f, m)}
<1>1. 0 \in Reached
  <2> DEFINE f == [n \in 0..0 |-> x]
  <2>1. f \in [0..0 -> S] /\ Runs(f, 0)
        OBVIOUS
  <2> QED BY <2>1
<1>2. ASSUME NEW m \in Nat, m \in Reached
      PROVE  m + 1 \in Reached
  <2>1. PICK f \in [0..m -> S] : Runs(f, m)
        BY <1>2
  <2> DEFINE g == [n \in 0..(m + 1) |-> IF n = m + 1 THEN step[m + 1][f[m]] ELSE f[n]]
  <2>2. step[m + 1][f[m]] \in S
        OBVIOUS
  <2>3. g \in [0..(m + 1) -> S]
        BY <2>2
  <2>4. g[0] = x
        BY <2>1
  <2>5. ASSUME NEW n \in 1..(m + 1)
        PROVE  g[n] = step[n][g[n - 1]]
    <3>1. CASE n = m + 1
          BY <3>1
    <3>2. CASE n # m + 1
      <4>1. g[n] = f[n] /\ n \in 1..m /\ g[n - 1] = f[n - 1]
            BY <3>2
      <4> QED BY <2>1, <4>1
    <3> QED BY <3>1, <3>2
  <2>6. Runs(g, m + 1)
        BY <2>4, <2>5
  <2> HIDE DEF g
  <2>7. m + 1 \in Nat
        OBVIOUS
  <2> QED BY <2>3, <2>6, <2>7
<1>3. N \in Reached
  <2> HIDE DEF Reached
  <2> QED BY <1>1, <1>2, SetInduction
<1> QED BY <1>3 DEF RunOf

LEMMA ReorderedIsSeq ==
    ASSUME NEW S, NEW q \in Seq(S), NEW r, Reordered(r, q)
    PROVE  r \in Seq(S) /\ Len(r) = Len(q)
<1> DEFINE n == Len(q)
<1>1. PICK p \in Reorderings(n) : r = [i \in 1..n |-> q[p[i]]]
  BY DEF Reordered
<1>2. n \in Nat /\ \A i \in 1..n : q[i] \in S
  OBVIOUS
<1> HIDE DEF n
<1>3. r \in [1..n -> S]
  BY <1>1, <1>2 DEF Reorderings
<1>4. r \in Seq(S) /\ Len(r) = n
  BY <1>2, <1>3
<1> QED BY <1>4 DEF n

\* One place looked at.
LEMMA PlaceReorders ==
    ASSUME NEW S, NEW cs, NEW q \in Seq(S), NEW k \in 1..(Len(q) - 1)
    PROVE  Reordered(DiversifiedAt(cs, q, k), q)
<1> DEFINE alternatives == Alternatives(cs, q, k)
           least == CHOOSE l \in alternatives : \A m \in alternatives : l <= m
<1>1. alternatives \subseteq (k + 2)..Len(q)
  BY DEF Alternatives
<1>2. CASE alternatives = {}
  BY <1>2, ReorderedNotAtAll DEF DiversifiedAt
<1>3. CASE alternatives # {}
  <2>1. alternatives \in SUBSET Nat
    BY <1>1
  <2>2. least \in alternatives
    <3> HIDE DEF alternatives
    <3> QED BY <1>3, <2>1, LeastOf
  <2>3. DiversifiedAt(cs, q, k) = Promoted(q, k, least)
    BY <1>3 DEF DiversifiedAt
  <2> HIDE DEF least
  <2>4. least \in (k + 2)..Len(q) /\ k \in Nat \ {0}
    BY <1>1, <2>2
  <2> QED BY <2>3, <2>4, PromotionReorders
<1> QED BY <1>2, <1>3

\* Diversification only changes the order in which candidates are asked for:
\* of any ranking it keeps every candidate exactly once and the best one in
\* front, although it shifts elements of the list it is walking over
\* (applySimpleCryptoDiversification, index.ts).
THEOREM DiversificationReorders ==
    ASSUME NEW S, NEW cs, NEW q \in Seq(S)
    PROVE  Reordered(Diversification(cs, q), q)
<1> DEFINE N == Len(q)
           Orders == {r \in Seq(S) : Reordered(r, q)}
           next(n, r) == IF n = N THEN r ELSE DiversifiedAt(cs, r, n)
           Walked(g) == [n \in 0..N |-> IF n = 0 THEN q ELSE
                          IF n = N THEN g[n - 1] ELSE DiversifiedAt(cs, g[n - 1], n)]
           step == [n \in Nat |-> [r \in Orders |-> IF n \in 1..N THEN next(n, r) ELSE r]]
<1>1. N \in Nat
  OBVIOUS
<1>2. q \in Orders
  BY ReorderedNotAtAll
<1>3. ASSUME NEW n \in 1..N, NEW r \in Orders
      PROVE  next(n, r) \in Orders
  <2>1. r \in Seq(S) /\ Len(r) = N
    BY ReorderedIsSeq
  <2>2. CASE n = N
    BY <2>2
  <2>3. CASE n # N
    <3>1. n \in 1..(Len(r) - 1)
      BY <2>1, <2>3
    <3>2. Reordered(DiversifiedAt(cs, r, n), r)
      BY <2>1, <3>1, PlaceReorders
    <3>3. DiversifiedAt(cs, r, n) \in Seq(S)
      BY <2>1, <3>2, ReorderedIsSeq
    <3>4. Reordered(DiversifiedAt(cs, r, n), q)
      BY <2>1, <3>2, ReorderedTwice
    <3> QED BY <2>3, <3>3, <3>4
  <2> QED BY <2>2, <2>3
<1>4. step \in [Nat -> [Orders -> Orders]]
  <2> HIDE DEF Orders, next
  <2> QED BY <1>3
<1>5. PICK f \in [0..N -> Orders] : RunOf(f, step, q, N)
  <2> HIDE DEF Orders, step
  <2> QED BY <1>1, <1>2, <1>4, RunExists
<1>6. ASSUME NEW n \in 1..N
      PROVE  f[n] = next(n, f[n - 1])
  <2>1. n \in Nat /\ n - 1 \in 0..N
    BY <1>1
  <2> HIDE DEF Orders, next
  <2>2. f[n - 1] \in Orders
    BY <1>5, <2>1
  <2>3. f[n] = step[n][f[n - 1]]
    BY <1>5 DEF RunOf
  <2> QED BY <2>1, <2>2, <2>3
<1> HIDE DEF step, Orders
<1>7. f = Walked(f)
  <2>1. ASSUME NEW n \in 0..N
        PROVE  f[n] = IF n = 0 THEN q ELSE next(n, f[n - 1])
    BY <1>1, <1>5, <1>6 DEF RunOf
  <2> QED BY <1>5, <2>1
<1> DEFINE after == CHOOSE g : g = Walked(g)
<1>8. after = Walked(after)
  BY <1>7
<1>9. Diversification(cs, q) = after[N]
  BY DEF Diversification
<1> HIDE DEF after
<1>10. ASSUME NEW n \in 0..N
       PROVE  after[n] = IF n = 0 THEN q ELSE next(n, after[n - 1])
  BY <1>8
<1> HIDE DEF Walked, next
<1> DEFINE Good == {n \in Nat : n <= N => after[n] \in Orders}
<1>11. 0 \in Good
  BY <1>1, <1>2, <1>10
<1>12. ASSUME NEW n \in Nat, n \in Good
       PROVE  n + 1 \in Good
  <2> SUFFICES ASSUME n + 1 <= N
               PROVE  after[n + 1] \in Orders
    OBVIOUS
  <2>1. after[n] \in Orders /\ n + 1 \in 1..N /\ n + 1 \in 0..N /\ n + 1 # 0 /\ (n + 1) - 1 = n
    BY <1>1, <1>12
  <2>2. after[n + 1] = next(n + 1, after[n])
    BY <1>10, <2>1
  <2> QED BY <1>3, <2>1, <2>2
<1>13. N \in Good
  <2> HIDE DEF Good, N
  <2> QED BY <1>1, <1>11, <1>12, SetInduction
<1>14. after[N] \in Orders
  BY <1>1, <1>13
<1> QED BY <1>9, <1>14 DEF Orders
=============================================================================
