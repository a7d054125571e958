------------------------------ MODULE Selection ------------------------------
(***************************************************************************)
(* How one cycle of the V1 worker comes from candles to the signals it     *)
(* stores: whether the candles of a symbol are enough, what the engine     *)
(* makes of them, how a signal is scored and graded, which gates stand     *)
(* before it in signal mode, how what is left is ranked, and which of it   *)
(* is taken.  SignalDesk!Select is the abstract form of the whole.         *)
(*                                                                         *)
(* Everything here is a function of what the cycle has read.  A list of    *)
(* candidates is a sequence, in the order the symbols were scanned; the    *)
(* sorts of the code are stable, so that order breaks the ties.  Ratios    *)
(* (reward to risk, stretch in ATRs) are in thousandths, the stretch of an *)
(* entry over the latest price is in ten-thousandths.                      *)
(***************************************************************************)
EXTENDS Integers, Sequences, FiniteSets

AtLeast(low, x) == IF x < low THEN low ELSE x
AtMost(high, x) == IF x > high THEN high ELSE x
boundedScore(value, min, max) == AtLeast(min, AtMost(max, value))

-----------------------------------------------------------------------------
(* Readiness: are there candles enough, and fresh ones?                    *)

Timeframes == {"5m", "15m", "1h", "4h"}
Minutes == [tf \in Timeframes |-> CASE tf = "5m" -> 5 [] tf = "15m" -> 15
                                    [] tf = "1h" -> 60 [] tf = "4h" -> 240]

\* Candles of the target timeframe that span min candles of the executed one,
\* and never fewer than twenty.
UnflooredBars(exec, target, min) == (min * Minutes[exec] + Minutes[target] - 1) \div Minutes[target]

minBarsForTimeframe(exec, target, min) == AtLeast(20, UnflooredBars(exec, target, min))

\* How many candles of every timeframe the preload asks for.
PreloadLimit(configured, exec, min) ==
    AtLeast(minBarsForTimeframe(exec, "5m", min), AtLeast(min, configured))

\* The indicators look back over this many candles.
IndicatorBars == [tf \in Timeframes |-> IF tf \in {"5m", "15m"} THEN 50 ELSE 20]

Missing(ctx)           == \E tf \in Timeframes : ctx.count[tf] = 0
Insufficient(ctx, min) ==
    \E tf \in Timeframes : ctx.count[tf] < minBarsForTimeframe(ctx.exec, tf, min)
Stale(ctx)             == ctx.age > 3 * Minutes[ctx.exec]
Incomputable(ctx)      == \E tf \in Timeframes : ctx.count[tf] < IndicatorBars[tf]

\* Why a context is not analysed, in the order the reasons are asked for.
ReadinessReasons(ctx, min) ==
    << <<~ctx.transport, "transport_not_ready">>,
       <<Missing(ctx), "missing_candles">>,
       <<Insufficient(ctx, min), "insufficient_candles">>,
       <<Stale(ctx), "feed_stale">>,
       <<Incomputable(ctx), "insufficient_indicator_context">> >>

\* The first reason of a list of <<holds, reason>> that holds.
FirstReason(asked) ==
    IF \A k \in DOMAIN asked : ~asked[k][1] THEN "none"
    ELSE asked[CHOOSE k \in DOMAIN asked : /\ asked[k][1]
                                           /\ \A l \in 1..(k - 1) : ~asked[l][1]][2]

blockedReason(ctx, min) == FirstReason(ReadinessReasons(ctx, min))
analysisReady(ctx, min) == /\ ctx.transport /\ ~Missing(ctx) /\ ~Incomputable(ctx)
                           /\ ~Insufficient(ctx, min) /\ ~Stale(ctx)

\* Without a transport nothing is fetched, and a fetch may fail.
Preloaded(ctx) == ctx.transport /\ ~ctx.failed
PreloadReason(ctx, min) == IF ctx.transport /\ ctx.failed THEN "provider_unavailable"
                           ELSE blockedReason(ctx, min)
ScanReady(ctx, min) == Preloaded(ctx) /\ analysisReady(ctx, min)

\* What the cycle reports of a symbol it does not analyse.
UnavailableReason(ctxs, y, min) ==
    IF \A z \in DOMAIN ctxs : ~ScanReady(ctxs[z], min)
    THEN "worker_warmup_incomplete_no_analysis_ready_symbols"
    ELSE PreloadReason(ctxs[y], min)

-----------------------------------------------------------------------------
(* The scan of one symbol by one engine.                                   *)

Fates == {"invalid", "side_none", "below_min_tier", "signal", "throws"}

\* What becomes of the candidates one after the other: a thrown error ends
\* the loop and leaves the signals already pushed where they are.
Pushed(fates) == {k \in DOMAIN fates : /\ fates[k] = "signal"
                                       /\ \A l \in 1..k : fates[l] # "throws"}
Threw(fates) == \E k \in DOMAIN fates : fates[k] = "throws"

\* What the trace of the scan says of it.
ScanResult(scan) ==
    IF scan.market # "crypto" /\ scan.engine = "engine3" THEN "skipped"
    ELSE IF ~scan.candles THEN "no_setup"
    ELSE IF ~scan.registered THEN "blocked"
    ELSE IF ~scan.generates \/ Threw(scan.fates) THEN "engine_error"
    ELSE IF Pushed(scan.fates) # {} THEN "candidate_generated"
    ELSE IF scan.fates # <<>> THEN "candidate_rejected" ELSE "no_setup"

\* How many candidates the trace counts, and how many signals go on.
Counted(scan) == IF ScanResult(scan) = "candidate_generated" THEN Cardinality(Pushed(scan.fates)) ELSE 0
GoesOn(scan) ==
    /\ ~(scan.market # "crypto" /\ scan.engine = "engine3")
    /\ scan.candles /\ scan.registered /\ scan.generates
Signalled(scan) == IF GoesOn(scan) THEN Pushed(scan.fates) ELSE {}

-----------------------------------------------------------------------------
(* Regime and quality.                                                     *)

\* The regime of a market, from its indicators in thousandths.
classifyRegime(m) ==
    IF (m.slope > 15 \/ m.slope < -15) /\ m.separation > 2 /\ m.chop < 450
    THEN IF m.distance > 2200 \/ m.distance < -2200 \/ m.atrPct > 35 \/ m.expansion > 1800
         THEN "TREND_STRETCHED" ELSE "TREND_ORDERLY"
    ELSE IF m.expansion > 2200 \/ m.atrPct > 50 THEN "SHOCK_UNSTABLE"
    ELSE IF m.compression < 20 /\ m.contraction < 650 /\ 350 <= m.chop /\ m.chop <= 720
         THEN "COMPRESSION_READY"
    ELSE IF m.chop > 620 THEN "CHOP" ELSE "NEUTRAL"

Trending(regime) == regime \in {"TREND_ORDERLY", "TREND_STRETCHED"}

trendScore(s)      == IF Trending(s.regime) THEN 22 ELSE 14
breakoutScore(s)   == boundedScore((25 * s.score + 50) \div 100, 0, 25)
volatilityScore(s) == IF s.regime = "SHOCK_UNSTABLE" THEN 18 ELSE 12
structureScore(s)  == CASE s.grade = "A+" -> 19 [] s.grade = "A" -> 16 [] OTHER -> 12
entryScore(s)      == boundedScore((105 - AtMost(100, s.stretch)) \div 10, 0, 10)

signalScore(s) == trendScore(s) + breakoutScore(s) + volatilityScore(s)
                    + structureScore(s) + entryScore(s)

\* The tier of a signal; one without a tier is rejected.
SignalTier(s) ==
    IF signalScore(s) >= 85 /\ s.grade = "A+" /\ s.rr >= 1800 THEN "A+"
    ELSE IF signalScore(s) >= 70 /\ s.rr >= 1250 THEN "A" ELSE "none"

\* The one strategy the worker runs, compression_breakout_balanced, builds
\* its candidates in this regime only.
FromLiveStrategy(s) == s.regime = "COMPRESSION_READY"

-----------------------------------------------------------------------------
(* The gates of signal mode.  A desk is what the cycle read: symbols with  *)
(* an active outcome, with one of the last minute, <<symbol, side>> of     *)
(* open trades, symbols stopped out lately, whether a signal was sent      *)
(* lately, how many were sent today, and the settings.                     *)

tierPriority(tier) == CASE tier = "A+" -> 3 [] tier = "A" -> 2 [] OTHER -> 1
minScoreForTier(tier) == CASE tier = "A+" -> 85 [] tier = "A" -> 70 [] OTHER -> 60

OnlyAPlus(desk) == desk.requireAPlus \/ desk.minTier = "A+"
passesMinTier(c, desk) ==
    IF OnlyAPlus(desk) THEN c.tier = "A+"
    ELSE tierPriority(c.tier) >= tierPriority(desk.minTier)

\* Behind its daily target after noon, a desk that takes more than A+ asks
\* for three points less.
BaseMinScore(desk) == AtLeast(minScoreForTier(desk.minTier), desk.minScore)
EffectiveMinScore(desk) ==
    IF desk.relaxes /\ desk.afternoon /\ desk.sent < desk.target /\ ~OnlyAPlus(desk)
    THEN AtLeast(65, BaseMinScore(desk) - 3) ELSE BaseMinScore(desk)

ClosedBy(c, desk) ==
    << <<c.symbol \in desk.active \cup desk.recent, "active_position_exists">>,
       << <<c.symbol, c.side>> \in desk.facing, "duplicate_same_direction_active">>,
       <<c.symbol \in desk.stopped, "cooldown">>,
       <<desk.cooling, "global_cooldown">>,
       <<~passesMinTier(c, desk), "below_min_tier">>,
       <<c.score < EffectiveMinScore(desk), "below_min_score">>,
       <<c.market = "forex" /\ desk.forexReadinessOnly, "forex_readiness_only_mode">>,
       <<c.rr <= 0, "invalid_signal_fields">>,
       <<c.rr < desk.minRR, "rr_threshold">>,
       <<desk.sent >= desk.target + 1 /\ c.tier # "A+", "daily_allowance_reached">>,
       <<c.atr > 0 /\ 1000 * c.gap > desk.maxStretch * c.atr, "entry_stretch">> >>

Eligible(c, desk) == \A k \in DOMAIN ClosedBy(c, desk) : ~ClosedBy(c, desk)[k][1]
SkipReason(c, desk) == FirstReason(ClosedBy(c, desk))

-----------------------------------------------------------------------------
(* Ranking.  cs is the list of candidates of the cycle, i and j indices.   *)

\* The comparison of the sort, one key after the other.
RankingKeys(c) ==
    <<c.score, tierPriority(c.tier), c.rr, c.room,
      IF Trending(c.regime) THEN 1 ELSE 0,
      IF c.regime = "SHOCK_UNSTABLE" THEN 0 ELSE 1, c.confidence>>
Exceeds(a, b) == \E k \in DOMAIN a : a[k] > b[k] /\ \A l \in 1..(k - 1) : a[l] = b[l]

ScoresAbove(cs, i, j) == \/ cs[i].score > cs[j].score
                         \/ cs[i].score = cs[j].score /\ i < j
RanksAbove(cs, i, j) ==
    LET a == RankingKeys(cs[i])  b == RankingKeys(cs[j])
    IN  Exceeds(a, b) \/ (a = b /\ ScoresAbove(cs, i, j))

\* One candidate per symbol and side: the best scored.
Deduped(cs, eligible) ==
    {i \in eligible : \A j \in eligible \ {i} :
        cs[j].symbol = cs[i].symbol /\ cs[j].side = cs[i].side => ~ScoresAbove(cs, j, i)}

\* The indices of the set kept, best first.
Ranked(cs, kept) ==
    [n \in 1..Cardinality(kept) |->
        CHOOSE i \in kept : Cardinality({j \in kept : RanksAbove(cs, j, i)}) = n - 1]

cryptoDiversificationGroup(symbol) ==
    CASE symbol \in {"BTCUSDT", "ETHUSDT"} -> "majors"
      [] symbol \in {"SOLUSDT", "BNBUSDT", "XRPUSDT", "ADAUSDT"} -> "large_alts"
      [] symbol \in {"DOGEUSDT", "AVAXUSDT", "LINKUSDT", "MATICUSDT"} -> "high_beta_alt_or_meme"
      [] OTHER -> "other"

\* Two crypto candidates of one side, at most two points apart.
NearTie(c, d) == /\ c.score - d.score \in -2..2 /\ c.side = d.side
                 /\ c.market = "crypto" /\ d.market = "crypto"
SameGroup(c, d) == cryptoDiversificationGroup(c.symbol) = cryptoDiversificationGroup(d.symbol)

\* Where a near tie of another group stands behind the next of one's own.
Alternatives(cs, q, k) ==
    IF NearTie(cs[q[k]], cs[q[k + 1]]) /\ SameGroup(cs[q[k]], cs[q[k + 1]])
    THEN {l \in (k + 2)..Len(q) : NearTie(cs[q[k]], cs[q[l]]) /\ ~SameGroup(cs[q[k]], cs[q[l]])}
    ELSE {}

\* The element at l moves to k + 1; what stood from there on makes room.
Promoted(q, k, l) == [n \in DOMAIN q |-> IF n = k + 1 THEN q[l]
                                         ELSE IF n \in (k + 2)..l THEN q[n - 1] ELSE q[n]]
DiversifiedAt(cs, q, k) ==
    LET alternatives == Alternatives(cs, q, k)
    IN  IF alternatives = {} THEN q
        ELSE Promoted(q, k, CHOOSE l \in alternatives : \A m \in alternatives : l <= m)

\* The ranking after its places were looked at one after the other.
Diversification(cs, q) ==
    LET after[n \in 0..Len(q)] == IF n = 0 THEN q ELSE
            IF n = Len(q) THEN after[n - 1] ELSE DiversifiedAt(cs, after[n - 1], n)
    IN  after[Len(q)]

RankedForSelection(cs, desk) ==
    LET q == Ranked(cs, Deduped(cs, {i \in DOMAIN cs : Eligible(cs[i], desk)}))
    IN  IF desk.diversifies THEN Diversification(cs, q) ELSE q

-----------------------------------------------------------------------------
(* Who is taken.                                                           *)

\* Signal mode with the brain: its choice, while the desk has a slot left.
\* choice is the set of the at most one index the brain selected.
BrainAdmits(choice, desk) == IF desk.cap > desk.open THEN choice ELSE {}

\* Independent engines, the default: the best scored of every symbol.
IndependentAdmits(cs) ==
    {i \in DOMAIN cs : \A j \in DOMAIN cs \ {i} :
        cs[j].symbol = cs[i].symbol => ~ScoresAbove(cs, j, i)}

NotAdmittedReason(cs, i) ==
    IF \E j \in IndependentAdmits(cs) : cs[j].symbol = cs[i].symbol /\ cs[j].side = cs[i].side
    THEN "same_symbol_duplication" ELSE "opposite_side_conflict"

\* Other modes take every candidate; a signal desk without a database none.
Admitted(cs, run, choice, desk) ==
    IF run.independent THEN IndependentAdmits(cs)
    ELSE IF run.mode # "signal" THEN DOMAIN cs
    ELSE IF run.database THEN BrainAdmits(choice, desk) ELSE {}

\* With a database only A+ goes on, one per symbol, and none on a symbol
\* with an open trade or outcome; without one signal mode asks for A+.
APlus(cs, admitted) == {i \in admitted : cs[i].tier = "A+"}
Persisted(cs, admitted, locked) ==
    {i \in APlus(cs, admitted) :
        /\ cs[i].symbol \notin locked
        /\ \A j \in APlus(cs, admitted) \ {i} :
             cs[j].symbol = cs[i].symbol => ~ScoresAbove(cs, j, i)}
Unpersisted(cs, admitted, mode) == IF mode = "signal" THEN APlus(cs, admitted) ELSE admitted

FinalSelection(cs, run, choice, desk, locked) ==
    LET admitted == Admitted(cs, run, choice, desk)
    IN  IF run.database THEN Persisted(cs, admitted, locked)
        ELSE Unpersisted(cs, admitted, run.mode)
=============================================================================
