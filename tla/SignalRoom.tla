----------------------------- MODULE SignalRoom -----------------------------
(***************************************************************************)
(* What the web API tells of the rows the worker stored: the signal room   *)
(* with its positions, accounts and performance, the engines' table, and   *)
(* the performance and the integrity of the outcomes.  Every answer is a   *)
(* function of one reading of the database; what is worth knowing of it is *)
(* how much of the database each part is computed from.                    *)
(*                                                                         *)
(* A value that may be missing is a set of at most one element.  Ratios    *)
(* are in hundredths, rounded down.  The page sizes of the queries are     *)
(* arguments.  A symbol stands for its normalised name.                    *)
(***************************************************************************)
EXTENDS PaperAccount

Missing == {}
Or(optional, default) == IF optional = Missing THEN default ELSE CHOOSE v \in optional : TRUE

\* closedAt of a trade that is still open.
Never == -1

\* orderBy ... "desc", take n; rows of one instant stay together.
Newest(rows, n, At(_)) == {r \in rows : Cardinality({q \in rows : At(q) > At(r)}) < n}

MarketType(symbol, ranking, forexSymbols) ==
    IF symbol \in DOMAIN ranking THEN ranking[symbol]
    ELSE IF symbol \in forexSymbols THEN "forex" ELSE "crypto"

\* Whatever is not one of the other three engines' strategies is engine1's.
EngineOf(strategy) ==
    CASE strategy = {"expansion_reload_v2_wide"}    -> "engine2"
      [] strategy = {"continuation_reclaim_5m_v1"}  -> "engine3"
      [] strategy = {"micro_scalp_continuation_v1"} -> "engine4"
      [] OTHER -> "engine1"

PositionStatus(t) == IF t.closedAt # Never THEN "closed"
                     ELSE IF t.status = "tp1_hit" THEN "partially_closed" ELSE "open"

CloseReason(status) == CASE status \in {"stop_hit", "tp2_hit", "tp1_hit"} -> {status}
                         [] status = "closed" -> {"time_stop"}
                         [] OTHER -> Missing

-----------------------------------------------------------------------------
(* The rows the room is built from.                                        *)

OpenTrades(trades, page) ==
    LET At(t) == t.openedAt
    IN  Newest({t \in trades : t.status \in {"open", "tp1_hit"} /\ t.closedAt = Never}, page, At)

ClosedTrades(trades, page) ==
    LET At(t) == t.closedAt
    IN  Newest({t \in trades : t.status \in {"tp2_hit", "stop_hit", "closed"}}, page, At)

Recent(rows, page) == LET At(r) == r.at IN Newest(rows, page, At)

\* The strategy of a trade is known while its signal is among the recent ones.
StrategyOf(t, recentSignals) == UNION {s.strategy : s \in {e \in recentSignals : e.id = t.event}}

\* Of several decisions about a signal the oldest gives the reason ...
SelectedReason(t, decisions) ==
    LET told == {d \in decisions : d.event = t.event /\ d.reason # Missing}
    IN  UNION {d.reason : d \in {e \in told : \A f \in told : e.at <= f.at}}

\* ... and the newest the rest.
ExecutionTruth(t, decisions) ==
    LET about == {d \in decisions : d.event = t.event}
    IN  UNION {d.truth : d \in {e \in about : \A f \in about : e.at >= f.at}}

\* The newest of the persisted details of a signal.
SignalDetail(t, persisted) ==
    LET about == {p \in persisted : p.event = t.event}
    IN  UNION {p.detail : p \in {e \in about : \A f \in about : e.at >= f.at}}

MarginUsed(t) == IF t.leverage > 0 THEN t.notional \div t.leverage ELSE 0
PerRisk(pnl, risk) == IF risk > 0 THEN (100 * pnl) \div risk ELSE 0
PerMargin(t) == IF MarginUsed(t) > 0 THEN (100 * t.unrealized) \div MarginUsed(t) ELSE 0
MovePct(t, price) == IF t.entry > 0 THEN (100 * Direction(t.side) * (price - t.entry)) \div t.entry ELSE 0

\* How far the price is from a level ahead of it.
DistancePct(t, price, level) == IF price > 0 THEN (100 * Direction(t.side) * (level - price)) \div price ELSE 0

\* The figures shown beside an open or closed trade.
withPaperComputedFields(t) ==
    LET price == Or(t.price, t.entry)
    IN  [leverage |-> IF t.base > 0 THEN (100 * t.notional) \div t.base ELSE 0,
         riskPct  |-> IF t.base > 0 THEN (100 * t.risk) \div t.base ELSE t.riskPct,
         rClosed  |-> PerRisk(t.realized, t.risk), rOpen |-> PerRisk(t.unrealized, t.risk),
         move     |-> MovePct(t, price),
         toStop   |-> -DistancePct(t, price, t.stop), toTp1 |-> DistancePct(t, price, t.tp1),
         toTp2    |-> DistancePct(t, price, t.tp2)]

\* One trade as a position of the room; room has the rows read and the
\* configuration.
Position(t, room) ==
    LET price == Or(t.price, t.entry)
        detail == SignalDetail(t, room.persisted)
        truth == ExecutionTruth(t, room.decisions)
        open == PositionStatus(t) # "closed"
    IN  [id |-> t.id, symbol |-> t.symbol, side |-> t.side, status |-> PositionStatus(t),
         marketType |-> MarketType(t.symbol, room.ranking, room.config.forexSymbols),
         entry |-> t.entry, qty |-> t.qty, notional |-> t.notional, leverage |-> t.leverage,
         realized |-> t.realized, unrealized |-> t.unrealized, riskAtEntry |-> t.risk,
         margin |-> MarginUsed(t), closeReason |-> CloseReason(t.status),
         engine |-> EngineOf(StrategyOf(t, room.signals)),
         tier |-> detail, reason |-> SelectedReason(t, room.decisions), truth |-> truth,
         effectiveR |-> PerRisk(IF open THEN t.realized + t.unrealized ELSE t.realized, t.risk),
         onEntry |-> MovePct(t, price), onMargin |-> PerMargin(t)]

OpenPositions(room)   == {Position(t, room) : t \in room.open}
ClosedPositions(room) == {Position(t, room) : t \in room.closed}

\* One reading of the database.
Room(db, config, pages) ==
    [config |-> config, ranking |-> db.ranking,
     open |-> OpenTrades(db.trades, pages.trades), closed |-> ClosedTrades(db.trades, pages.trades),
     signals |-> Recent(db.signals, pages.trades), decisions |-> Recent(db.decisions, pages.events),
     persisted |-> Recent(db.persisted, pages.details)]

Of(positions, marketType) == {p \in positions : p.marketType = marketType}

-----------------------------------------------------------------------------
(* The accounts.                                                           *)

Sum(Amount(_), rows) == MapThenSumSet(Amount, rows)
Realized(rows)   == LET R(r) == r.realized IN Sum(R, rows)
Unrealized(rows) == LET U(r) == r.unrealized IN Sum(U, rows)

Account(startingBalance, slots, open, closed) ==
    LET snapshot == Snapshot([equity |-> startingBalance, maxConcurrent |-> slots], open \cup closed)
    IN  [equity |-> snapshot.equity, freeMargin |-> snapshot.freeMargin,
         realized |-> Realized(closed), unrealized |-> Unrealized(open),
         balance |-> startingBalance + Realized(closed),
         openCount |-> Cardinality(open), closedCount |-> Cardinality(closed)]

CombinedAccount(room) ==
    Account(room.config.paperEquity, 5, OpenPositions(room), ClosedPositions(room))

MarketAccount(room, marketType) ==
    Account(IF marketType = "forex" THEN room.config.forexEquity ELSE room.config.cryptoEquity,
            room.config.maxConcurrent, Of(OpenPositions(room), marketType),
            Of(ClosedPositions(room), marketType))

RiskOpen(positions) == LET R(p) == p.riskAtEntry IN Sum(R, positions)

\* The result of everything on the page, over the risk of what is open.
NetR(room) ==
    LET account == CombinedAccount(room)
        risk == RiskOpen(OpenPositions(room))
    IN  IF risk > 0 THEN {(100 * (account.realized + account.unrealized)) \div risk} ELSE Missing

\* The combined account counts outcomes, a market's account close reasons.
Counted(rows, outcome) == Cardinality({t \in rows : t.outcome = outcome})
OutcomeSummary(room) == [wins |-> Counted(room.closed, "win"), losses |-> Counted(room.closed, "loss"),
                         partialWins |-> Counted(room.closed, "partial_win")]
OutcomeBuckets(positions) ==
    LET By(reason) == Cardinality({p \in positions : p.closeReason = {reason}})
    IN  [wins |-> By("tp2_hit"), losses |-> By("stop_hit"), partialWins |-> By("tp1_hit")]

\* Whether the combined account is shown: a matter of the configuration alone.
CombinedIsTruthful(config) ==
    \/ config.cryptoEquity <= 0 /\ config.forexEquity <= 0
    \/ config.paperEquity = config.cryptoEquity + config.forexEquity

AccountSummary(room) ==
    [combined |-> IF CombinedIsTruthful(room.config)
                  THEN {[account |-> CombinedAccount(room), netR |-> NetR(room),
                         outcomes |-> OutcomeSummary(room)]}
                  ELSE Missing,
     markets |-> [m \in {"crypto", "forex"} |->
                    [account |-> MarketAccount(room, m), openRisk |-> RiskOpen(Of(OpenPositions(room), m)),
                     outcomes |-> OutcomeBuckets(Of(ClosedPositions(room), m))]]]

\* What of the combined equity is still free, for at most five positions.
CapitalAllocation(room) ==
    LET equity == CombinedAccount(room).equity
        N(t) == t.notional
        used == Sum(N, room.open)
        capacity == equity * room.config.paperLeverage
        budget == (equity * room.config.maxOpenRiskPct) \div 100
    IN  [capacity |-> capacity, available |-> Greatest(capacity - used, 0),
         riskBudget |-> budget, riskLeft |-> Greatest(budget - RiskOpen(OpenPositions(room)), 0)]

-----------------------------------------------------------------------------
(* Performance, over every trade.                                          *)

Average(Amount(_), rows) ==
    IF rows = {} THEN Missing ELSE {(100 * Sum(Amount, rows)) \div Cardinality(rows)}

Metrics(trades) ==
    LET closed == {t \in trades : t.closedAt # Never}
        rated  == {t \in closed : t.risk > 0}
        R(t)   == PerRisk(t.realized, t.risk)
        gained == Realized({t \in closed : t.realized > 0})
        lost   == -Realized({t \in closed : t.realized < 0})
        Held(t) == t.closedAt - t.openedAt
        timed  == {t \in closed : Held(t) >= 0}
    IN  [total |-> Cardinality(trades), open |-> Cardinality(trades \ closed), closed |-> Cardinality(closed),
         wins |-> Counted(closed, "win"), losses |-> Counted(closed, "loss"),
         partialWins |-> Counted(closed, "partial_win"),
         breakeven |-> Cardinality({t \in closed : t.outcome = "breakeven" \/ t.realized = 0}),
         winRate |-> IF closed = {} THEN Missing
                     ELSE {(100 * Counted(closed, "win")) \div Cardinality(closed)},
         netR |-> IF rated = {} THEN Missing ELSE {Sum(R, rated)}, avgR |-> Average(R, rated),
         realized |-> Realized(closed), unrealized |-> Unrealized(trades \ closed),
         profitFactor |-> IF lost > 0 THEN {(100 * gained) \div lost}
                          ELSE IF gained > 0 THEN Missing ELSE {0},
         held |-> Average(Held, timed),
         heldWinning |-> Average(Held, {t \in timed : t.outcome \in {"win", "partial_win"}}),
         heldLosing  |-> Average(Held, {t \in timed : t.outcome = "loss"})]

\* The trades a window is about: opened in it, or closed in it.
Window(trades, start) == {t \in trades : t.openedAt >= start \/ (t.closedAt # Never /\ t.closedAt >= start)}

PerformanceWindows(trades, today, last24h) ==
    [todayUtc |-> Metrics(Window(trades, today)), last24h |-> Metrics(Window(trades, last24h)),
     allTime |-> Metrics(trades)]

EnginePerformance(trades) ==
    [engine \in {"engine1", "engine2", "engine3", "engine4"} |->
        Metrics({t \in trades : EngineOf(t.strategy) = engine})]

\* The strategy an engine is shown with is the one of its first trade.
StrategyShown(trades, engine) ==
    LET named == {t \in trades : EngineOf(t.strategy) = engine /\ t.strategy # Missing}
    IN  UNION {t.strategy : t \in {f \in named : \A g \in named : f.openedAt <= g.openedAt}}

\* The other table of the engines knows its strategies by name, leaves out the
\* rest, and counts by the sign of the result; its page has the oldest trades.
NamedEngine(strategy) ==
    IF strategy \in {{"compression_breakout_balanced"}, {"compression_breakout_strict"}} THEN {"engine1"}
    ELSE IF EngineOf(strategy) # "engine1" THEN {EngineOf(strategy)} ELSE Missing

EngineTable(trades, page) ==
    LET Age(t) == -t.openedAt
        closed == Newest({t \in trades : t.closedAt # Never}, page, Age)
        OfEngine(e) == {t \in closed : NamedEngine(t.strategy) = {e}}
        R(t) == PerRisk(t.realized, t.risk)
        Row(rows) == [taken |-> Cardinality(rows), wins |-> Cardinality({t \in rows : t.realized > 0}),
                      netPnl |-> Realized(rows), avgR |-> Average(R, rows)]
    IN  [e \in UNION {NamedEngine(t.strategy) : t \in closed} |-> Row(OfEngine(e))]

\* Pairs of trades of one symbol and side that were open at one time.
Overlaps(trades, symbol, now) ==
    LET End(t) == IF t.closedAt = Never THEN now ELSE t.closedAt
        own == {t \in trades : t.symbol = symbol}
    IN  {{a, b} : <<a, b>> \in {<<x, y>> \in own \X own :
            x # y /\ x.side = y.side /\ x.openedAt <= End(y) /\ y.openedAt <= End(x)}}

-----------------------------------------------------------------------------
(* The outcomes.                                                           *)

OutcomeStatuses == {"OPEN", "TP1_HIT", "TP2_HIT", "STOP_HIT", "EXPIRED", "PARTIAL_WIN", "BE_AFTER_TP1"}
Resolved == OutcomeStatuses \ {"OPEN", "TP1_HIT"}

AsR(o) == LET risk == Abs(o.entry - o.stop)
          IN  CASE risk = 0 -> 0
                [] risk > 0 /\ o.status = "TP2_HIT"  -> PerRisk(Abs(o.tp2 - o.entry), risk)
                [] risk > 0 /\ o.status = "TP1_HIT"  -> PerRisk(Abs(o.tp1 - o.entry), risk)
                [] risk > 0 /\ o.status = "STOP_HIT" -> -100
                [] OTHER -> 0

ResultR(o) == Or(o.finalR, AsR(o))

\* Of one tier, or of all: rates and expectancy are of the full wins and
\* losses only, the average of everything resolved.
TierPerformance(outcomes) ==
    LET With(status) == {o \in outcomes : o.status = status}
        resolved == {o \in outcomes : o.status \in Resolved}
        decided  == Cardinality(With("TP2_HIT")) + Cardinality(With("STOP_HIT"))
        won  == Sum(ResultR, With("TP2_HIT"))
        lost == Abs(Sum(ResultR, With("STOP_HIT")))
    IN  [total |-> Cardinality(outcomes), resolved |-> Cardinality(resolved),
         wins |-> Cardinality(With("TP2_HIT")), losses |-> Cardinality(With("STOP_HIT")),
         partialWins |-> Cardinality(With("PARTIAL_WIN")),
         winRate |-> IF decided = 0 THEN 0 ELSE (100 * Cardinality(With("TP2_HIT"))) \div decided,
         avgR |-> IF resolved = {} THEN 0 ELSE Sum(ResultR, resolved) \div Cardinality(resolved),
         expectancy |-> IF decided = 0 THEN 0 ELSE (won - lost) \div decided]

SignalPerformance(outcomes, page) ==
    LET recent == Recent(outcomes, page)
    IN  [all |-> TierPerformance(recent),
         tiers |-> [tier \in {"A+", "A", "B"} |-> TierPerformance({o \in recent : o.tier = tier})]]

Distribution(outcomes) == [s \in OutcomeStatuses |-> Cardinality({o \in outcomes : o.status = s})]
Mismatch(outcomes) == LET dist == Distribution(outcomes)
                          Count(s) == dist[s]
                      IN  Sum(Count, OutcomeStatuses) # Cardinality(outcomes)

-----------------------------------------------------------------------------
(* The cycle, as the last reconciliation tells it.                         *)

\* Without a reconciliation nothing was done in the cycle, and the totals are
\* of the rows read.
CurrentCycle(reconciliation) ==
    Or(reconciliation, [evaluated |-> 0, persisted |-> 0, dispatched |-> 0,
                        selected |-> Missing, rejected |-> Missing, scanned |-> 0, skipped |-> 0])

PersistedTotals(totals, room, resolved, signals) ==
    Or(totals, [open |-> Cardinality(room.open), closed |-> Cardinality(room.closed),
                resolved |-> resolved, signals |-> signals])

SelectedCount(cycle) == Or(cycle.selected, cycle.persisted)
RejectedCount(cycle) == Or(cycle.rejected, Greatest(cycle.evaluated - cycle.persisted, 0))
SymbolsReady(cycle)  == cycle.scanned - cycle.skipped

\* When the cycle shown began is known while its start is among the newest
\* events of the worker.
CycleStarted(events, page) ==
    LET starts == {e \in Recent(events, page) : e.type = "cycle_started"}
    IN  {e.at : e \in {f \in starts : \A g \in starts : f.at >= g.at}}

\* A candidate of the cycle is shown with the strategy of the newest signal of
\* its symbol, whichever engine that was.
EngineShown(candidate, recentSignals) ==
    LET own == {s \in recentSignals : s.symbol = candidate.symbol}
    IN  EngineOf(UNION {s.strategy : s \in {e \in own : \A f \in own : e.at >= f.at}})

DispatchBreakdown(open, signals) ==
    LET Sent(t) == \E s \in signals : s.id = t.event /\ s.dispatch = "sent"
    IN  [sent |-> Cardinality({t \in open : Sent(t)}), unsent |-> Cardinality({t \in open : ~Sent(t)})]

\* What the worker told of a position in its newest events, and told last.
LifecycleTrail(id, events, page) == {e \in Recent(events, page) : e.trade = {id}}

LastLifecycleEvent(id, events, page) ==
    LET trail == LifecycleTrail(id, events, page)
    IN  UNION {IF e.status # Missing THEN e.status ELSE e.closeReason :
                 e \in {f \in trail : \A g \in trail : f.at >= g.at}}

\* The flags of a symbol of the scan board; a reason is the set of the words
\* looked for in it.
Mentions(reason, words) == reason \cap words # {}
StateFlags(entry, open) ==
    LET reason == Or(entry.rejectedReason, Or(entry.blockedReason, {}))
    IN  [activeOpenTrade |-> \E p \in open : p.symbol = entry.symbol,
         duplicateBlocked |-> Mentions(reason, {"duplicate", "active_symbol_gate", "same_symbol"}),
         cooldownBlocked |-> Mentions(reason, {"cooldown"}),
         sameMoveBlocked |-> Mentions(reason, {"same_move", "same-move", "reentry"}),
         noNewStructureBlocked |-> Mentions(reason, {"no_new_structure", "no-new-structure"}),
         duplicateTelegramBlocked |-> Mentions(reason, {"telegram", "dispatch"})]

\* Whether the running worker went on from the rows of the last one.
Resumed(lastResume, lastReset) ==
    lastResume # Missing /\ \A at \in lastResume, reset \in lastReset : at > reset

EffectiveMinScore(config) ==
    Greatest(config.minScore, CASE config.minTier = "A+" -> 85 [] config.minTier = "A" -> 70 [] OTHER -> 60)

\* The symbols the runtime control allows, and whether it runs.
ControlPlane(control) == Or(control, [allowed |-> {}, activeMode |-> "signal", isRunning |-> FALSE])

=============================================================================
