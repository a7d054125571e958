---------------------------- MODULE MCPaperTrade ----------------------------
(* A small instance of PaperTrade: one plan on each side on a grid of      *)
(* prices that puts a level, a gap and a beyond around every order.  What  *)
(* the account of PaperAccount computes is checked here too, over small    *)
(* configurations and positions.                                           *)
EXTENDS PaperTrade

MCPlans == { [side |-> "LONG",  entry |-> 10, stop |-> 6,  tp1 |-> 13, tp2 |-> 15],
             [side |-> "SHORT", entry |-> 10, stop |-> 14, tp1 |-> 7,  tp2 |-> 5] }
MCPrices == {4, 6, 7, 8, 10, 12, 13, 14}
MCQuantities == {4}

A == INSTANCE PaperAccount

Config == [paperRisk |-> 100, paperLeverage |-> 1, cryptoLeverage |-> 3, forexRisk |-> 100,
           cryptoEquity |-> 100000, forexEquity |-> 100000, maxConcurrent |-> 3]

Signal(id, symbol, marketType, side, entry, stop) ==
    [id |-> id, symbol |-> symbol, marketType |-> marketType, side |-> side, entry |-> entry,
     stop |-> stop, aPlus |-> TRUE, assertedAPlus |-> TRUE, hundredthLot |-> 1000]

Taken(id, entry, stop, riskAtEntry, realized) ==
    [id |-> id, symbol |-> id, side |-> "LONG", entry |-> entry, qty |-> 100,
     notional |-> 100 * entry, leverage |-> 3, riskAtEntry |-> riskAtEntry, status |-> "open",
     unrealized |-> 0, realized |-> realized]

\* The exits of every engine in every regime make a plan that PaperTrade may
\* be given.
ASSUME ExitsArePlans ==
    \A engine \in {"engine1", "engine2", "engine3", "engine4"}, side \in {"LONG", "SHORT"},
       regime \in {"compressed", "normal", "expansion"}, stop \in {19900, 20000, 20500},
       atr \in {0, 150, 900} :
        LET exits == A!DynamicExits(side, 20000, stop, atr, engine, regime)
        IN  exits \in Plan /\ WellPlanned(exits)

\* One trade may take the whole open risk of the personal mode although the
\* profile says one percent: the second signal of the cycle finds nothing left.
ASSUME FirstTakesAll ==
    LET profile == A!SizingProfile(Config, "crypto", "personal", TRUE)
        first  == Signal("a", "BTC", "crypto", "LONG", 100, 99)
        second == Signal("b", "ETH", "crypto", "LONG", 100, 99)
        account == A!Snapshot(profile, {})
        one == A!AfterAdmission("personal", Config, {}, first, 0)
    IN  /\ profile.riskPct = 100
        /\ A!OpenRisk(one) = 1500 /\ A!PersonalRiskCap(account) = 1500
        /\ A!Admission("personal", A!Snapshot(profile, one), A!OpenRisk(one), profile, FALSE, second, 0).reason
             = "blocked_risk_clamped_to_zero"

\* The smallest forex lot is taken whatever the risk it carries, and whatever
\* margin it needs.
ASSUME SmallestLotIsUnchecked ==
    LET s == Signal("a", "EURUSD", "forex", "LONG", 100, 50)
        profile == A!SizingProfile(Config, "forex", "personal", TRUE)
        d == A!Admission("personal", A!Snapshot(profile, {}), 0, profile, FALSE,
                         [s EXCEPT !.hundredthLot = 4000], 0)
    IN  d.accepted /\ d.risk > 1500 /\ d.notional > 3 * 100000

\* The account forgets what a partial close realised until the rest of the
\* position is closed.
ASSUME PartialsAreForgotten ==
    LET p == Taken("a", 100, 90, 1000, 0)
        marked == A!Marked(p, 110)
        half == A!PartlyClosed(marked, 110, 50)
        profile == A!SizingProfile(Config, "crypto", "personal", TRUE)
    IN  /\ A!Snapshot(profile, {marked}).equity = 101000
        /\ A!Snapshot(profile, {half}).equity = 100500
        /\ A!Snapshot(profile, {A!ClosedPosition(half, 110)}).equity = 101000
        /\ A!Snapshot(profile, {half}).freeMargin > A!Snapshot(profile, {p}).freeMargin

\* Each of these reasons to reject is given to some signal.
ASSUME EveryReasonIsGiven ==
    LET profile == A!SizingProfile(Config, "crypto", "prop", FALSE)
        account == A!Snapshot(profile, {})
        Reason(acc, prof, entry, stop, taken, allowed) ==
            A!Decision(acc, prof, entry, stop, taken, allowed, 0).reason
    IN  /\ Reason(account, profile, 100, 99, TRUE, A!NotGiven) = "blocked_active_symbol_open_position"
        /\ Reason([account EXCEPT !.openCount = 3], profile, 100, 99, FALSE, A!NotGiven)
             = "blocked_max_concurrent_positions"
        /\ Reason(account, profile, 0, 99, FALSE, A!NotGiven) = "blocked_invalid_entry_price"
        /\ Reason([account EXCEPT !.equity = 0], profile, 100, 99, FALSE, A!NotGiven) = "blocked_risk_invalid"
        /\ Reason(account, profile, 100, 100, FALSE, A!NotGiven) = "blocked_invalid_stop_distance"
        /\ Reason([account EXCEPT !.freeMargin = 0], profile, 100, 99, FALSE, A!NotGiven) = "blocked_notional_cap"
        /\ Reason(account, profile, 100, 99, FALSE, 0) = "blocked_risk_clamped_to_zero"
        /\ Reason(account, profile, 100, 99, FALSE, A!NotGiven) = "none"

\* A plain entry that asks for the whole free margin is taken or refused for
\* want of margin, as the doubles round; one that its risk limits is taken.
ASSUME RoundingDecides ==
    LET profile == A!SizingProfile(Config, "crypto", "personal", TRUE)
        account == A!Snapshot(profile, {})
        Reasons(stop) ==
            {A!Admission("personal", account, 0, profile, FALSE,
                         Signal("a", "BTC", "crypto", "LONG", 1000, stop), r).reason : r \in A!Roundings}
    IN  /\ Reasons(996) = {"none", "blocked_margin_unavailable"}
        /\ Reasons(990) = {"none"}

-----------------------------------------------------------------------------
(* The allocator and the connectors: three signals, and pairs of signals   *)
(* over two markets, two scores and two grades.                            *)

C == INSTANCE Allocation

Setups == [symbol : {"BTC", "EURUSD"}, marketType : {"crypto", "forex"}, score : {60, 95},
           confidence : {50}, grade : {"A+", "B"}, entry : {100}, stop : {99}]
Setup(symbol, marketType, score) ==
    [symbol |-> symbol, marketType |-> marketType, score |-> score, confidence |-> 50,
     grade |-> "A+", entry |-> 100, stop |-> 99]
Symbols == {"BTC", "ETH", "EURUSD"}
Decisions(mode, cap, locks, signals) == C!Allocation(mode, 10000, Symbols, cap, locks, signals)
Given(ds) == C!MapThenSumSet(LAMBDA k : ds[k].share, DOMAIN ds)

\* Whatever pair is allocated, the open risk of the mode is not exceeded, the
\* decisions are about the signals, and the better one gets no less.
ASSUME BudgetIsKept ==
    \A mode \in {"live_personal", "live_prop"}, s \in Setups, t \in Setups, cap \in {40, 100} :
        LET ds == Decisions(mode, cap, {}, <<s, t>>)
        IN  /\ Given(ds) <= C!Governance[mode].openRiskCap
            /\ {ds[1].signal, ds[2].signal} = {s, t}
            /\ ds[1].share >= ds[2].share

\* Two signals of one symbol share no cap: each gets the whole of it.
ASSUME CapIsOfTheSignal ==
    LET ds == Decisions("live_personal", 75, {}, <<Setup("BTC", "crypto", 95), Setup("BTC", "crypto", 95)>>)
    IN  Given(ds) = 150

\* A crypto signal takes its share of the prop budget and is then refused by
\* the connector; the forex order is half as large as it would be alone.
ASSUME RefusedOrdersKeepTheirShare ==
    LET forex == Setup("EURUSD", "forex", 95)
        both == Decisions("live_prop", 75, {}, <<forex, Setup("BTC", "crypto", 95)>>)
        orders == C!PropPlan("live", "prop", TRUE, both, {})
        alone == C!PropPlan("live", "prop", TRUE, Decisions("live_prop", 75, {}, <<forex>>), {})
    IN  /\ orders[2].blockedReason = "market_type_not_forex"
        /\ orders[1].ordered /\ 2 * orders[1].quantity < alone[1].quantity
        /\ C!ComplianceRows(orders, {}).dispatchBlocked = {2}

\* The kill switch ends every order of the prop mode and none of the
\* personal mode, whose order is recorded as an open position.
ASSUME KillSwitchIsForProp ==
    LET killed == C!ActiveLocks(TRUE, {})
        crypto == Setup("BTC", "crypto", 95)
        personal == Decisions("live_personal", 75, killed, <<crypto>>)
        prop == Decisions("live_prop", 40, killed, <<Setup("EURUSD", "forex", 95)>>)
        before == [sym \in Symbols |-> "idle"]
        seen == [symbol |-> "BTC", marketType |-> "crypto", candidateCount |-> 1]
        after == C!Lifecycle(before, personal, <<seen>>)
    IN  /\ C!PersonalPlan("live", "personal", TRUE, personal)[1].ordered
        /\ ~C!PropPlan("live", "prop", TRUE, prop, killed)[1].ordered
        /\ C!ComplianceRows(C!PropPlan("live", "prop", TRUE, prop, killed), killed).lockActive = C!Locks
        /\ after["BTC"] = "position_open" /\ after["ETH"] = "idle"
        /\ C!Lifecycle(after, personal, << >>)["BTC"] = "position_open"

\* With a symbol cap above the absolute limit the quantity is of the risk
\* asked for, the percentage it states of the limit.
ASSUME QuantityIsUnclamped ==
    LET d == Decisions("live_personal", 150, {}, <<Setup("BTC", "crypto", 95)>>)[1]
    IN  d.intent.riskPct = 100 /\ d.intent.quantity = 150
-----------------------------------------------------------------------------
(* What the web API tells of the rows.                                     *)

R == INSTANCE SignalRoom

\* A closed trade of one unit of risk, and one that is still open.
ClosedRow(id, strategy, openedAt, closedAt, status, outcome, realized) ==
    [id |-> id, event |-> id, symbol |-> "BTC", side |-> "LONG", status |-> status, outcome |-> outcome,
     openedAt |-> openedAt, closedAt |-> closedAt, realized |-> realized, unrealized |-> 0, risk |-> 100,
     qty |-> 0, notional |-> 0, leverage |-> 3, entry |-> 100, stop |-> 99, tp1 |-> 102,
     tp2 |-> 104, base |-> 1000, riskPct |-> 0, price |-> {100}, strategy |-> strategy]
OpenRow(id, strategy, openedAt) ==
    [ClosedRow(id, strategy, openedAt, R!Never, "open", "open", 0) EXCEPT !.unrealized = 50, !.notional = 300]

Reload == {"expansion_reload_v2_wide"}
Breakout == {"compression_breakout_balanced"}
TradeRows == {ClosedRow("a", Reload, 1, 4, "stop_hit", "loss", -500),
              ClosedRow("b", Breakout, 2, 5, "stop_hit", "partial_win", 100),
              ClosedRow("c", Breakout, 3, 6, "closed", "breakeven", 0), OpenRow("d", Reload, 4)}
Db == [trades |-> TradeRows, ranking |-> [s \in {} |-> "crypto"], decisions |-> {}, persisted |-> {},
       signals |-> {[id |-> t.id, symbol |-> t.symbol, strategy |-> t.strategy, at |-> t.openedAt,
                     dispatch |-> "sent"] : t \in TradeRows}]
RoomConfig == [paperEquity |-> 200000, cryptoEquity |-> 100000, forexEquity |-> 100000, paperLeverage |-> 1,
               maxConcurrent |-> 3, maxOpenRiskPct |-> 5, forexSymbols |-> {"EURUSD"}]
Pages(n) == [trades |-> n, events |-> 2, details |-> 2]

\* The room's account is of the newest trades only: a loss that has left the
\* page is in the worker's equity and no longer in the one shown.
ASSUME OldResultsLeaveTheRoom ==
    LET all == R!CombinedAccount(R!Room(Db, RoomConfig, Pages(20)))
        page == R!CombinedAccount(R!Room(Db, RoomConfig, Pages(2)))
    IN  all.equity = 200000 - 400 + 50 /\ page.equity = 200000 + 100 + 50

\* A trade whose signal has left the page is shown as one of engine1, though
\* the performance table knows better.
ASSUME OldSignalsAreOfTheFirstEngine ==
    LET room == R!Room([Db EXCEPT !.signals = {s \in @ : s.id # "d"}], RoomConfig, Pages(20))
        shown == CHOOSE p \in R!OpenPositions(room) : p.id = "d"
    IN  shown.engine = "engine1" /\ R!EnginePerformance(TradeRows)["engine2"].open = 1

\* A trade stopped out with a profit after its first target is a partial win of
\* the combined account and a loss of its market's.
ASSUME ProtectedStopIsTwoThings ==
    LET summary == R!AccountSummary(R!Room(Db, RoomConfig, Pages(20)))
        combined == CHOOSE c \in summary.combined : TRUE
    IN  /\ combined.outcomes = [wins |-> 0, losses |-> 1, partialWins |-> 1]
        /\ summary.markets["crypto"].outcomes = [wins |-> 0, losses |-> 2, partialWins |-> 0]

\* What a partial close realised is in the result shown with the position and
\* not in the one shown with its row.
ASSUME PartialsAreShownApart ==
    LET t == [OpenRow("d", Reload, 4) EXCEPT !.status = "tp1_hit", !.realized = 40]
        room == R!Room([Db EXCEPT !.trades = {t}], RoomConfig, Pages(20))
    IN  /\ R!withPaperComputedFields(t).rOpen = 50
        /\ {p.effectiveR : p \in R!OpenPositions(room)} = {90}
        /\ {p.status : p \in R!OpenPositions(room)} = {"partially_closed"}

\* Every trade is counted once by the engines; by its outcome as well, unless
\* it won or lost nothing.
ASSUME PerformanceAddsUp ==
    \A some \in SUBSET (TradeRows \cup {ClosedRow("e", R!Missing, 1, 2, "closed", "win", 0)}) :
        LET m == R!Metrics(some)
            Of(e) == R!EnginePerformance(some)[e].total
            named == m.wins + m.losses + m.partialWins + m.breakeven
        IN  /\ R!Sum(Of, {"engine1", "engine2", "engine3", "engine4"}) = m.total
            /\ named >= m.closed
            /\ named > m.closed <=> \E t \in some : t.id = "e"

\* A trade closed in a window is among those opened in it.
ASSUME WindowsCountTheClosed ==
    R!Metrics(R!Window(TradeRows, 5)).total = 2 /\ R!Metrics({t \in TradeRows : t.openedAt >= 5}).total = 0

\* The result in risk units divides what everything made by what the open
\* trades risk, and there is none without an open trade.
ASSUME ResultsOverOpenRisk ==
    /\ R!NetR(R!Room(Db, RoomConfig, Pages(20))) = {-350}
    /\ R!NetR(R!Room([Db EXCEPT !.trades = {t \in @ : t.id # "d"}], RoomConfig, Pages(20))) = R!Missing

\* Once its page is full the engines' table takes no later trade.
ASSUME FullTableKeepsTheOldest ==
    LET table == R!EngineTable(TradeRows, 2)
    IN  table["engine1"].taken = 1 /\ table["engine2"].wins = 0
        /\ R!EngineTable(TradeRows \cup {ClosedRow("e", Reload, 7, 8, "tp2_hit", "win", 300)}, 2) = table

\* Two decisions about a signal: the reason is the first one's, the rest of
\* the truth the last one's.
ASSUME ReasonsOutliveTheirDecision ==
    LET decisions == {[event |-> "d", at |-> k, reason |-> {k}, truth |-> {k}] : k \in 1 .. 3}
        room == R!Room([Db EXCEPT !.decisions = decisions], RoomConfig, Pages(20))
        shown == CHOOSE p \in R!OpenPositions(room) : p.id = "d"
    IN  shown.reason = {2} /\ shown.truth = {3}

Outcome(id, status, finalR) == [id |-> id, at |-> 1, tier |-> "A", status |-> status, finalR |-> finalR,
                                entry |-> 100, stop |-> 90, tp1 |-> 115, tp2 |-> 125]

\* A partial win is neither won nor lost, whatever it made; the integrity check
\* finds an unknown status and nothing else.
ASSUME PartialWinsAreLeftOut ==
    LET won == Outcome("a", "TP2_HIT", R!Missing)
        part == Outcome("b", "PARTIAL_WIN", {150})
        all == R!SignalPerformance({won, part}, 1000).all
    IN  /\ all.winRate = 100 /\ all.resolved = 2 /\ all.expectancy = 250 /\ all.avgR = 200
        /\ ~R!Mismatch({won, part}) /\ R!Mismatch({won, Outcome("c", "VOID", R!Missing)})

\* A worker that resumed is told from one that was reset by the later event, a
\* reset that never was counts for nothing.
ASSUME ResumedSinceTheReset ==
    R!Resumed({5}, {4}) /\ ~R!Resumed({5}, {6}) /\ R!Resumed({5}, R!Missing) /\ ~R!Resumed(R!Missing, {4})

=============================================================================
