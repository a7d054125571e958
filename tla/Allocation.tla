----------------------------- MODULE Allocation -----------------------------
(***************************************************************************)
(* What a cycle of the V1 worker plans for the demo connectors of the      *)
(* personal and the prop mode: the allocator divides the open risk of the  *)
(* mode among the emitted signals, each share becomes an execution intent, *)
(* the intents become orders, and what became of them is recorded: as      *)
(* connector and compliance rows, and in the state the process keeps of    *)
(* every symbol.  The orders are logged; the worker submits none.          *)
(*                                                                         *)
(* Shares of the equity are in hundredths of a percent, qualities and      *)
(* confidences in hundredths, money and prices in a unit fine enough for   *)
(* the quotients taken of them.                                            *)
(***************************************************************************)
EXTENDS Integers, Sequences, FiniteSetsExt

Distance(s)    == IF s.entry < s.stop THEN s.stop - s.entry ELSE s.entry - s.stop
AtMost(m, n)    == IF m < n THEN m ELSE n
AtLeast(m, n) == IF m > n THEN m ELSE n
clamp(value, min, max) == AtLeast(min, AtMost(max, value))

LiveModes == {"live_personal", "live_prop"}

\* executionModeForAllocation
AllocationMode(dataSource, runtimeMode) ==
    IF dataSource = "replay" THEN "signal_only"
    ELSE CASE runtimeMode = "personal" -> "live_personal"
           [] runtimeMode = "prop" -> "live_prop"
           [] OTHER -> "signal_only"

\* LOCKED_MODE_GOVERNANCE_DEFAULTS; no absolute limit is 0.
Governance == [live_personal |-> [hardCap |-> 10, absoluteMax |-> 100, openRiskCap |-> 150,
                                  normal |-> <<3, 5>>, aPlus |-> <<6, 8>>],
               live_prop     |-> [hardCap |-> 4,  absoluteMax |-> 0,   openRiskCap |-> 75,
                                  normal |-> <<1, 2>>, aPlus |-> <<2, 3>>]]

Locks == {"daily_loss_lock", "trailing_drawdown_lock", "max_consecutive_loss_lock"}

\* The locks in force: the global kill switch stands for all of them.
ActiveLocks(killSwitch, set) == IF killSwitch THEN Locks ELSE set

-----------------------------------------------------------------------------
(* The allocator.                                                          *)

gradeWeight(grade) == CASE grade = "A+" -> 100 [] grade = "A" -> 75 [] OTHER -> 50

\* scoreSetup
Quality(s) == 60 * s.score + 25 * s.confidence + 15 * gradeWeight(s.grade)

\* The order of rankCandidates; what is equal in all three stays in the
\* order it was emitted.
Better(s, t) == \/ Quality(s) > Quality(t)
                \/ Quality(s) = Quality(t) /\ s.score > t.score
                \/ Quality(s) = Quality(t) /\ s.score = t.score /\ s.confidence > t.confidence
RankedBefore(signals, i, j) ==
    \/ Better(signals[i], signals[j])
    \/ i < j /\ ~Better(signals[j], signals[i])
Rank(signals, i) == 1 + Cardinality({j \in DOMAIN signals : RankedBefore(signals, j, i)})
Ranked(signals) ==
    [k \in DOMAIN signals |-> signals[CHOOSE i \in DOMAIN signals : Rank(signals, i) = k]]

TotalQuality(signals) ==
    LET sum[k \in 0..Len(signals)] ==
            IF k = 0 THEN 0 ELSE sum[k - 1] + AtLeast(Quality(signals[k]), 0)
    IN  sum[Len(signals)]

\* availablePct * weight * sizingMultiplier, the multiplier in hundredths.
Requested(available, quality, totalQuality, multiplier) ==
    IF totalQuality > 0
    THEN (available * AtLeast(quality, 0) * clamp(multiplier, 0, 200)) \div (totalQuality * 100)
    ELSE 0

AvailableRisk(mode, openRisk) == AtLeast(Governance[mode].openRiskCap - AtLeast(openRisk, 0), 0)

\* What is left of the cap of a symbol.
SymbolRoom(cap, symbolRisk) == AtLeast(cap - AtLeast(symbolRisk, 0), 0)

\* What one ranked signal asks of the budget and gets of it.
Share(requested, room, remaining) ==
    clamp(AtMost(AtMost(requested, room), remaining), 0, remaining)

-----------------------------------------------------------------------------
(* The execution intent.                                                   *)

\* LOCKED_CAPITAL_PROGRESSION_DEFAULTS: the first range that holds the
\* equity, and the last one for an equity none of them holds.
CapitalRange(equity, grade) ==
    IF 1000 <= equity /\ equity <= 5000 THEN IF grade = "A+" THEN <<5, 8>> ELSE <<3, 5>>
    ELSE IF 5000 <= equity /\ equity <= 10000 THEN <<3, 5>>
    ELSE <<1, 3>>

LeverageRange(mode, equity, grade) ==
    IF mode = "live_personal" THEN CapitalRange(equity, grade)
    ELSE IF grade = "A+" THEN Governance[mode].aPlus ELSE Governance[mode].normal

\* Twice the effective leverage: the middle of the range within 1 and the
\* hard cap.
EffectiveLeverage2(mode, equity, grade) ==
    LET range == LeverageRange(mode, equity, grade)
    IN  clamp(range[1] + range[2], 2, 2 * Governance[mode].hardCap)

\* Why an intent is not allowed: the locks are those of the prop mode.
IntentBlocked(mode, openRisk, cap, locks) ==
    IF openRisk >= cap THEN "max_open_risk_exceeded"
    ELSE IF mode # "live_prop" THEN "none"
    ELSE IF "daily_loss_lock" \in locks THEN "daily_loss_lock_active"
    ELSE IF "trailing_drawdown_lock" \in locks THEN "trailing_drawdown_lock_active"
    ELSE IF "max_consecutive_loss_lock" \in locks THEN "max_consecutive_loss_lock_active"
    ELSE "none"

\* buildExecutionIntent: the quantity is of the risk that was asked for, the
\* risk percentage it states is clamped.
Intent(mode, s, equity, openRisk, share, cap, locks) ==
    LET blocked == IntentBlocked(mode, openRisk, cap, locks)
        absolute == Governance[mode].absoluteMax
    IN  [allowed |-> blocked = "none", blockedReason |-> blocked,
         leverage2 |-> EffectiveLeverage2(mode, equity, s.grade),
         riskPct  |-> IF absolute > 0 THEN clamp(share, 0, absolute) ELSE share,
         sized    |-> Distance(s) > 0,
         quantity |-> IF Distance(s) > 0 THEN ((equity * share) \div 10000) \div Distance(s) ELSE 0]

NoIntent == [allowed |-> FALSE, blockedReason |-> "none", leverage2 |-> 0, riskPct |-> 0,
             sized |-> FALSE, quantity |-> 0]

Unallocated(s, reason, intent) ==
    [signal |-> s, share |-> 0, blockedReason |-> reason, intent |-> intent]

\* One ranked signal: the budget that is left decides first, then the intent.
\* p: mode, equity, openRisk, available, cap, symbolRisk, locks
Decide(p, s, requested, remaining) ==
    LET room  == SymbolRoom(p.cap, p.symbolRisk[s.symbol])
        share == Share(requested, room, remaining)
        intent == Intent(p.mode, s, p.equity, AtLeast(p.openRisk, 0) + (p.available - remaining),
                         share, Governance[p.mode].openRiskCap, p.locks)
    IN  IF share <= 0
          THEN Unallocated(s, IF room <= 0 THEN "per_symbol_risk_cap_exceeded"
                              ELSE "portfolio_risk_budget_exhausted", NoIntent)
        ELSE IF ~intent.allowed THEN Unallocated(s, intent.blockedReason, intent)
        ELSE [signal |-> s, share |-> share, blockedReason |-> "none", intent |-> intent]

RemainingAfter(d, remaining) == AtLeast(remaining - d.share, 0)

\* What the k-th ranked signal gets of the budget its predecessors left.
DecideNext(p, ranked, k, soFar) ==
    LET d == Decide(p, ranked[k],
                    Requested(p.available, Quality(ranked[k]), TotalQuality(ranked), p.multiplier),
                    soFar.remaining)
    IN  [decisions |-> Append(soFar.decisions, d),
         remaining |-> RemainingAfter(d, soFar.remaining)]

\* The decisions about the ranked signals, and the budget they leave.
Allocated(p, ranked) ==
    LET done[k \in 0..Len(ranked)] ==
            IF k = 0 THEN [decisions |-> << >>, remaining |-> p.available]
            ELSE DecideNext(p, ranked, k, done[k - 1])
    IN  done[Len(ranked)]

\* allocatePortfolioCapital as the worker calls it: with no risk open, on no
\* symbol, and no market type weighed differently.
Allocation(mode, equity, symbols, cap, locks, signals) ==
    LET ranked == Ranked(signals)
    IN  IF mode = "signal_only"
        THEN [k \in DOMAIN ranked |-> Unallocated(ranked[k], "signal_only_mode", NoIntent)]
        ELSE Allocated([mode |-> mode, equity |-> equity, openRisk |-> 0,
                        available |-> AvailableRisk(mode, 0), cap |-> cap,
                        symbolRisk |-> [sym \in symbols |-> 0], multiplier |-> 100,
                        locks |-> locks], ranked).decisions

-----------------------------------------------------------------------------
(* The orders of the demo connectors.                                      *)

NoOrder(reason) == [ordered |-> FALSE, blockedReason |-> reason, quantity |-> 0, riskPct |-> 0]
Order(d) == [ordered |-> TRUE, blockedReason |-> "none", quantity |-> d.intent.quantity,
             riskPct |-> d.intent.riskPct]

\* buildPersonalDemoOrderIntent: no reason is given for an order it leaves out.
PersonalOrder(d) ==
    IF d.intent.allowed /\ d.signal.marketType = "crypto" /\ d.intent.sized THEN Order(d)
    ELSE NoOrder("none")

\* governanceBlocked
GovernanceBlocked(locks) == IntentBlocked("live_prop", 0, 1, locks)

\* buildPropDemoOrderIntent
PropOrder(d, locks) ==
    IF GovernanceBlocked(locks) # "none" THEN NoOrder(GovernanceBlocked(locks))
    ELSE IF ~d.intent.allowed
      THEN NoOrder(IF d.blockedReason # "none" THEN d.blockedReason ELSE "intent_not_allowed")
    ELSE IF d.signal.marketType # "forex" THEN NoOrder("market_type_not_forex")
    ELSE IF ~d.intent.sized THEN NoOrder("missing_sizing_intent")
    ELSE Order(d)

\* The plans a cycle makes: of live data, by the connector of its mode.
PersonalPlan(dataSource, mode, enabled, decisions) ==
    IF dataSource = "live" /\ mode = "personal" /\ enabled
    THEN [k \in DOMAIN decisions |-> PersonalOrder(decisions[k])] ELSE << >>
PropPlan(dataSource, mode, enabled, decisions, locks) ==
    IF dataSource = "live" /\ mode = "prop" /\ enabled
    THEN [k \in DOMAIN decisions |-> PropOrder(decisions[k], locks)] ELSE << >>

\* The plan is logged and recorded as sent and as a success, whatever it holds.
PlanRecorded(enabled) ==
    IF enabled THEN {"dispatch_attempt", "transport_sent", "dispatch_success"} ELSE {}

-----------------------------------------------------------------------------
(* What the cycle records about the connector and the locks.               *)

\* The status row of the connector of the mode; syncs says whether the
\* reconciliation returned.
ConnectorStatus(enabled, authPresent, syncs) ==
    CASE ~enabled -> "disabled"
      [] enabled /\ ~authPresent -> "missing_auth"
      [] enabled /\ authPresent /\ syncs -> "connected_demo_scaffold"
      [] OTHER -> "sync_error"

\* Every status but the connected one raises a runtime event and an incident.
ConnectorIncident(status) == status # "connected_demo_scaffold"
ConnectorEvents(status) ==
    CASE status = "disabled" -> {"connector_disabled", "connector_error"}
      [] status = "missing_auth" -> {"connector_auth_missing", "connector_error"}
      [] status = "sync_error" -> {"connector_sync_failed", "connector_error"}
      [] OTHER -> {"connector_sync", "account_snapshot_unavailable"}

\* The compliance rows of the prop mode: one of each lock in force, one of
\* each order that was blocked.  Each is a governance event and an incident.
ComplianceRows(plan, locks) ==
    [lockActive |-> locks,
     dispatchBlocked |-> {k \in DOMAIN plan : plan[k].blockedReason # "none"}]

\* The decision a candidate is recorded with: the first of its symbol and
\* market, which may be about another signal; none when it was not emitted.
DecisionsOf(decisions, c) ==
    {k \in DOMAIN decisions : /\ decisions[k].signal.symbol = c.symbol
                              /\ decisions[k].signal.marketType = c.marketType}
DecisionOf(decisions, c) ==
    decisions[CHOOSE k \in DecisionsOf(decisions, c) : \A l \in DecisionsOf(decisions, c) : k <= l]

GovernanceBlock(decisions, c) ==
    DecisionsOf(decisions, c) # {} /\ DecisionOf(decisions, c).blockedReason # "none"

\* recordEvaluation: an intent that is allowed counts as a position.
Stage(decisions, c) ==
    IF DecisionsOf(decisions, c) # {} /\ DecisionOf(decisions, c).intent # NoIntent
    THEN IF DecisionOf(decisions, c).intent.allowed THEN "position_open" ELSE "intent_built"
    ELSE IF c.candidateCount > 0 THEN "candidate_evaluated" ELSE "idle"

\* The lifecycle of every symbol after a cycle: only the symbols that had a
\* candidate are recorded again, the last candidate of each deciding.
Lifecycle(before, decisions, candidates) ==
    [sym \in DOMAIN before |->
        LET its == {k \in DOMAIN candidates : candidates[k].symbol = sym}
        IN  IF its = {} THEN before[sym]
            ELSE Stage(decisions, candidates[CHOOSE k \in its : \A l \in its : l <= k])]

=============================================================================
