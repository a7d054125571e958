----------------------------- MODULE CycleReport -----------------------------
(***************************************************************************)
(* What a cycle of the V1 worker says of itself.  Beside the selection of  *)
(* module Selection it evaluates four strategy engines of its own, counts  *)
(* why candidates were refused, and writes decisions, a ranking and a      *)
(* reconciliation from which the room and the reports are made.  None of   *)
(* it changes what is traded; the question is whether it tells the truth.  *)
(*                                                                         *)
(* cs is the list of candidates of the cycle and a ranking a sequence of   *)
(* its indices, as in Selection; a candidate also has its strategy.        *)
(***************************************************************************)
EXTENDS Selection

-----------------------------------------------------------------------------
(* The family engines.  Scores are in hundredths of a point, the market of *)
(* a symbol is described in thousandths: range over price, drift over      *)
(* range.                                                                  *)

StrategyEngines == {
    [id |-> "crypto_futures_momentum_breakout", place |-> 1, market |-> "crypto", direction |-> "long",
     flag |-> "ENABLE_CRYPTO_BREAKOUT", regimes |-> {"trending", "breakout", "high_volatility"}],
    [id |-> "crypto_trend_pullback", place |-> 2, market |-> "crypto", direction |-> "long",
     flag |-> "ENABLE_CRYPTO_PULLBACK", regimes |-> {"trending", "ranging"}],
    [id |-> "forex_session_breakout", place |-> 1, market |-> "forex", direction |-> "long",
     flag |-> "ENABLE_FOREX_BREAKOUT", regimes |-> {"breakout", "high_volatility"}],
    [id |-> "forex_trend_continuation", place |-> 2, market |-> "forex", direction |-> "short",
     flag |-> "ENABLE_FOREX_CONTINUATION", regimes |-> {"trending", "breakout"}]}

detectRegime(m) ==
    IF m.candles < 10 THEN "ranging"
    ELSE IF m.volatility < 3 THEN "low_volatility"
    ELSE IF m.volatility > 30 THEN "high_volatility"
    ELSE IF m.drift > 650 THEN "trending"
    ELSE IF m.drift > 450 THEN "breakout"
    ELSE IF m.drift < 150 THEN "mean_reverting" ELSE "ranging"

\* The parts of a score are points and its weights percent: twenty of the
\* trend, and so on.  They sum up to a hundred percent of sixteen points or so.
scoreCandidate(breakout, regime) ==
    20 * 16 + 10 * 14 + 20 * 18 + 15 * breakout + 15 * regime + 10 * 12 + 10 * 10

Evaluate(engine, m) ==
    LET regime == detectRegime(m)
    IN  [engine |-> engine,
         score |-> scoreCandidate(IF regime = "breakout" THEN 18 ELSE 11,
                                  IF regime \in engine.regimes THEN 17 ELSE 6),
         rejected |-> regime \notin engine.regimes]

\* A flag the settings do not have is not off.
EnabledEngines(market, off) == {e \in StrategyEngines : e.market = market /\ e.flag \notin off}

\* a stands before b: the better score, then the name, in the alphabet.
Before(a, b) == \/ a.score > b.score
                \/ a.score = b.score /\ a.engine.place < b.engine.place

Suppression(c, desk) ==
    FirstReason(<< <<desk.active >= desk.maxActive, "max_active_signals">>,
                   <<~desk.paper, "paper_mode_disabled">>,
                   <<c.score < 100 * desk.minScore, "score_below_threshold">>,
                   <<c.rejected, "strategy_rejected">> >>)

\* One symbol: every engine's candidate with its rank; only the first may be
\* selected.  What is not selected and has no reason of its own is told its
\* score was too low.
FamilyCandidates(market, m, off, desk) ==
    LET evaluated == {Evaluate(e, m) : e \in EnabledEngines(market, off)}
        rank(c) == 1 + Cardinality({d \in evaluated : Before(d, c)})
        selected(c) == rank(c) = 1 /\ Suppression(c, desk) = "none"
    IN  {[engine |-> c.engine.id, score |-> c.score, rank |-> rank(c), selected |-> selected(c),
          suppression |-> Suppression(c, desk),
          rejection |-> IF selected(c) THEN "none"
                        ELSE IF c.rejected THEN "regime_incompatible" ELSE "score_below_threshold"]
           : c \in evaluated}

-----------------------------------------------------------------------------
(* Why candidates were refused.  With the brain, the gates of Selection    *)
(* count one of these each, and some of them write an event for a symbol.  *)

GateCounter(reason) ==
    CASE reason \in {"active_position_exists", "duplicate_same_direction_active"} -> "active_symbol_gate"
      [] reason \in {"cooldown", "global_cooldown"} -> "cooldown"
      [] reason \in {"invalid_signal_fields", "daily_allowance_reached"} -> "blocked_policy_gate"
      [] OTHER -> reason

GateEvent(reason) ==
    CASE reason \in {"active_position_exists", "duplicate_same_direction_active", "below_min_score"}
           -> "signal_skipped_active_symbol"
      [] reason \in {"cooldown", "global_cooldown"} -> "signal_skipped_symbol_cooldown"
      [] reason = "rr_threshold" -> "signal_skipped_rr_filter"
      [] reason = "entry_stretch" -> "signal_skipped_entry_stretch"
      [] OTHER -> "none"

\* One event for a symbol, however many of its candidates were skipped.
GateEvents(cs, desk) ==
    {<<GateEvent(SkipReason(cs[i], desk)), cs[i].symbol>> :
        i \in {j \in DOMAIN cs : GateEvent(SkipReason(cs[j], desk)) # "none"}}

\* What is counted of candidate i: by the gates, or when the ranking did not
\* lead to its selection, and again when its symbol has no selected one.
Counters(cs, desk, ranking, choice, i) ==
    LET gate == SkipReason(cs[i], desk)
        ranked == \E n \in DOMAIN ranking : ranking[n] = i
    IN  (IF gate # "none" THEN {GateCounter(gate)} ELSE {})
          \cup (IF ranked /\ i \notin choice THEN {"not_selected"} ELSE {})
          \cup (IF \A j \in choice : cs[j].symbol # cs[i].symbol
                THEN {"not_actionable_not_in_final_selected_set"} ELSE {})

-----------------------------------------------------------------------------
(* The ranking that is recorded.                                           *)

Twins(c, d)  == c.symbol = d.symbol /\ c.side = d.side /\ c.score = d.score
SameKey(c, d) == Twins(c, d) /\ c.strategy = d.strategy

\* With the brain: the ranking for selection, where all that is like a
\* selected candidate is marked as one.
BrainAllocation(cs, ranking, choice) ==
    [n \in DOMAIN ranking |->
        LET c == cs[ranking[n]]
            selected == \E i \in choice : Twins(cs[i], c)
        IN  [symbol |-> c.symbol, market |-> c.market, side |-> c.side, rank |-> n, selected |-> selected,
             rejection |-> IF selected THEN "none" ELSE "not_selected"]]

\* Independent engines: every candidate by its score.  A reason is kept under
\* a key that two candidates may share.
IndependentAllocation(cs) ==
    LET taken == IndependentAdmits(cs)
        order(n) == CHOOSE i \in DOMAIN cs : Cardinality({j \in DOMAIN cs : ScoresAbove(cs, j, i)}) = n - 1
        refused(c) == {j \in DOMAIN cs \ taken : SameKey(cs[j], c)}
    IN  [n \in DOMAIN cs |->
            LET c == cs[order(n)]
            IN  [symbol |-> c.symbol, market |-> c.market, side |-> c.side, rank |-> n,
                 selected |-> \E i \in taken : SameKey(cs[i], c),
                 rejection |-> IF refused(c) = {} THEN "none"
                               ELSE NotAdmittedReason(cs, CHOOSE j \in refused(c) : TRUE)]]

-----------------------------------------------------------------------------
(* The reconciliation, written from that ranking after all was done.       *)

DecisionStatus(entry) ==
    IF entry.selected THEN "selected" ELSE IF entry.rejection # "none" THEN "rejected" ELSE "suppressed"

\* One decision for each entry, with its two lifecycle events.
Decisions(allocation) ==
    [n \in DOMAIN allocation |->
        LET entry == allocation[n]
        IN  [id |-> <<entry.market, entry.symbol, entry.side, entry.rank>>,
             status |-> DecisionStatus(entry), events |-> <<"evaluated", DecisionStatus(entry)>>]]

\* The entry under the name of a market and symbol is the last one.
RankingBySymbol(allocation, market, symbol) ==
    LET theirs == {n \in DOMAIN allocation : allocation[n].market = market /\ allocation[n].symbol = symbol}
    IN  IF theirs = {} THEN 0 ELSE CHOOSE n \in theirs : \A m \in theirs : m <= n

\* What was acted on, by the rank of its symbol; the paper trade of each is
\* said to be opened.
ActionableSelected(cs, final, allocation) ==
    {[symbol |-> cs[i].symbol, side |-> cs[i].side, paperTradeStatus |-> "opened",
      rank |-> RankingBySymbol(allocation, cs[i].market, cs[i].symbol)] : i \in final}

RejectedCount(allocation) == Cardinality({n \in DOMAIN allocation : ~allocation[n].selected})

\* The row of the cycle is written before anything is dispatched.
SignalTruthCycle(planned, scanned, candidates, selected) ==
    [selected |-> selected, rejected |-> AtLeast(0, candidates - selected),
     suppressed |-> AtLeast(0, planned - scanned), dispatched |-> 0]

\* Signals that may still go out today, as told, and the hour of the next.
RemainingAllowance(target, sent) == AtLeast(0, target - sent)
NextEligible(lastSent, cooldown, now) ==
    IF lastSent = {} THEN now ELSE cooldown + CHOOSE t \in lastSent : \A u \in lastSent : u <= t

\* How the end of the cycle is explained.
CycleExitPath(scanned, candidates, selected) ==
    FirstReason(<< <<scanned = 0, "no_symbols_reached_engine_phase">>,
                   <<candidates = 0, "no_candidates_generated_after_engine_scan">>,
                   <<selected = 0, "no_candidates_selected_after_filtering">>,
                   <<TRUE, "cycle_completed_with_candidates">> >>)

=============================================================================
