---------------------------- MODULE MCSignalDesk ----------------------------
(***************************************************************************)
(* A small instance of SignalDesk: two signals, on one symbol or on two.   *)
(*                                                                         *)
(* Before a run begins, TLC evaluates what the desk's choice of candidates *)
(* abstracts, Selection and StrategyBrain, over small inputs: that what    *)
(* the theorems of SelectionProofs assume really occurs, and the facts     *)
(* about sorted lists that are not proved.  What tells the worker to run,  *)
(* ControlPlane, is evaluated over small worlds.                           *)
(***************************************************************************)
EXTENDS SignalDesk

L == INSTANCE Selection
B == INSTANCE StrategyBrain

MCGains == {-10, 2, 5, 15, 24}
MCStopOrTarget == {-10, 15}

-----------------------------------------------------------------------------
(* Selection.                                                              *)

Contexts == [transport : BOOLEAN, failed : {FALSE}, count : [L!Timeframes -> {0, 20, 50, 360}],
             exec : {"15m"}, age : {10, 200}]
Setups == [score : {0, 40, 80, 100}, grade : {"A+", "A", "B"}, rr : {1000, 1250, 1800},
           stretch : {0, 50, 100}, regime : {"COMPRESSION_READY", "TREND_ORDERLY", "SHOCK_UNSTABLE"}]

\* Every reason against a context occurs, and a context without one is ready.
ASSUME ReadinessExplained ==
    /\ {L!blockedReason(ctx, min) : ctx \in Contexts, min \in {0, 60}} =
         {"none", "transport_not_ready", "missing_candles", "insufficient_candles",
          "feed_stale", "insufficient_indicator_context"}
    /\ \A ctx \in Contexts, min \in {0, 60} :
         L!analysisReady(ctx, min) <=> L!blockedReason(ctx, min) = "none"

\* The live strategy reaches A, other regimes A+.
ASSUME TiersReached ==
    /\ {L!SignalTier(s) : s \in {t \in Setups : L!FromLiveStrategy(t)}} = {"A", "none"}
    /\ "A+" \in {L!SignalTier(s) : s \in Setups}

\* A scan that ends in an error may have signals that go on, while its trace
\* counts none.
ASSUME ErrorsKeepSignals ==
    \E fates \in [1..2 -> L!Fates] :
        LET scan == [market |-> "crypto", engine |-> "engine1", candles |-> TRUE,
                     registered |-> TRUE, generates |-> TRUE, fates |-> fates]
        IN  /\ L!ScanResult(scan) = "engine_error"
            /\ L!Counted(scan) = 0 /\ L!Signalled(scan) # {}

Candidate(y, score) == [symbol |-> y, side |-> "LONG", market |-> "crypto", score |-> score, tier |-> "A+",
                        rr |-> 1800, room |-> 1, regime |-> "CHOP", confidence |-> 1]
Rankings == [1..3 -> {Candidate(y, s) : y \in {"BTCUSDT", "SOLUSDT"}, s \in {86, 87, 88, 90}}]

\* Diversification permutes a ranking, lets nobody pass one more than two
\* points better, and does change some ranking.
ASSUME DiversificationIsFair ==
    LET moves(cs) == <<L!Ranked(cs, DOMAIN cs), L!Diversification(cs, L!Ranked(cs, DOMAIN cs))>>
    IN  /\ \A cs \in Rankings :
              LET d == moves(cs)[2]
              IN  /\ {d[n] : n \in 1..3} = 1..3
                  /\ \A m, n \in 1..3 : m < n => cs[d[n]].score - cs[d[m]].score <= 2
        /\ \E cs \in Rankings : moves(cs)[1] # moves(cs)[2]

-----------------------------------------------------------------------------
(* The brain.                                                              *)

Scalp == [engine |-> "engine4", rr |-> 1100, structure |-> 700, cleanliness |-> 780,
          regime |-> "expansion", stop |-> 60, profile |-> "none"]
Rival(engine, structure, cleanliness, stop) ==
    [engine |-> engine, rr |-> 1600, structure |-> structure, cleanliness |-> cleanliness,
     regime |-> "normal", stop |-> stop, profile |-> "none"]
Duels == {<<Scalp, Rival(e, s, c, stop)>> :
            e \in {"engine1", "engine3"}, s \in {640, 760}, c \in {100, 500, 780}, stop \in {60, 200}}

\* A better scored scalp is overridden by some rival; some override is a
\* trade, and some ends without any although the scalp was one.
ASSUME OverridesHappen ==
    LET overridden == {cs \in Duels : 1 \in B!Best(cs, <<>>, B!Qualified(cs)) /\ B!Preferred(cs, <<>>) = {2}}
    IN  /\ \E cs \in overridden : B!runStrategyBrain(cs, <<>>, 58000) = {2}
        /\ \E cs \in overridden : /\ B!runStrategyBrain(cs, <<>>, 58000) = {}
                                  /\ ~B!TooLow(Scalp, <<>>, 58000)

\* What an engine pays for its latest selections changes the choice.
ASSUME FatigueCounts ==
    \E cs \in Duels : B!runStrategyBrain(cs, <<>>, 58000)
                        # B!runStrategyBrain(cs, <<"engine4", "engine4", "engine4">>, 58000)

-----------------------------------------------------------------------------
(* The control plane.                                                      *)

C == INSTANCE ControlPlane

MCControls == [isRunning : BOOLEAN, activeMode : {"signal", "prop"}, killSwitchActive : BOOLEAN,
               allowedSymbols : {{"ETHUSDT"}, {"BTCUSDT", "XAUUSD"}}]
MCWorlds == [row : {{c} : c \in MCControls} \cup {C!Missing},
             file : {C!Written(c) : c \in MCControls} \cup {C!Missing}, config : {C!Missing}]
MCEnv == [capitalMode |-> "signal", executionMode |-> "signal_only", symbols |-> {}, cryptoSymbols |-> {},
          forexSymbols |-> {}, enableCrypto |-> TRUE, enableForex |-> FALSE, marketType |-> "crypto",
          riskPct |-> 100, maxOpenRiskPct |-> 500, leverage |-> 1, cryptoLeverage |-> 3]
SkipsFrom(world, infra, oneHost) ==
    C!skipReason(C!workerControl(world, MCEnv, infra, oneHost), MCEnv)
Skips(world, infra) == SkipsFrom(world, infra, TRUE)

\* A stop the web has granted stops the worker beside it, whether or not that
\* reaches the database; a stop refused as done may leave the file running.
\* A worker in a container of its own is stopped while it reaches the database
\* and the queue's store, and runs as soon as it does not.
ASSUME GrantedStopsHold ==
    /\ \A w \in MCWorlds :
          LET stopped == C!SetRunning(w, "up", FALSE)
          IN  stopped.status = 200 =>
                \A infra \in C!Infrastructure :
                    /\ Skips(stopped.world, infra) = "system_stopped"
                    /\ SkipsFrom(stopped.world, infra, FALSE)
                         = IF infra = "up" THEN "system_stopped" ELSE "none"
    /\ \E w \in MCWorlds :
          LET refused == C!SetRunning(w, "up", FALSE)
          IN  refused.status = 409 /\ Skips(refused.world, "redis down") = "none"

\* While the database does not answer, nobody can stop a worker that its file
\* lets run; nor does a stop whose second write is lost.
ASSUME StopNeedsTheDatabase ==
    \E w \in MCWorlds :
        /\ Skips(C!SetRunning(w, "down", FALSE).world, "database down") = "none"
        /\ LET stopped == C!SetRunning(w, "up", FALSE)
           IN  stopped.status = 200 /\ Skips([stopped.world EXCEPT !.file = w.file], "redis down") = "none"

\* A file that cannot be read lets the worker run, until the web reads it.
ASSUME UnreadableRunsUntilRead ==
    LET w == [row |-> C!Missing, file |-> C!Missing, config |-> C!Missing]
    IN  /\ Skips(w, "not asked") = "none"
        /\ Skips(C!Status(w, "none").world, "not asked") = "system_stopped"
        /\ Skips(w, "up") = "system_stopped"

\* Two requests that read the file before either writes it: the stop is lost.
ASSUME StopIsOverwritten ==
    \E c \in MCControls :
        LET read == C!readSystemControlFile(C!Written(c)).control
            stopped == C!Merged(read, [isRunning |-> FALSE])
            moved == C!Merged(read, [activeMode |-> "signal"])
        IN  C!normalize(C!Or(stopped, 0)).isRunning # C!normalize(C!Or(moved, 0)).isRunning

NoRequest == [mode |-> C!Missing, dataSource |-> C!Missing, symbols |-> C!Missing, riskPerTradePct |-> C!Missing,
              maxOpenRiskPct |-> C!Missing, baseLeverage |-> C!Missing, maxLeverage |-> C!Missing]
MCRequests == [NoRequest EXCEPT !.riskPerTradePct = {0}, !.baseLeverage = {90}]
Configured(request, w) == C!PostConfig(w, "up", request)

\* What is saved is within its limits, though the parts may contradict each
\* other; the worker's tier is not the one that was saved.
ASSUME SavedWithinLimits ==
    \A w \in {x \in MCWorlds : x.row = C!Missing} :
        LET saved == C!readConfig(Configured(MCRequests, w).world.config).config
        IN  /\ \A m \in C!Modes, f \in DOMAIN C!ModeLimits :
                 saved.modes[m][f] \in C!ModeLimits[f][1] .. C!ModeLimits[f][2]
            /\ saved.modes["signal"].baseLeverage > saved.modes["signal"].maxLeverage
            /\ saved.signalMode.minimumTier = "A"
            /\ C!Or(C!workerConfig(Configured(MCRequests, w).world.config), 0).signalMode.minimumTier = "A+"

\* A request that names no mode puts the system in signal mode, and one that
\* the database refuses has changed both files.
ASSUME OmittedModeIsSignal ==
    \A w \in MCWorlds :
        /\ C!ensureControlRow(Configured(NoRequest, w).world).activeMode = "signal"
        /\ LET failed == C!PostConfig(w, "down", NoRequest)
           IN  failed.status = 500 /\ C!readSystemControlFile(failed.world.file).control.activeMode = "signal"

\* The symbols of the file are not asked when the environment names its own;
\* a mode the file gives no risk trades with the smallest there is.
ASSUME EnvironmentNamesTheSymbols ==
    LET asSaved == C!Or(C!WrittenConfig(C!DefaultConfig), 0)
        file(risk) == {[asSaved EXCEPT !.modes = {[C!Or(@, 0) EXCEPT !.signal =
                                                      {[C!Or(@, 0) EXCEPT !.riskPerTradePct = risk]}]}]}
        named == [MCEnv EXCEPT !.cryptoSymbols = {"XRPUSDT"}]
    IN  /\ C!buildRuntimeSymbols(C!applyRuntimeControlConfig(named, file({50}))) = C!buildRuntimeSymbols(named)
        /\ C!buildRuntimeSymbols(C!applyRuntimeControlConfig(MCEnv, file({50}))) # C!buildRuntimeSymbols(MCEnv)
        /\ C!applyRuntimeControlConfig(MCEnv, file({50})).riskPct = 50
        /\ C!applyRuntimeControlConfig(MCEnv, file(C!Missing)).riskPct = 5
        /\ C!applyRuntimeControlConfig(MCEnv, file({900})).riskPct = 900
        /\ C!readConfig(file({900})).config.modes["signal"].riskPerTradePct = 500

\* Every cycle of a killed system is an incident more; a symbol that is not
\* allowed is told so before the scan.
ASSUME SkipsAreTold ==
    /\ {C!StartRows(Skips(w, "up"), TRUE) : w \in MCWorlds}
         = {{"cycle_started", "health"}, {"cycle_started", "health", "cycle_skipped"},
            {"cycle_started", "health", "cycle_skipped", "incident"}}
    /\ \A c \in MCControls : \A s \in C!buildRuntimeSymbols(MCEnv) :
          C!FirstBoard(c, MCEnv)[s].scanned <=> s.symbol \in c.allowedSymbols

\* The evidence for a mode is that of all of them; a critical incident blocks
\* none, since none is ever ready for live trading.
ASSUME IncidentsBlockNothing ==
    \A seen \in SUBSET C!Evidence, id \in DOMAIN C!Registry :
        LET status == C!Readiness(id, seen, {"crypto"})
        IN  /\ C!ReadinessBlockers(id, seen, {"crypto"}, 1) = C!Blockers(id, seen, {"crypto"})
            /\ status = "PAPER_READY" => id \in {"signal_crypto_futures", "signal_crypto_spot"}
            /\ seen = C!Evidence /\ id \in {"signal_crypto_futures", "signal_crypto_spot"} => status = "PAPER_READY"
            /\ C!AllowedActions(status) # {"blocked"} \/ id = "personal_forex"

\* In the room's fallback a kill switch written in capitals is off.
ASSUME CapitalsAreOff ==
    LET keys == C!Switches \cup {"EXECUTION_MODE", "BINANCE_DEMO_API_KEY", "BINANCE_DEMO_API_SECRET",
                                 "MT5_DEMO_LOGIN", "MT5_DEMO_PASSWORD"}
        env == [k \in keys |-> IF k = "GLOBAL_KILL_SWITCH_ENABLED" THEN {"TRUE"} ELSE C!Missing]
        room == C!buildControlRoomState(C!FallbackConfig(env), C!Missing)
    IN  /\ ~room.globalKillSwitchEnabled /\ room.signalMode
        /\ Cardinality(room.personalMissing) = 2 /\ Cardinality(room.propMissing) = 2

-----------------------------------------------------------------------------
(* Telegram.                                                               *)

G == INSTANCE Telegram

AnswerLists(retries) == [1..(retries + 2) -> G!Answers]

\* A message that is told sent has been shown, perhaps more than once; one
\* that is told failed may have been shown as well.
ASSUME LostAnswersRepeat ==
    \A retries \in 0..2 :
        LET copies(status) == {G!Copies(a, retries) : a \in {b \in AnswerLists(retries) :
                                                               G!SendMessage(b, retries).status = status}}
        IN  copies("sent") = 1..(retries + 1) /\ copies("failed") = 0..(retries + 1)

MCEntries == [event : {1, 2}, message : BOOLEAN, tier : {"A+", "A"}]
MCPlans == {<<a, b>> : a \in {e \in MCEntries : e.event = 1}, b \in {e \in MCEntries : e.event = 2}}
MCEvents == [id \in 1..3 |-> [status |-> "not_dispatched", reason |-> "none", traded |-> id # 3]]
Paused == G!DispatchResults(<<[event |-> 1, message |-> TRUE, tier |-> "A+"]>>, TRUE, <<>>)
Refused == G!sendSignalModeTelegramMessages(<< <<"refused", "refused">> >>, TRUE, 0)

\* A pause is told like an outage, with an incident for each message.
ASSUME PauseLooksLikeAnOutage ==
    /\ G!TelegramStatus(Paused) = "failing" /\ G!TelegramStatus(Refused) = "failing"
    /\ G!Incidents(Paused) = 1 /\ G!ConsecutiveFailures(2, Paused) = G!ConsecutiveFailures(2, Refused)
    /\ G!TelegramDispatchTruth(Paused[1]) = G!TelegramDispatchTruth(Refused[1])

\* Of the rows with a trade, the one whose message is missing is told nothing
\* when another is sent, and the one that is not A+ neither; a row without a
\* trade always has a reason.
ASSUME SomeAreToldNothing ==
    LET after(plan) == G!EventsAfter(MCEvents, plan, [k \in DOMAIN G!Guarded(plan) |->
                                                        G!Result("sent", "none", "formatted")])
        untold(plan, id) == after(plan)[id].status = "not_dispatched" /\ after(plan)[id].reason = "none"
    IN  \A plan \in MCPlans :
            /\ ~untold(plan, 3)
            /\ untold(plan, 1) <=> /\ ~plan[1].message \/ plan[1].tier # "A+"
                                   /\ plan[1].message \/ plan[2].message

\* A result is sent although the entry of its own signal failed, if an older
\* one of the symbol was sent.
ASSUME ResultsAskForTheSymbol ==
    LET resolved == <<[symbol |-> "x", tier |-> "A+"], [symbol |-> "y", tier |-> "A+"]>>
        history == <<[symbol |-> "x", status |-> "failed"], [symbol |-> "y", status |-> "failed"],
                     [symbol |-> "x", status |-> "sent"]>>
    IN  /\ G!AllowedResults(resolved, history) = <<resolved[1]>>
        /\ G!BlockedResults(resolved, history) = <<resolved[2]>>
        /\ G!ResultDispatches(resolved, history, TRUE, << <<"lost", "ok">> >>)[1].status = "failed"

-----------------------------------------------------------------------------
(* The report of the cycle.                                                *)

P == INSTANCE CycleReport

MCMarkets == [candles : {9, 120}, volatility : {2, 10, 31}, drift : {100, 300, 500, 700}]
FamilyDesk(minScore, active) == [active |-> active, maxActive |-> 10, paper |-> TRUE, minScore |-> minScore]
Families(minScore, active) ==
    UNION {P!FamilyCandidates(market, m, {}, FamilyDesk(minScore, active)) :
             market \in {"crypto", "forex"}, m \in MCMarkets}

\* The engines' best score is below sixteen of a hundred: with the default of
\* fifty-five none of their candidates is ever selected.
ASSUME FamiliesAreNeverSelected ==
    /\ \A c \in Families(55, 0) : ~c.selected /\ c.suppression = "score_below_threshold"
    /\ \E c \in Families(15, 0) : c.selected
    /\ \A c \in Families(16, 0) : ~c.selected

\* A candidate held back for another reason is told its score was too low.
ASSUME SuppressionIsToldAsScore ==
    \E c \in Families(0, 10) : c.suppression = "max_active_signals" /\ c.rejection = "score_below_threshold"

Entrant(y, side, strategy, score) ==
    [symbol |-> y, side |-> side, strategy |-> strategy, score |-> score, market |-> "crypto", tier |-> "A+",
     rr |-> 1800, room |-> 1, regime |-> "CHOP", confidence |-> 1, atr |-> 10, gap |-> 0]
Entrants == {Entrant(y, side, strategy, score) :
               y \in {"BTCUSDT", "SOLUSDT"}, side \in {"LONG", "SHORT"}, strategy \in {"p", "q"}, score \in {80, 90}}
Lists == [1..2 -> Entrants]
MCDesk == [active |-> {}, recent |-> {}, facing |-> {}, stopped |-> {}, cooling |-> FALSE, requireAPlus |-> TRUE,
           minTier |-> "A+", minScore |-> 60, relaxes |-> TRUE, afternoon |-> TRUE, sent |-> 2, target |-> 2,
           forexReadinessOnly |-> FALSE, minRR |-> 1000, maxStretch |-> 1000, diversifies |-> FALSE,
           cap |-> 5, open |-> 0]

\* The counters do not sum up to the candidates that were not taken: one that
\* was refused counts twice, one that lost against its like not at all.
ASSUME CountersDoNotAddUp ==
    LET ranking(cs) == P!RankedForSelection(cs, MCDesk)
        counts(cs, choice) == {Cardinality(P!Counters(cs, MCDesk, ranking(cs), choice, i)) : i \in 1..2 \ choice}
        counted == UNION {counts(cs, {}) \cup counts(cs, {ranking(cs)[1]}) :
                            cs \in {ds \in Lists : ds[1].score = 90}}
    IN  counted = {0, 1, 2}

\* Two candidates with the same symbol, side, strategy and score are both
\* told selected where one was; nothing is ever told suppressed.
ASSUME TwinsAreBothSelected ==
    /\ \E cs \in Lists : /\ Cardinality(P!IndependentAdmits(cs)) = 1
                         /\ \A n \in 1..2 : /\ P!IndependentAllocation(cs)[n].selected
                                            /\ P!IndependentAllocation(cs)[n].rejection # "none"
    /\ \A cs \in Lists : \A n \in 1..2 : P!Decisions(P!IndependentAllocation(cs))[n].status # "suppressed"

\* What is acted on is told with the rank of the last of its symbol, and a
\* decision stays selected when the symbol turns out to be taken.
ASSUME RanksAreBorrowed ==
    \E cs \in Lists :
        LET allocation == P!IndependentAllocation(cs)
            final(locked) == P!Persisted(cs, P!IndependentAdmits(cs), locked)
            told == P!ActionableSelected(cs, final({}), allocation)
        IN  /\ \E a \in told : allocation[a.rank].side # a.side
            /\ final({cs[1].symbol}) = {} /\ P!DecisionStatus(allocation[1]) = "selected"

\* Told that no signal is left for today, the desk lets one more through.
ASSUME OneMoreThanTold ==
    \E cs \in Lists : /\ P!RemainingAllowance(MCDesk.target, MCDesk.sent) = 0
                      /\ P!Eligible([cs[1] EXCEPT !.tier = "A"], [MCDesk EXCEPT !.requireAPlus = FALSE, !.minTier = "A"])

=============================================================================
