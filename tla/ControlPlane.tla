---------------------------- MODULE ControlPlane ----------------------------
(***************************************************************************)
(* What tells the V1 worker whether to run, in which mode and on which     *)
(* symbols: the row of the system control, the two files under runtime/    *)
(* that stand beside it, the handlers of the web that write all three, and *)
(* the worker's reading of them at the start of a cycle.  Beside them, the *)
(* readiness the web tells of each mode and the control room's snapshot.   *)
(*                                                                         *)
(* Every handler is an operator from the persisted world to the next one.  *)
(* A value that may be missing, and a file that cannot be read, is a set   *)
(* of at most one element.  Percentages are in hundredths.                 *)
(***************************************************************************)
EXTENDS Integers, FiniteSets

Missing == {}
Or(given, default) == IF given = Missing THEN default ELSE CHOOSE v \in given : TRUE

Modes == {"signal", "personal", "prop"}
Mode(given) == IF given \subseteq {"personal", "prop"} THEN Or(given, "signal") ELSE "signal"
Larger(m, n) == IF m > n THEN m ELSE n
Clamp(v, low, high) == IF v < low THEN low ELSE IF v > high THEN high ELSE v

-----------------------------------------------------------------------------
(* runtime/system-control.json.                                            *)

\* An entry of the list of symbols as it stands in a file or a request: its
\* name is what trimming and upper case make of it, empty when nothing is left.
Entry(n) == [name |-> n, text |-> TRUE]
Names(entries) == {e.name : e \in {x \in entries : x.text}} \ {""}

DefaultControl == [isRunning |-> FALSE, activeMode |-> "signal", killSwitchActive |-> FALSE,
                   allowedSymbols |-> {"ETHUSDT"}]

normalizeSymbols(given) ==
    LET names == Names(Or(given, {}))
    IN  IF names = {} THEN DefaultControl.allowedSymbols ELSE names

normalize(payload) ==
    [isRunning        |-> payload.isRunning = {TRUE},
     activeMode       |-> Mode(payload.activeMode),
     killSwitchActive |-> payload.killSwitchActive = {TRUE},
     allowedSymbols   |-> normalizeSymbols(payload.allowedSymbols)]

\* A control as it stands in the file.
Written(control) ==
    {[isRunning |-> {control.isRunning}, activeMode |-> {control.activeMode},
      killSwitchActive |-> {control.killSwitchActive},
      allowedSymbols |-> {{Entry(n) : n \in control.allowedSymbols}}]}

\* Reading a file that cannot be read writes the default.
readSystemControlFile(file) ==
    IF file = Missing THEN [control |-> DefaultControl, file |-> Written(DefaultControl)]
    ELSE [control |-> normalize(Or(file, 0)), file |-> file]

\* The fields of next over those of current.
Over(next, current) ==
    [f \in DOMAIN next \cup DOMAIN current |-> IF f \in DOMAIN next THEN next[f] ELSE current[f]]

\* The file after a write of the fields of next over what was read.
Merged(current, next) == Written(normalize(Or(Written(Over(next, current)), 0)))

writeSystemControlFile(file, next) == Merged(readSystemControlFile(file).control, next)

-----------------------------------------------------------------------------
(* runtime/control-config.json, and what is written to it.                 *)

DefaultSignalMode == [minimumTier |-> "A", dailySignalTarget |-> 2, symbolCooldownMinutes |-> 90,
                      globalCooldownMinutes |-> 20, relaxationEnabled |-> TRUE]

Majors == {"ETHUSDT", "BTCUSDT", "SOLUSDT"}
DefaultModes ==
    [signal   |-> [symbols |-> Majors \cup {"BNBUSDT"},
                   riskPerTradePct |-> 50, maxOpenRiskPct |-> 150, baseLeverage |-> 5, maxLeverage |-> 8],
     personal |-> [symbols |-> Majors \cup {"BNBUSDT", "LINKUSDT"},
                   riskPerTradePct |-> 50, maxOpenRiskPct |-> 150, baseLeverage |-> 5, maxLeverage |-> 8],
     prop     |-> [symbols |-> Majors,
                   riskPerTradePct |-> 25, maxOpenRiskPct |-> 75, baseLeverage |-> 2, maxLeverage |-> 4]]

DefaultConfig == [mode |-> "signal", dataSource |-> "live", signalMode |-> DefaultSignalMode,
                  modes |-> DefaultModes]

ModeLimits == [riskPerTradePct |-> <<5, 500>>, maxOpenRiskPct |-> <<10, 1000>>,
               baseLeverage |-> <<1, 20>>, maxLeverage |-> <<1, 25>>]
SignalLimits == [dailySignalTarget |-> <<1, 5>>, symbolCooldownMinutes |-> <<15, 240>>,
                 globalCooldownMinutes |-> <<5, 120>>]

Within(limits, v) == Clamp(v, limits[1], limits[2])

\* The fields of a file are those of a configuration, each given or missing.
normalizeModeConfig(payload, fallback) ==
    [f \in DOMAIN fallback |->
        IF f = "symbols"
        THEN LET names == Names(Or(payload.symbols, {})) IN IF names = {} THEN fallback.symbols ELSE names
        ELSE Within(ModeLimits[f], Or(payload[f], fallback[f]))]

normalizeSignalMode(payload) ==
    [f \in DOMAIN DefaultSignalMode |->
        CASE f = "minimumTier" -> IF payload.minimumTier = {"A+"} THEN "A+" ELSE "A"
          [] f = "relaxationEnabled" -> payload.relaxationEnabled # {FALSE}
          [] OTHER -> Within(SignalLimits[f], Or(payload[f], DefaultSignalMode[f]))]

NoFields(config) == [f \in DOMAIN config |-> Missing]

normalizeConfig(payload) ==
    [mode       |-> Mode(payload.mode),
     dataSource |-> IF payload.dataSource = {"replay"} THEN "replay" ELSE "live",
     signalMode |-> normalizeSignalMode(Or(payload.signalMode, NoFields(DefaultSignalMode))),
     modes      |-> LET given == Or(payload.modes, NoFields(DefaultModes))
                    IN  [m \in Modes |-> normalizeModeConfig(Or(given[m], NoFields(DefaultModes[m])),
                                                             DefaultModes[m])]]

\* A configuration as it stands in the file.
WrittenConfig(config) ==
    LET Given(r) == [f \in DOMAIN r |-> {r[f]}]
        GivenMode(r) == [Given(r) EXCEPT !.symbols = {{Entry(n) : n \in r.symbols}}]
    IN  {[mode |-> {config.mode}, dataSource |-> {config.dataSource},
          signalMode |-> {Given(config.signalMode)},
          modes |-> {[m \in Modes |-> {GivenMode(config.modes[m])}]}]}

readConfig(file) ==
    IF file = Missing THEN [config |-> DefaultConfig, file |-> WrittenConfig(DefaultConfig)]
    ELSE [config |-> normalizeConfig(Or(file, 0)), file |-> file]

-----------------------------------------------------------------------------
(* The handlers of the web.  A database that is not there is told apart    *)
(* from one that does not answer: the second fails the request.            *)

Databases == {"none", "up", "down"}
Answer(status, world) == [status |-> status, world |-> world]

\* The row, created when it is missing.
ensureControlRow(world) == Or(world.row, DefaultControl)

\* What the web shows, and what it has written to show it.
Status(world, db) ==
    CASE db = "down" -> Answer(500, world)
      [] db = "up"   -> Answer(200, [world EXCEPT !.row = {ensureControlRow(world)}])
      [] db = "none" -> Answer(200, [world EXCEPT !.file = readSystemControlFile(@).file])

\* The fields of update go to the row and the whole row to the file; without
\* a database they go to the file alone.
Update(world, db, update) ==
    IF db = "up"
    THEN LET row == Over(update, ensureControlRow(world))
         IN  Answer(200, [world EXCEPT !.row = {row}, !.file = writeSystemControlFile(@, row)])
    ELSE Answer(200, [world EXCEPT !.file = writeSystemControlFile(@, update)])

\* start and stop, which refuse what is already so.
SetRunning(world, db, running) ==
    LET seen == Status(world, db)
        already == IF db = "up" THEN ensureControlRow(world).isRunning
                   ELSE readSystemControlFile(world.file).control.isRunning
    IN  IF db = "down" THEN seen
        ELSE IF already = running THEN [seen EXCEPT !.status = 409]
        ELSE Update(seen.world, db, [isRunning |-> running])

PostSystemControl(world, db, update) ==
    IF \/ "activeMode" \in DOMAIN update /\ update.activeMode \notin Modes
       \/ "allowedSymbols" \in DOMAIN update /\ update.allowedSymbols = {}
    THEN Answer(400, world)
    ELSE IF db = "down" THEN Answer(500, world) ELSE Update(world, db, update)

\* The configuration a request asks for; a mode or a source it does not name
\* is the default one, not the current one.
Requested(current, request) ==
    LET mode == Mode(request.mode)
    IN  [current EXCEPT !.mode = mode,
                        !.dataSource = IF request.dataSource = {"replay"} THEN "replay" ELSE "live",
                        !.modes[mode] = [f \in DOMAIN @ |-> IF f = "symbols" /\ request.symbols # Missing
                                                            THEN Names(Or(request.symbols, {}))
                                                            ELSE Or(request[f], @[f])]]

\* Both files are written before the database is asked.
PostConfig(world, db, request) ==
    LET read == readConfig(world.config)
        updated == Requested(read.config, request)
        saved == normalizeConfig(Or(WrittenConfig(updated), 0))
        update == [activeMode |-> saved.mode, allowedSymbols |-> saved.modes[saved.mode].symbols]
        filed == [world EXCEPT !.config = WrittenConfig(saved), !.file = writeSystemControlFile(@, update)]
    IN  IF updated.modes[updated.mode].symbols = {} THEN Answer(400, [world EXCEPT !.config = read.file])
        ELSE IF db = "down" THEN Answer(500, filed)
        ELSE IF db = "none" THEN Answer(200, filed)
        ELSE Answer(200, [filed EXCEPT !.row = {Over(update, ensureControlRow(world))}])

-----------------------------------------------------------------------------
(* The worker's reading.                                                   *)

\* A file without modes or a mode, or one that cannot be read, is no file.
workerConfig(file) ==
    {[mode |-> Or(p.mode, ""),
      dataSource |-> IF p.dataSource = {"replay"} THEN "replay" ELSE "live",
      signalMode |-> [normalizeSignalMode(Or(p.signalMode, NoFields(DefaultSignalMode)))
                        EXCEPT !.minimumTier = "A+"],
      modes |-> Or(p.modes, 0)] : p \in {q \in file : q.mode # Missing /\ q.modes # Missing}}

\* The worker's environment with the configuration laid over it: the numbers
\* of a mode are taken as they stand, with a floor under the two risks; the
\* environment's own risk, a fraction, is taken for a percentage.
applyRuntimeControlConfig(env, file) ==
    LET laid(c) ==
            LET m == IF c.mode \in Modes THEN Or(c.modes[c.mode], NoFields(DefaultModes.signal))
                     ELSE NoFields(DefaultModes.signal)
            IN  [env EXCEPT
                   !.capitalMode = c.mode,
                   !.executionMode = IF c.dataSource = "replay" THEN "signal_only"
                                     ELSE CASE c.mode = "personal" -> "live_personal"
                                            [] c.mode = "prop" -> "live_prop"
                                            [] OTHER -> "signal_only",
                   !.symbols = IF m.symbols = Missing THEN @ ELSE Names(Or(m.symbols, {})),
                   !.riskPct = Larger(Or(m.riskPerTradePct, @ \div 100), 5),
                   !.maxOpenRiskPct = Larger(Or(m.maxOpenRiskPct, @), 10),
                   !.leverage = Or(m.baseLeverage, @),
                   !.cryptoLeverage = Or(m.maxLeverage, @)]
    IN  IF workerConfig(file) = Missing THEN env ELSE laid(Or(workerConfig(file), 0))

toRuntimeMode(env) ==
    IF env.capitalMode \in Modes THEN env.capitalMode
    ELSE CASE env.executionMode = "live_personal" -> "personal"
           [] env.executionMode = "live_prop" -> "prop"
           [] OTHER -> "signal"

DefaultForex == {"EURUSD", "GBPUSD", "USDJPY", "AUDUSD", "NZDUSD", "USDCAD", "USDCHF", "EURJPY", "GBPJPY", "XAUUSD"}
DefaultCrypto(mode) ==
    Majors \cup {"BNBUSDT", "LINKUSDT"}
      \cup (IF mode = "personal" THEN {} ELSE {"XRPUSDT", "ADAUSDT", "DOGEUSDT", "AVAXUSDT", "MATICUSDT"})

\* The symbols of the mode are the last thing asked for.
CryptoUniverse(env, notForex) ==
    IF env.cryptoSymbols # {} THEN env.cryptoSymbols
    ELSE IF env.symbols # {} THEN env.symbols \ notForex
    ELSE DefaultCrypto(toRuntimeMode(env))

\* enableForex is set too when the forex symbols are only to be made ready.
buildRuntimeSymbols(env) ==
    LET forex == IF env.forexSymbols # {} THEN env.forexSymbols ELSE DefaultForex
        signal == toRuntimeMode(env) = "signal"
        Of(market, names) == {[symbol |-> n, market |-> market] : n \in names}
    IN  (IF (signal /\ env.enableCrypto) \/ (~signal /\ env.marketType # "forex")
         THEN Of("crypto", CryptoUniverse(env, IF signal THEN forex ELSE DefaultForex)) ELSE {})
        \cup (IF (signal /\ env.enableForex) \/ (~signal /\ env.marketType = "forex")
              THEN Of("forex", forex) ELSE {})

\* A file whose list of symbols is not one of texts is no file.
workerFile(file) ==
    {[isRunning |-> p.isRunning = {TRUE}, activeMode |-> Mode(p.activeMode),
      killSwitchActive |-> p.killSwitchActive = {TRUE}, allowedSymbols |-> Names(Or(p.allowedSymbols, {}))] :
        p \in {q \in file : q.allowedSymbols # Missing /\ \A e \in Or(q.allowedSymbols, {}) : e.text}}

\* The file under the worker's own runtime/: the web's where the two run from
\* one directory; in a container of its own, where nothing writes it, none.
OwnFile(world, oneHost) == IF oneHost THEN world.file ELSE Missing

\* Without a file the worker runs.
FileOrDefault(file, env) ==
    Or(workerFile(file),
       [isRunning |-> TRUE, activeMode |-> toRuntimeMode(env), killSwitchActive |-> FALSE,
        allowedSymbols |-> {s.symbol : s \in buildRuntimeSymbols(env)}])

\* The row decides when the database and the queue's store both answer, and
\* the file when one of them does not.
Infrastructure == {"up", "database down", "redis down", "not asked"}

workerControl(world, env, infra, oneHost) ==
    IF infra # "up" THEN FileOrDefault(OwnFile(world, oneHost), env)
    ELSE Or(world.row, [DefaultControl EXCEPT !.allowedSymbols = {s.symbol : s \in buildRuntimeSymbols(env)}])

RuntimeSymbols(control, env) ==
    {s \in buildRuntimeSymbols(env) : control.allowedSymbols = {} \/ s.symbol \in control.allowedSymbols}

NothingAllowed(control, env) == RuntimeSymbols(control, env) = {}

\* Why a cycle is skipped.
skipReason(control, env) ==
    IF ~control.isRunning THEN "system_stopped"
    ELSE IF control.killSwitchActive THEN "kill_switch_active"
    ELSE IF NothingAllowed(control, env) THEN "no_allowed_symbols"
    ELSE "none"

SkipRows(reason) ==
    (IF reason # "none" THEN {"cycle_skipped"} ELSE {})
      \cup (IF reason = "kill_switch_active" THEN {"incident"} ELSE {})

\* The rows a cycle writes before it scans anything; the counters of the
\* health row are raised by what the cycle has counted so far, nothing.
StartRows(reason, persisted) ==
    IF persisted THEN {"cycle_started", "health"} \cup SkipRows(reason) ELSE {}

\* The row of a configured symbol on the scan board when the scan begins.
FirstBoard(control, env) ==
    [s \in buildRuntimeSymbols(env) |->
        IF s \in RuntimeSymbols(control, env)
        THEN [scanned |-> TRUE, blockedReason |-> "awaiting_preload", rejectedReason |-> Missing]
        ELSE [scanned |-> FALSE, blockedReason |-> "not_allowed_by_system_control",
              rejectedReason |-> {"not_allowed_by_system_control"}]]

-----------------------------------------------------------------------------
(* What the web tells of the modes.                                        *)

Registry ==
    [signal_crypto_futures   |-> [market |-> "crypto", execution |-> "signal",   default |-> "TESTING_ONLY"],
     signal_crypto_spot      |-> [market |-> "crypto", execution |-> "signal",   default |-> "TESTING_ONLY"],
     signal_forex            |-> [market |-> "forex",  execution |-> "signal",   default |-> "TESTING_ONLY"],
     personal_crypto_futures |-> [market |-> "crypto", execution |-> "personal", default |-> "TESTING_ONLY"],
     personal_crypto_spot    |-> [market |-> "crypto", execution |-> "personal", default |-> "TESTING_ONLY"],
     personal_forex          |-> [market |-> "forex",  execution |-> "personal", default |-> "DISABLED"],
     prop_forex              |-> [market |-> "forex",  execution |-> "prop",     default |-> "TESTING_ONLY"]]

Evidence == {"scanner", "tracker", "candidates", "lifecycle", "dispatch", "feed_configured"}

\* seen is the evidence in the database, of whatever mode; enabled are the
\* markets no row of the runtime control disables.
Blockers(id, seen, enabled) ==
    LET m == Registry[id]
    IN  CASE m.execution = "signal" -> (Evidence \ seen)
                                         \cup (IF m.market \notin enabled THEN {"disabled_by_control"} ELSE {})
          [] m.execution = "personal" -> {"personal_execution_not_e2e_proven"}
          [] m.execution = "prop" -> {"prop_execution_not_e2e_proven"}

Readiness(id, seen, enabled) ==
    IF Registry[id].execution = "signal" /\ Blockers(id, seen, enabled) = {} THEN "PAPER_READY"
    ELSE Registry[id].default

\* Critical incidents block a mode that is ready for live trading.
ReadinessBlockers(id, seen, enabled, incidents) ==
    Blockers(id, seen, enabled)
      \cup (IF incidents > 0 /\ Readiness(id, seen, enabled) = "LIVE_READY"
            THEN {"critical_incidents_present"} ELSE {})

AllowedActions(status) ==
    CASE status = "PAPER_READY" -> {"host_signal_mode", "paper_test"}
      [] status = "TESTING_ONLY" -> {"testing_only"}
      [] OTHER -> {"blocked"}

-----------------------------------------------------------------------------
(* The control room: the configuration of the web's own environment.  When *)
(* one value of it is invalid, every value is taken as it stands, or by    *)
(* default.                                                                *)

Switches == {"ENABLE_SIGNAL_MODE_OUTPUT", "ENABLE_PERSONAL_DEMO_CONNECTOR", "ENABLE_PROP_DEMO_CONNECTOR",
             "ENABLE_SWING_RESEARCH_MODE", "GLOBAL_KILL_SWITCH_ENABLED"}
toBoolean(text) == text \in {"1", "true"}
SwitchDefault(k) == k \notin {"ENABLE_SWING_RESEARCH_MODE", "GLOBAL_KILL_SWITCH_ENABLED"}

FallbackConfig(env) ==
    [k \in DOMAIN env |->
        IF k \in Switches THEN (IF env[k] = Missing THEN SwitchDefault(k) ELSE toBoolean(Or(env[k], "")))
        ELSE IF k = "EXECUTION_MODE" THEN Or(env[k], "signal_only")
        ELSE Or(env[k], "")]

\* The caps on the risk of a symbol are the default ones.
buildControlRoomState(config, report) ==
    [executionMode |-> config.EXECUTION_MODE,
     strategies |-> {"compression_breakout_balanced", "compression_breakout_strict"}
                      \cup (IF config.ENABLE_SWING_RESEARCH_MODE THEN {"combined_breakout_swing_arbitrated"} ELSE {}),
     signalMode |-> config.EXECUTION_MODE = "signal_only" /\ config.ENABLE_SIGNAL_MODE_OUTPUT,
     personalMissing |-> {k \in {"BINANCE_DEMO_API_KEY", "BINANCE_DEMO_API_SECRET"} : config[k] = ""},
     propMissing |-> {k \in {"MT5_DEMO_LOGIN", "MT5_DEMO_PASSWORD"} : config[k] = ""},
     perSymbolRiskCapPct |-> IF config.EXECUTION_MODE = "live_prop" THEN 40 ELSE 75,
     globalKillSwitchEnabled |-> config.GLOBAL_KILL_SWITCH_ENABLED,
     backtest |-> report]

=============================================================================
