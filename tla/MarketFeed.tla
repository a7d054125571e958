----------------------------- MODULE MarketFeed -----------------------------
(***************************************************************************)
(* The market data of a V1 cycle: the socket of the crypto provider, the   *)
(* orchestrator that asks the providers in turn and keeps one status per   *)
(* symbol, the forex session, the adapters' readiness and loading, and the *)
(* scan board's row of a symbol on the way from the feed to the analysis.  *)
(*                                                                         *)
(* The socket and the orchestrator are records, and each of their handlers *)
(* is an operator from one to the next.  Times are in minutes unless said  *)
(* otherwise; a value that may be missing is a set of at most one element. *)
(***************************************************************************)
EXTENDS Integers, Sequences, FiniteSets

Missing == {}
Smaller(m, n) == IF m < n THEN m ELSE n
Larger(m, n)  == IF m > n THEN m ELSE n

Timeframes == {"5m", "15m", "1h", "4h"}
Minutes == [tf \in Timeframes |-> CASE tf = "5m" -> 5 [] tf = "15m" -> 15 [] tf = "1h" -> 60 [] tf = "4h" -> 240]

-----------------------------------------------------------------------------
(* The socket of binance_futures_ws.  The provider refers to one socket,   *)
(* abandoned counts those still open that it refers to no more: their      *)
(* handlers are still its own.                                             *)

FreshSocket == [current |-> "none", abandoned |-> 0, timer |-> FALSE, attempt |-> 0, connected |-> TRUE]

openSocket(s) ==
    [s EXCEPT !.current = "connecting",
              !.abandoned = IF s.current \in {"connecting", "open"} THEN @ + 1 ELSE @]

ensureConnected(s) == IF s.current \in {"open", "connecting"} THEN s ELSE openSocket(s)

scheduleReconnect(s) == IF s.timer THEN s ELSE [s EXCEPT !.timer = TRUE, !.attempt = @ + 1]

\* Milliseconds before a reconnection, the attempt counted from one.
ReconnectDelay(attempt) == Smaller(1000 * 2^(attempt - 1), 30000)

onopen(s)  == [s EXCEPT !.current = "open", !.attempt = 0, !.connected = TRUE]
onclose(s) == scheduleReconnect([s EXCEPT !.current = "closed", !.connected = FALSE])

\* The close of a socket the provider has replaced is taken for its own.
oncloseAbandoned(s) == scheduleReconnect([s EXCEPT !.abandoned = @ - 1, !.connected = FALSE])

onTimer(s) == openSocket([s EXCEPT !.timer = FALSE])
onTimerRefused(s) == scheduleReconnect([s EXCEPT !.timer = FALSE])

\* The function subscribeCandles returns; its close event is still to come.
unsubscribe(s) == [s EXCEPT !.timer = FALSE, !.current = "none",
                            !.abandoned = IF s.current = "open" THEN @ + 1 ELSE @]

\* What may happen to the socket; ensureConnected is called for every candle,
\* price or health asked for.
SocketSteps(s) ==
    {ensureConnected(s)}
      \cup (IF s.current = "connecting" THEN {onopen(s)} ELSE {})
      \cup (IF s.current \in {"connecting", "open"} THEN {onclose(s)} ELSE {})
      \cup (IF s.abandoned > 0 THEN {oncloseAbandoned(s)} ELSE {})
      \cup (IF s.timer THEN {onTimer(s), onTimerRefused(s)} ELSE {})

\* The price asked for, once known, is the last one the socket told: nothing
\* forgets it when the socket is lost.
LatestPrice(cached, fetched) == IF cached # Missing THEN cached ELSE fetched

-----------------------------------------------------------------------------
(* The forex session, in UTC days and hours.                               *)

\* An hour of zero is taken for one that was not given.
ParsedSchedule(given, fallback) ==
    IF given = Missing THEN fallback
    ELSE LET s == CHOOSE s \in given : TRUE
         IN  [day |-> s.day, hour |-> IF s.hour = 0 THEN fallback.hour ELSE s.hour]

SessionConfig(open, close) == [open  |-> ParsedSchedule(open, [day |-> 0, hour |-> 22]),
                               close |-> ParsedSchedule(close, [day |-> 5, hour |-> 22])]

Before(a, b) == a.day < b.day \/ (a.day = b.day /\ a.hour < b.hour)
SessionOpen(config, now) == ~Before(now, config.open) /\ Before(now, config.close)

NextOpen(config, now) ==
    LET delta == (config.open.day - now.day + 7) % 7
    IN  IF delta = 0 /\ now.hour >= config.open.hour THEN 7 ELSE delta

-----------------------------------------------------------------------------
(* The providers.                                                          *)

CryptoProviders == <<"binance_futures_ws", "binance_futures_rest", "binance_spot_rest">>
ForexProviders(apiKey, alphaVantageKey) ==
    (IF apiKey THEN <<"twelvedata_compat">> ELSE << >>)
      \o (IF alphaVantageKey THEN <<"alpha_vantage_compat">> ELSE << >>)
      \o <<"yahoo_forex_public", "stooq_forex_public">>

IsSocket(provider) == provider = "binance_futures_ws"

\* The minutes of the candles that are fetched for a timeframe, which are
\* stamped with the timeframe's own.
FetchedMinutes(provider, tf) ==
    IF tf = "4h" /\ provider \in {"alpha_vantage_compat", "yahoo_forex_public", "stooq_forex_public"}
      THEN 60 ELSE Minutes[tf]

\* The forex providers' latest price: zero, and no error, without a candle.
PriceOf(closes) == IF closes = << >> THEN 0 ELSE closes[Len(closes)]

-----------------------------------------------------------------------------
(* The orchestrator.                                                       *)

FreshHealth(provider) == [failures |-> 0, error |-> Missing, connected |-> IsSocket(provider), reconnects |-> 0]

FreshFeed(marketType, providers) ==
    [marketType |-> marketType, providers |-> providers,
     health |-> [p \in {providers[k] : k \in DOMAIN providers} |-> FreshHealth(p)],
     status |-> [symbol \in {} |-> "none"]]

\* Milliseconds every request waits for, the first one too.
Backoff(failures) == Smaller(250 * 2^Larger(failures - 1, 0), 4000)

Failed(provider, h, error) ==
    [failures |-> h.failures + 1, error |-> {error},
     connected |-> IF IsSocket(provider) THEN FALSE ELSE h.connected,
     reconnects |-> IF IsSocket(provider) THEN h.reconnects + 1 ELSE h.reconnects]

Succeeded(h) == [h EXCEPT !.failures = 0, !.error = Missing]

\* An answer is the age of the newest candle, if there is one, or an error.
Answered(answer) == answer.ok

\* The first provider that answers, or none; answers are of this request, for a
\* symbol every provider supports.
Serving(feed, answers) ==
    {k \in DOMAIN feed.providers : /\ Answered(answers[feed.providers[k]])
                                   /\ \A j \in 1 .. k - 1 : ~Answered(answers[feed.providers[j]])}

\* Those asked before it, all of them if none answers.
AskedInVain(feed, answers) ==
    {feed.providers[j] : j \in {i \in DOMAIN feed.providers : \A k \in Serving(feed, answers) : i < k}}

HealthAfter(feed, answers) ==
    [p \in DOMAIN feed.health |->
        IF p \in AskedInVain(feed, answers) THEN Failed(p, feed.health[p], answers[p].error)
        ELSE IF \E k \in Serving(feed, answers) : p = feed.providers[k] THEN Succeeded(feed.health[p])
        ELSE feed.health[p]]

Stale(age, tf, staleMultiplier) == age > Minutes[tf] * staleMultiplier

\* Why a served symbol is nevertheless blocked.
ServedReason(feed, tf, age, k, staleMultiplier) ==
    CASE age = Missing -> {IF feed.marketType = "forex" THEN "forex_no_recent_candles" ELSE "no_recent_candles"}
      [] \E a \in age : Stale(a, tf, staleMultiplier) ->
           {IF feed.marketType = "forex" THEN "forex_feed_stale" ELSE "feed_stale"}
      [] age # Missing /\ (\A a \in age : ~Stale(a, tf, staleMultiplier)) /\ k > 1 -> {"rest_fallback_active"}
      [] OTHER -> Missing

ServedStatus(feed, tf, answers, k, staleMultiplier) ==
    LET provider == feed.providers[k]
        age == answers[provider].age
    IN  [activeProvider |-> provider, fallback |-> k > 1, failures |-> 0, age |-> age,
         stale |-> \E a \in age : Stale(a, tf, staleMultiplier),
         blockedReason |-> ServedReason(feed, tf, age, k, staleMultiplier), market |-> "open"]

LastError(feed, answers) ==
    IF feed.providers = << >> THEN Missing ELSE {answers[feed.providers[Len(feed.providers)]].error}

UnservedReason(feed, answers) ==
    CASE feed.marketType = "forex" -> "forex_provider_unavailable"
      [] LastError(feed, answers) = {"binance_futures_ws_status"} -> "websocket_disconnected"
      [] OTHER -> "provider_unavailable"

UnservedStatus(feed, answers, maxFailures) ==
    [activeProvider |-> "none", fallback |-> FALSE, failures |-> maxFailures, age |-> Missing, stale |-> FALSE,
     blockedReason |-> {UnservedReason(feed, answers)}, market |-> "open"]

ClosedStatus == [activeProvider |-> "market_closed", fallback |-> FALSE, failures |-> 0, age |-> Missing,
                 stale |-> FALSE, blockedReason |-> {"forex_market_closed"}, market |-> "closed"]

WithStatus(feed, symbol, status) ==
    [feed EXCEPT !.status = [s \in DOMAIN @ \cup {symbol} |-> IF s = symbol THEN status ELSE @[s]]]

\* One request: the feed after it, and the answer or the error.  What is
\* served is returned whatever its status says.
getSnapshot(feed, symbol, tf, answers, open, limits) ==
    LET serving == Serving(feed, answers)
        k == CHOOSE k \in serving : TRUE
        asked == [feed EXCEPT !.health = HealthAfter(feed, answers)]
    IN  IF feed.marketType = "forex" /\ ~open
          THEN [feed |-> WithStatus(feed, symbol, ClosedStatus), ok |-> FALSE, error |-> "forex_market_closed",
                age |-> Missing, fallback |-> FALSE]
        ELSE IF serving = {}
          THEN [feed |-> WithStatus(asked, symbol, UnservedStatus(feed, answers, limits.failures)),
                ok |-> FALSE, error |-> UnservedReason(feed, answers), age |-> Missing, fallback |-> FALSE]
        ELSE [feed |-> WithStatus(asked, symbol, ServedStatus(feed, tf, answers, k, limits.stale)),
              ok |-> TRUE, error |-> "none", age |-> answers[feed.providers[k]].age, fallback |-> k > 1]

-----------------------------------------------------------------------------
(* The adapters.                                                           *)

\* Which symbols answered with a candle; one of them makes the transport.
Readiness(marketType, symbols, withCandles, open) ==
    LET ready == symbols \cap withCandles
    IN  IF marketType = "forex" /\ ~open
          THEN [connected |-> FALSE, reason |-> "forex_market_closed", ready |-> {}]
        ELSE IF symbols = {}
          THEN [connected |-> marketType = "forex", ready |-> {},
                reason |-> IF marketType = "forex" THEN "no_forex_symbols_configured"
                           ELSE "no_crypto_symbols_configured"]
        ELSE [connected |-> ready # {}, ready |-> ready,
              reason |-> CASE marketType = "forex" /\ ready # {} -> "forex_feed_reachable"
                           [] marketType = "forex" /\ ready = {} -> "forex_provider_unavailable"
                           [] marketType # "forex" /\ ready # {} -> "market_data_provider_layer_ready"
                           [] OTHER -> "market_data_provider_layer_unavailable"]

\* The bridge of the other forex adapter is asked once for all symbols.
Mt5Readiness(configured, healthy, symbols) ==
    [connected |-> configured /\ healthy, ready |-> IF configured /\ healthy THEN symbols ELSE {}]

\* Its latest price is of the first of these timeframes that has a bar.
Mt5Latest(bars) ==
    LET order == <<"15m", "5m", "1h", "4h">>
        having == {k \in 1 .. 4 : bars[order[k]] # << >>}
    IN  {PriceOf(bars[order[k]]) : k \in {j \in having : \A i \in having : j <= i}}

\* The requests of a load run together and each writes the symbol's status:
\* the last to end is the one kept.
LoadStatuses(feed, symbol, answersOf, open, limits) ==
    {getSnapshot(feed, symbol, tf, answersOf[tf], open, limits).feed.status[symbol] : tf \in Timeframes}

\* A load succeeds if every one of its requests does.
LoadSucceeds(feed, symbol, answersOf, open, limits) ==
    \A tf \in Timeframes : getSnapshot(feed, symbol, tf, answersOf[tf], open, limits).ok

FirstFewCandles(count, minRequired) ==
    LET order == <<"5m", "15m", "1h", "4h">>
        few == {k \in 1 .. 4 : count[order[k]] = 0 \/ count[order[k]] < minRequired[order[k]]}
    IN  {order[k] : k \in {j \in few : \A i \in few : j <= i}}

\* Every cycle of the worker builds its adapters anew: the feeds of the cycles
\* before are never told to stop.
CycleSockets(sockets) == Append(sockets, ensureConnected(FreshSocket))

-----------------------------------------------------------------------------
(* The preload, and the scan board.                                        *)

ForexErrors == {"forex_market_closed", "forex_provider_not_configured", "forex_feed_stale", "forex_no_recent_candles"}

PreloadError(marketType, error) ==
    IF marketType = "crypto" \/ error \in ForexErrors THEN error ELSE "forex_provider_unavailable"

\* analysis is what computeAnalysisReadiness found in the context.
Preload(marketType, transportReady, loaded, error, analysis) ==
    IF ~transportReady THEN [ready |-> FALSE, reason |-> {"transport_not_ready"}]
    ELSE IF ~loaded THEN [ready |-> FALSE, reason |-> {PreloadError(marketType, error)}]
    ELSE analysis

\* The first reason to reject a symbol is kept.
Kept(reason, later) == IF reason # Missing THEN reason ELSE later

BoardAfterFeed(board, status) ==
    LET blocks == status.blockedReason # Missing /\ board.blockedReason = Missing
    IN  [board EXCEPT !.provider = status.activeProvider, !.healthy = status.failures = 0,
                      !.fallback = status.fallback, !.market = status.market,
                      !.blockedReason = IF blocks THEN status.blockedReason ELSE @,
                      !.rejectedReason = IF blocks THEN Kept(@, status.blockedReason) ELSE @]

\* A symbol that can be analysed is no longer blocked, whatever its feed said.
BoardAfterReadiness(board, readiness) ==
    LET blocked == IF readiness.ready THEN Missing ELSE Kept(readiness.reason, {"analysis_context_not_ready"})
    IN  [board EXCEPT !.blockedReason = blocked, !.rejectedReason = Kept(@, blocked)]

=============================================================================
