----------------------------- MODULE MCMainLoop -----------------------------
(* A small instance of MainLoop: one position with one target, which the   *)
(* price stops or takes to its target.  The feed the cycle of the loop     *)
(* reads is checked here too.                                              *)
EXTENDS MainLoop, Sequences

MCGains == {-10, 15}
MCStub == [p \in Forex |-> -100]
MCTp == [t \in {"tp1_hit"} |-> 15]
-----------------------------------------------------------------------------
(* The market feed.                                                        *)

F == INSTANCE MarketFeed

\* What may become of a socket in so many steps.
SocketsAfter[n \in 0 .. 7] ==
    IF n = 0 THEN {F!FreshSocket}
    ELSE SocketsAfter[n - 1] \cup UNION {F!SocketSteps(s) : s \in SocketsAfter[n - 1]}

\* A lost socket is always about to be opened again, later and later but
\* within half a minute.
ASSUME LostSocketsReconnect ==
    \A s \in SocketsAfter[7] :
        /\ s.current = "closed" => s.timer
        /\ s.timer /\ s.attempt > 0 => F!ReconnectDelay(s.attempt) \in 1000 .. 30000

\* A request between the loss and the timer opens a second socket; when the
\* first of them closes, the provider is told disconnected while it is not.
ASSUME SocketsAreAbandoned ==
    /\ \E s \in SocketsAfter[7] : s.abandoned >= 1 /\ s.current = "open" /\ s.connected
    /\ \E s \in SocketsAfter[7] : s.current = "open" /\ ~s.connected
    /\ \A s \in SocketsAfter[3] : s.abandoned = 0

\* Every cycle leaves one more socket.
ASSUME SocketsPileUp ==
    LET three == F!CycleSockets(F!CycleSockets(F!CycleSockets(<< >>)))
    IN  Len(three) = 3 /\ \A k \in 1 .. 3 : three[k].current = "connecting"

\* Unsubscribing closes a socket whose close event opens the next.
ASSUME UnsubscribedReconnects ==
    LET open == F!onopen(F!ensureConnected(F!FreshSocket))
    IN  F!oncloseAbandoned(F!unsubscribe(open)).timer

Week == [day : 0 .. 6, hour : 0 .. 23]
DefaultWeek == F!SessionConfig(F!Missing, F!Missing)

\* The default session is five days; when it is closed it is open at the next
\* opening it names.
ASSUME SessionIsFiveDays ==
    /\ Cardinality({now \in Week : F!SessionOpen(DefaultWeek, now)}) = 120
    /\ \A now \in {t \in Week : ~F!SessionOpen(DefaultWeek, t)} :
          F!SessionOpen(DefaultWeek, [day |-> (now.day + F!NextOpen(DefaultWeek, now)) % 7, hour |-> 22])

\* Midnight is not an hour a session can be given, and one that runs over the
\* end of the week is never open.
ASSUME MidnightIsIgnored ==
    /\ F!SessionConfig({[day |-> 1, hour |-> 0]}, F!Missing).open.hour = 22
    /\ \A now \in Week : ~F!SessionOpen(F!SessionConfig({[day |-> 1, hour |-> 1]}, {[day |-> 0, hour |-> 1]}), now)

Good(age) == [ok |-> TRUE, age |-> {age}, error |-> "none"]
Empty == [ok |-> TRUE, age |-> F!Missing, error |-> "none"]
Down(provider) == [ok |-> FALSE, age |-> F!Missing,
                   error |-> IF F!IsSocket(provider) THEN "binance_futures_ws_status" ELSE "rest"]
Limits == [failures |-> 3, stale |-> 3]
Crypto == F!FreshFeed("crypto", F!CryptoProviders)
Named == {F!CryptoProviders[k] : k \in 1 .. 3}
Asked(answers) == F!getSnapshot(Crypto, "BTC", "5m", answers, TRUE, Limits)

\* Whatever the providers answer, the first that does is served and the ones
\* before it have failed once more; the socket is never the reason given.
ASSUME FirstAnswerIsServed ==
    \A good \in SUBSET Named :
        LET got == Asked([p \in Named |-> IF p \in good THEN Good(1) ELSE Down(p)])
            status == got.feed.status["BTC"]
        IN  /\ got.ok <=> good # {}
            /\ got.ok => /\ status.activeProvider \in good
                         /\ got.feed.health[status.activeProvider].failures = 0
                         /\ status.fallback <=> F!CryptoProviders[1] \notin good
            /\ status.blockedReason # {"websocket_disconnected"}
            /\ \A p \in Named : got.feed.health[p].failures > 0 => p \notin good

\* A feed without a recent candle, or without any, is served nevertheless.
ASSUME StaleIsServed ==
    /\ Asked([p \in Named |-> Good(16)]).ok /\ Asked([p \in Named |-> Empty]).ok
    /\ Asked([p \in Named |-> Good(16)]).feed.status["BTC"].blockedReason = {"feed_stale"}

\* Failing ever so often, a provider is still asked first.
ASSUME FailuresChangeNothing ==
    LET answers == [p \in Named |-> IF F!IsSocket(p) THEN Down(p) ELSE Good(1)]
        tired == [Crypto EXCEPT !.health[F!CryptoProviders[1]].failures = 9]
    IN  F!AskedInVain(tired, answers) = {"binance_futures_ws"} /\ F!Backoff(9) = 4000 /\ F!Backoff(0) = 250

\* The timeframe that answers last decides whether a symbol's feed is stale.
ASSUME LastFinisherDecides ==
    LET answersOf == [tf \in F!Timeframes |-> [p \in Named |-> Good(20)]]
    IN  /\ F!LoadSucceeds(Crypto, "BTC", answersOf, TRUE, Limits)
        /\ {s.blockedReason : s \in F!LoadStatuses(Crypto, "BTC", answersOf, TRUE, Limits)}
             = {F!Missing, {"feed_stale"}}

\* Four-hour candles of the public forex providers last an hour.
ASSUME FourHoursAreOne ==
    \A api \in BOOLEAN, alpha \in BOOLEAN :
        LET providers == F!ForexProviders(api, alpha)
        IN  {F!FetchedMinutes(providers[k], "4h") : k \in DOMAIN providers} = {60} \cup (IF api THEN {240} ELSE {})

\* A symbol whose feed is stale is analysed, and told rejected all the same.
ASSUME StaleFeedIsAnalysed ==
    LET row == [provider |-> "none", healthy |-> TRUE, fallback |-> FALSE, market |-> "open",
                blockedReason |-> F!Missing, rejectedReason |-> F!Missing]
        status == Asked([p \in Named |-> Good(16)]).feed.status["BTC"]
        ready == F!Preload("crypto", TRUE, TRUE, "none", [ready |-> TRUE, reason |-> F!Missing])
        shown == F!BoardAfterReadiness(F!BoardAfterFeed(row, status), ready)
    IN  ready.ready /\ shown.blockedReason = F!Missing /\ shown.rejectedReason = {"feed_stale"}

\* Without a forex symbol the forex transport is connected, the crypto one is
\* not; one symbol of several connects it.
ASSUME OneSymbolConnects ==
    /\ F!Readiness("forex", {}, {}, TRUE).connected /\ ~F!Readiness("crypto", {}, {}, TRUE).connected
    /\ F!Readiness("crypto", {"BTC", "ETH"}, {"BTC"}, TRUE).connected
    /\ ~F!Readiness("forex", {"EURUSD"}, {"EURUSD"}, FALSE).connected

=============================================================================
