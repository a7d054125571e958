--------------------------- MODULE MCCommandQueue ---------------------------
(* Small instances of CommandQueue for TLC. *)
EXTENDS CommandQueue, Integers, Sequences, TLC

CONSTANTS w1, w2, m1, cl, c1, c2, c3, k1, k2

\* c1 and c2 compete for one key, c3 has a key of its own; or there is no competition.
MCKeyOf == c1 :> k1 @@ c2 :> k1 @@ c3 :> k2
MCKeyOfPair == c1 :> k1 @@ c3 :> k2
MCKeyOfOne == c1 :> k1

WorkerSymmetry == Permutations(Workers)

-----------------------------------------------------------------------------
(* What one command does on the exchange (Adapter), over both exchanges,   *)
(* both directions and every combination of stop and target.               *)

X == INSTANCE Adapter

Exchanges == {"binance", "bybit"}
FineLot   == [step |-> 1, minQuantity |-> 1]
CoarseLot == [step |-> 5, minQuantity |-> 5]
MCKey     == "key"
Request(action, direction, quantity, stop, target) ==
    [key |-> MCKey, action |-> action, direction |-> direction, quantity |-> quantity,
     stopLoss |-> stop, takeProfit |-> target]
Opening(direction, stop, target) == Request("OpenPosition", direction, 12, stop, target)
Run(w, c) == X!Process(w, c, FineLot, X!AllSmooth)

\* openPosition checks for the stop and the target before it places them
\* (base.ts:20): an entry that has either is never verified, is left without
\* protection, and each retry adds to the position where the id may be reused.
ASSUME EntriesAreNeverProtected ==
    \A e \in Exchanges, d \in {"LONG", "SHORT"}, stop \in {0, 9000}, target \in {0, 12000} :
        stop + target > 0 =>
            LET done == Run(X!World(e, 0), Opening(d, stop, target))
            IN  /\ done.status = "dead_lettered"
                /\ done.world.book = {}
                /\ X!Abs(done.world.position) = IF e = "binance" THEN 6 * 12 ELSE 12

\* The bare entry is verified, unless the account has a position in the symbol
\* already: the quantity expected is that of the order alone.  (Against an opposite
\* position of its size the second call on Binance is.)
ASSUME OnlyTheFirstEntryVerifies ==
    \A e \in Exchanges, d \in {"LONG", "SHORT"}, held \in {-12, 0, 12} :
        (Run(X!World(e, held), Opening(d, 0, 0)).status = "completed") <=>
            \/ held = 0
            \/ e = "binance" /\ held = (IF d = "LONG" THEN -12 ELSE 12)

\* The keys an adapter has accepted do not outlive it: a command called again
\* after a restart is refused by Bybit and filled again by Binance.
ASSUME RestartForgetsTheKeys ==
    \A e \in Exchanges, d \in {"LONG", "SHORT"} :
        LET c     == Opening(d, 0, 0)
            once  == Run(X!World(e, 0), c).world
            again == Run(once, c)
            after == Run(X!Restart(once), c)
        IN  /\ again = [world |-> once, status |-> "completed"]
            /\ after.status = "dead_lettered"
            /\ X!Abs(after.world.position) = IF e = "binance" THEN 7 * 12 ELSE 12

\* Requests whose answer is lost make the rate limiter send the order again: one
\* call opens several positions on Binance, four when the limiter gives up, and
\* ends on Bybit in the duplicate it caused.
Fated(fate) == [X!Smooth EXCEPT !.order = fate]
Lost(n) == [X!Prompt EXCEPT !.unanswered = n, !.answered = n < X!MAX_SENDS]

ASSUME UnknownAnswersRepeatTheOrder ==
    \A e \in Exchanges, n \in 1..X!MAX_SENDS :
        LET call == X!Call(X!World(e, 0), Opening("LONG", 0, 0), FineLot, Fated(Lost(n)))
            sent == IF n < X!MAX_SENDS THEN n + 1 ELSE n
        IN  /\ call.world.position = IF e = "binance" THEN sent * 12 ELSE 12
            /\ call.answer = IF n = X!MAX_SENDS THEN "unknown"
                             ELSE IF e = "binance" THEN "FAILED" ELSE "duplicate_id"

\* A stop waits under its id on either exchange: placed by a request whose answer
\* is lost, or by a call that could not read it back, it is a duplicate of itself
\* and its command is dead-lettered, the stop in place.
ASSUME LostStopsAreDuplicates ==
    \A e \in Exchanges, fate \in {Lost(1), Lost(X!MAX_SENDS), [X!Prompt EXCEPT !.readBack = FALSE]} :
        LET done == X!Process(X!World(e, 12), Request("MoveStopLoss", "LONG", 12, 9000, 0), FineLot,
                              [X!AllSmooth EXCEPT ![1] = Fated(fate)])
        IN  done.status = "dead_lettered" /\ {o.trigger : o \in done.world.book} = {9000}

\* partialClose expects what closePosition expects, an empty position: it is
\* repeated until nothing is left, or given up although it was done.
ASSUME PartialClosesGoOn ==
    \A e \in Exchanges, held \in {-36, 36} :
        LET done == Run(X!World(e, held), Request("PartialClose", "LONG", 12, 0, 0))
        IN  IF e = "binance" THEN done.status = "completed" /\ done.world.position = 0
            ELSE done.status = "dead_lettered" /\ X!Abs(done.world.position) = 24

\* A protective order is a sale whatever the position (base.ts:24-25), and a
\* new stop leaves the old one where it was.
ASSUME StopsOnlySell ==
    /\ LET done == Run(X!World("binance", -12), Request("MoveStopLoss", "SHORT", 12, 9000, 0))
       IN  /\ done.status = "completed"
           /\ \A o \in done.world.book : ~X!Reduces(done.world, o)
    /\ LET first == Run(X!World("binance", 12), Request("MoveStopLoss", "LONG", 12, 9000, 0)).world
           next  == Run(first, [Request("MoveStopLoss", "LONG", 12, 9500, 0) EXCEPT !.key = "next"])
       IN  next.status = "completed" /\ {o.trigger : o \in next.world.book} = {9000, 9500}

\* A Bybit stop is read back as a market order, so that it is never recognised;
\* a move without a quantity is refused; a quantity the lot rounds by more than
\* a thousandth never verifies.
ASSUME SomeNeverVerify ==
    /\ LET done == Run(X!World("bybit", 12), Request("MoveStopLoss", "LONG", 12, 9000, 0))
       IN  done.status = "dead_lettered" /\ {o.trigger : o \in done.world.book} = {9000}
    /\ \A e \in Exchanges :
        Run(X!World(e, 12), Request("MoveStopLoss", "LONG", 0, 9000, 0)).world.book = {}
    /\ X!Process(X!World("binance", 0), Opening("LONG", 0, 0), CoarseLot, X!AllSmooth).world.position
        = 6 * 10

-----------------------------------------------------------------------------
(* What is planned (Planner), and what becomes of it on the exchange.      *)

L == INSTANCE Planner

MCSignal == [signalId |-> "s1", symbol |-> "BTC", market |-> "crypto", direction |-> "LONG",
             entry |-> 10000, stop |-> 9000, target |-> 12000]
Later == [MCSignal EXCEPT !.signalId = "s2"]

\* Everything is in order and every counter is one trade below its limit; the
\* trade is of 12 units, 1 % of the equity at risk.
MCProfile ==
    [executor |-> "e1", account |-> "a", platform |-> "Binance", eligible |-> TRUE, packageActive |-> TRUE,
     subscriptionValid |-> TRUE, executionMode |-> "execution", approvalStatus |-> "approved",
     executorState |-> "active", enabled |-> TRUE, health |-> "healthy",
     allowedMarkets |-> {"crypto"}, allowedSymbols |-> {"*"}, riskAllowed |-> TRUE,
     dailyLossLock |-> FALSE, drawdownPct |-> 0, maxDrawdownPct |-> 5,
     equity |-> 1200000, riskPerTradePct |-> 1, usedDailyRiskPct |-> 1, maxDailyRiskPct |-> 2,
     openTrades |-> 0, maxOpenTrades |-> 1, sameSymbol |-> [BTC |-> 0], maxSameSymbol |-> 1,
     sameDirection |-> [LONG |-> 0, SHORT |-> 0], maxSameDirection |-> 1,
     coolingDown |-> FALSE, leverageAllowed |-> TRUE, maxLeverage |-> 1,
     exposure |-> 0, maxExposure |-> 120000]

\* dispatch changes no counter: two signals take a limit that has room for one
\* (planner.ts:28-32, 36), although each is refused once the counter is saved.
ASSUME SnapshotAdmitsBoth ==
    /\ Len(L!DispatchAll(<<MCSignal, Later>>, <<MCProfile>>)) = 2
    /\ \A saved \in {[MCProfile EXCEPT !.usedDailyRiskPct = 2], [MCProfile EXCEPT !.openTrades = 1],
                     [MCProfile EXCEPT !.sameSymbol = [BTC |-> 1]],
                     [MCProfile EXCEPT !.sameDirection = [LONG |-> 1, SHORT |-> 0]],
                     [MCProfile EXCEPT !.exposure = 120000]} :
            L!plan(Later, saved, FALSE).status = "REJECTED"

\* However often a signal is dispatched a key is approved once; but the executor
\* is part of the key, and an account listed under two of them gets two orders.
ASSUME OneApprovalPerKey ==
    /\ \A signals \in {<<MCSignal, MCSignal>>, <<MCSignal, Later, MCSignal>>} :
        LET done == L!DispatchAll(signals, <<MCProfile, MCProfile>>)
        IN  \A i, j \in DOMAIN done : done[i].key = done[j].key => i = j
    /\ Len(L!DispatchAll(<<MCSignal>>, <<MCProfile, [MCProfile EXCEPT !.executor = "e2"]>>)) = 2

\* A signal whose stop is its entry is approved with a quantity of nothing and
\* dead-lettered by the exchange's minimum; one without a stop is sized for a
\* stop 1 % away that is never sent.
ASSUME FlatAndBareSignalsPass ==
    LET flat == L!plan([MCSignal EXCEPT !.stop = 10000], MCProfile, FALSE)
        bare == L!plan([MCSignal EXCEPT !.stop = 0, !.target = 0],
                       [MCProfile EXCEPT !.maxExposure = L!Unlimited], FALSE)
    IN  /\ flat.status = "APPROVED" /\ flat.quantity = 0
        /\ Run(X!World("binance", 0), L!CommandOf(flat)) =
              [world |-> X!World("binance", 0), status |-> "dead_lettered"]
        /\ bare.status = "APPROVED" /\ L!CommandOf(bare).stopLoss = 0 /\ bare.quantity > 12

\* The leverage that is checked limits nothing: the notional approved may be
\* any multiple of the equity the leverage allows.
ASSUME LeverageIsNotApplied ==
    LET near == [MCSignal EXCEPT !.stop = 9999]
        done == L!plan(near, [MCProfile EXCEPT !.maxExposure = L!Unlimited], FALSE)
    IN  /\ done.status = "APPROVED" /\ done.leverage = 1
        /\ done.quantity * near.entry > 50 * MCProfile.equity * done.leverage

\* What is approved with a stop or a target ends on either exchange as
\* EntriesAreNeverProtected says.
ASSUME ApprovedIsNeverProtected ==
    \A stop \in {0, 9000}, target \in {0, 12000} :
        LET q    == L!plan([MCSignal EXCEPT !.stop = stop, !.target = target],
                           [MCProfile EXCEPT !.maxExposure = L!Unlimited], FALSE)
            done == Run(X!World("binance", 0), L!CommandOf(q))
        IN  /\ q.status = "APPROVED"
            /\ done.status = "completed" <=> stop + target = 0
            /\ stop + target > 0 => done.world.position = 6 * q.quantity /\ done.world.book = {}

\* The registry tells trailing as supported; the bridge knows no such action.
ASSUME TrailingIsNotBridged ==
    \A platform \in {"Binance", "Bybit"} :
        L!Capabilities[platform].supportedOrderTypes \ L!BridgedActions = {"StartTrailing"}

-----------------------------------------------------------------------------
(* The event bus, with n events published, those before instant k cleaned  *)
(* up and m more published.                                                *)

Y == INSTANCE EventLog

CleanedLog(n, k, m) == Y!PublishAll(Y!cleanup(Y!PublishAll(<< >>, 1, n), k), n + 1, n + m)

\* Until something is cleaned up numbers are unique and a reader that asks for
\* what came after the last number it saw gets exactly that.
ASSUME ReplayIsExactAtFirst ==
    \A n \in 0..4, m \in 0..4 :
        LET log == CleanedLog(n, 1, m)
        IN  Y!Instants(Y!replay(log, n)) = (n + 1)..(n + m)

\* Afterwards the numbers start below those given out: the reader misses the
\* events whose numbers are not above the last it saw, and as soon as the new
\* numbers reach those that were kept two events have one number (events.ts:5,
\* repositories.ts:18).
ASSUME CleanupHidesEvents ==
    \A n \in 1..4, m \in 1..4 : \A k \in 2..(n + 1) :
        LET log    == CleanedLog(n, k, m)
            missed == ((n + 1)..(n + m)) \ Y!Instants(Y!replay(log, n))
        IN  /\ missed = {t \in (n + 1)..(n + m) : t - n <= k - 1}
            /\ k <= n /\ m >= 2 * k - n - 1 => \E i, j \in DOMAIN log : i # j /\ log[i].sequence = log[j].sequence

=============================================================================
