------------------------------- MODULE Planner -------------------------------
(***************************************************************************)
(* How the V2 execution core decides what an account may do with a signal: *)
(* the gates of ExecutionPlanner in their order, the size of the order,    *)
(* and the manager's walk over the profiles.  CommandQueue has the other   *)
(* half, what becomes of the command.                                      *)
(*                                                                         *)
(* A profile is one account with its customer, its executor and the risk   *)
(* counters its owner last saved with it.  Limits that may be missing are  *)
(* given as Unlimited.  A stop of 0 is a signal without one.               *)
(***************************************************************************)
EXTENDS Integers, Sequences

Unlimited == 1000000000

\* AdapterCapabilityRegistry.
Actions == {"OpenPosition", "MoveStopLoss", "MoveTakeProfit", "Synchronize", "PartialClose",
            "StartTrailing", "RepairProtection", "SafeClose"}
Capability(markets, leverage, actions) ==
    [supportsMarket |-> markets, maxLeverage |-> leverage, supportedOrderTypes |-> actions]
Capabilities ==
    [Binance |-> Capability({"crypto"}, 20, Actions \ {"RepairProtection"}),
     Bybit   |-> Capability({"crypto"}, 15, Actions \ {"RepairProtection"}),
     MT5     |-> Capability({"forex", "indices", "commodities"}, 5,
                            Actions \ {"RepairProtection", "StartTrailing"}),
     Mock    |-> Capability({"crypto", "forex", "indices", "commodities"}, 100, Actions)]

\* The actions CryptoAdapterExecutionBridge hands to an adapter.
BridgedActions == {"OpenPosition", "MoveStopLoss", "MoveTakeProfit", "PartialClose", "SafeClose",
                   "Synchronize"}

-----------------------------------------------------------------------------
(* The size: the risk amount over the distance of the stop, or of 1 % of   *)
(* the entry when there is none.                                           *)

StopDistance(s) ==
    LET stop == IF s.stop = 0 THEN (s.entry * 99) \div 100 ELSE s.stop
    IN  IF s.entry > stop THEN s.entry - stop ELSE stop - s.entry

Quantity(s, p) ==
    IF StopDistance(s) = 0 THEN 0
    ELSE (p.equity * p.riskPerTradePct) \div (100 * StopDistance(s))

Leverage(p) ==
    LET cap == Capabilities[p.platform].maxLeverage
    IN  IF p.maxLeverage < cap THEN p.maxLeverage ELSE cap

-----------------------------------------------------------------------------
(* The gates, in the order they are tried.  duplicate says whether the key *)
(* of the command is known to the store.                                   *)

Gate(holds, status) == [holds |-> holds, status |-> status]

CustomerGates(p) ==
    << Gate(~p.eligible \/ ~p.packageActive \/ ~p.subscriptionValid, "REJECTED"),
       Gate(p.executionMode = "signal_only", "REJECTED"),
       Gate(p.approvalStatus # "approved", "REJECTED"),
       Gate(p.executorState = "paused", "DEFERRED"),
       Gate(p.executorState = "disabled" \/ ~p.enabled, "REJECTED"),
       Gate(p.health # "healthy", "DEFERRED") >>

MarketGates(s, p) ==
    << Gate("OpenPosition" \notin Capabilities[p.platform].supportedOrderTypes, "REJECTED"),
       Gate(s.market \notin Capabilities[p.platform].supportsMarket, "REJECTED"),
       Gate(s.market \notin p.allowedMarkets, "REJECTED"),
       Gate({"*", s.symbol} \cap p.allowedSymbols = {}, "REJECTED") >>

RiskGates(s, p) ==
    << Gate(~p.riskAllowed \/ p.dailyLossLock, "REJECTED"),
       Gate(p.drawdownPct > p.maxDrawdownPct, "REJECTED"),
       Gate(p.usedDailyRiskPct + p.riskPerTradePct > p.maxDailyRiskPct, "REJECTED"),
       Gate(p.openTrades >= p.maxOpenTrades, "REJECTED"),
       Gate(p.sameSymbol[s.symbol] >= p.maxSameSymbol, "REJECTED"),
       Gate(p.sameDirection[s.direction] >= p.maxSameDirection, "REJECTED"),
       Gate(p.coolingDown, "DEFERRED"),
       Gate(Leverage(p) < 1 \/ ~p.leverageAllowed, "REJECTED"),
       Gate(p.exposure + Quantity(s, p) * s.entry > p.maxExposure, "REJECTED") >>

IdempotencyKey(s, p) == <<s.signalId, p.executor, p.account>>

plan(s, p, duplicate) ==
    LET gates == CustomerGates(p) \o MarketGates(s, p) \o RiskGates(s, p)
                 \o << Gate(duplicate, "REJECTED") >>
        closed == SelectSeq(gates, LAMBDA g : g.holds)
    IN  [status   |-> IF closed = << >> THEN "APPROVED" ELSE Head(closed).status,
         quantity |-> Quantity(s, p), leverage |-> Leverage(p),
         key      |-> IdempotencyKey(s, p), signal |-> s]

-----------------------------------------------------------------------------
(* ExecutionManager.dispatch: every profile in turn, on the counters it    *)
(* was saved with; the keys approved are known from then on.               *)

dispatch(s, profiles, known) ==
    [i \in DOMAIN profiles |->
        plan(s, profiles[i],
             \/ IdempotencyKey(s, profiles[i]) \in known
             \/ \E j \in 1..(i - 1) :
                    /\ IdempotencyKey(s, profiles[j]) = IdempotencyKey(s, profiles[i])
                    /\ plan(s, profiles[j], FALSE).status = "APPROVED")]

Approved(plans) == SelectSeq(plans, LAMBDA q : q.status = "APPROVED")
KeysOf(plans) == {q.key : q \in {plans[i] : i \in DOMAIN plans}}

\* The signals of a while, dispatched one after the other.
DispatchAll(signals, profiles) ==
    LET after[n \in 0..Len(signals)] ==
            IF n = 0 THEN << >>
            ELSE after[n - 1]
                 \o Approved(dispatch(signals[n], profiles, KeysOf(after[n - 1])))
    IN  after[Len(signals)]

\* What the bridge makes of an approved plan (see Adapter).
CommandOf(q) ==
    [key |-> q.key, action |-> "OpenPosition", direction |-> q.signal.direction,
     quantity |-> q.quantity, stopLoss |-> q.signal.stop, takeProfit |-> q.signal.target]
=============================================================================
