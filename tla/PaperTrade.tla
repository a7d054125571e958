----------------------------- MODULE PaperTrade -----------------------------
(***************************************************************************)
(* The paper trades of the V1 worker (personal and prop mode): how a       *)
(* SignalTrade row is opened from an accepted decision and how each worker *)
(* cycle moves it by the latest price of its symbol: stop, second target,  *)
(* first target with its partial close and protected stop, and the stale   *)
(* trade policy.                                                           *)
(*                                                                         *)
(* The open rows are read once per cycle and then updated one at a time,   *)
(* with an await between the updates, so the operator's reset and a crash  *)
(* of the worker fall between any two of them.                             *)
(*                                                                         *)
(* Prices and quantities are integers in a unit fine enough for the        *)
(* configured fractions; what is derived from quantity and entry price     *)
(* alone (notional, margin, risk amount, unrealised profit) is left out.   *)
(***************************************************************************)
EXTENDS Integers

CONSTANTS
    Trades,         \* SignalTrade ids
    Plans,          \* side and prices an accepted signal may carry
    Quantities,     \* quantities a decision may compute
    Prices,         \* latest prices the feed may report
    PartialNum, PartialDen,     \* SIGNAL_PARTIAL_PCT, 0 when the partial is off
    ProtectNum, ProtectDen,     \* protectR of the TP1 protected stop
    TightenNum, TightenDen,     \* 0.55
    TightenFloor,   \* entryPrice * 0.0005
    None

Abs(n) == IF n < 0 THEN -n ELSE n
Least(m, n)    == IF m < n THEN m ELSE n
Greatest(m, n) == IF m > n THEN m ELSE n

\* One unit of price in a plan's favour.
Sign(plan) == IF plan.side = "SHORT" THEN -1 ELSE 1
Gain(plan, price) == Sign(plan) * (price - plan.entry)

Plan == [side : {"LONG", "SHORT"}, entry : Int, stop : Int, tp1 : Int, tp2 : Int]

\* What buildDynamicExitPrices returns: the stop behind the entry, the
\* targets ahead of it in order, the second at least as far as the stop.
WellPlanned(plan) ==
    /\ Gain(plan, plan.stop) < 0
    /\ 0 < Gain(plan, plan.tp1)
    /\ Gain(plan, plan.tp1) < Gain(plan, plan.tp2)
    /\ -Gain(plan, plan.stop) <= Gain(plan, plan.tp2)

ASSUME PlansAssumption == /\ Plans \subseteq Plan
                          /\ \A plan \in Plans : WellPlanned(plan)
ASSUME QuantitiesAssumption == Quantities \subseteq Nat \ {0}
ASSUME PricesAssumption == Prices \subseteq Int
ASSUME FractionsAssumption ==
    /\ PartialNum \in Nat /\ PartialDen \in Nat \ {0} /\ PartialNum <= PartialDen
    /\ ProtectNum \in Nat /\ ProtectDen \in Nat \ {0}
    /\ TightenNum \in Nat /\ TightenDen \in Nat \ {0}
    /\ TightenFloor \in Nat \ {0}

VARIABLES
    trades,     \* the SignalTrade row of each id, or None
    pass        \* rows read by this cycle and still to be managed

vars == <<trades, pass>>

Statuses == {"open", "tp1_hit", "tp2_hit", "stop_hit", "closed"}
Outcomes == {"open", "win", "loss", "partial_win"}
Row == [plan : Plans, size : Quantities, qty : Nat, stop : Int, realized : Int,
        status : Statuses, outcome : Outcomes, tp1Hit : BOOLEAN,
        held : {"fresh", "held", "old"},    \* age against the two time limits
        remembered : BOOLEAN,   \* its decision is among the newest 500
        resolved : BOOLEAN]     \* a signal_trade_result event was written

ASSUME NoneAssumption == None \notin Row

Exists(t) == trades[t] # None

\* Faulty: a filter that forgets two of the closed statuses.
ActiveUnlessStopped(r) == r.status # "stop_hit"

\* activeSignalTradeWhereClause
Active(r) == r.status \in {"open", "tp1_hit"}
Open(t)   == Exists(t) /\ Active(trades[t])

-----------------------------------------------------------------------------
(* What the price does to a trade.                                         *)

Pnl(plan, price, qty) == Gain(plan, price) * qty

Stopped(r, price) == Gain(r.plan, price) <= Gain(r.plan, r.stop)
AtTp2(r, price)   == Gain(r.plan, price) >= Gain(r.plan, r.plan.tp2)

\* Faulty: the first target is reached again at every price beyond it.
AtTp1Again(r, price) == Gain(r.plan, price) >= Gain(r.plan, r.plan.tp1)
AtTp1(r, price)   == Gain(r.plan, price) >= Gain(r.plan, r.plan.tp1) /\ ~r.tp1Hit

\* Faulty: the first target leaves the stop where it was.
ProtectedStopUnmoved(plan, stop) == stop

\* computeProtectedStopPrice
ProtectedStop(plan, stop) ==
    LET risk == Abs(plan.entry - stop)
    IN  IF risk = 0 THEN stop
        ELSE plan.entry + Sign(plan) * ((risk * ProtectNum) \div ProtectDen)

\* Faulty: Math.min and Math.max swapped.
TightenedStopSwapped(r, price) ==
    LET distance == Greatest((Abs(r.plan.entry - r.stop) * TightenNum) \div TightenDen, TightenFloor)
    IN  IF r.plan.side = "SHORT" THEN Greatest(r.stop, price + distance)
        ELSE Least(r.stop, price - distance)

\* The stop that trails the price of a stale trade.
TightenedStop(r, price) ==
    LET distance == Greatest((Abs(r.plan.entry - r.stop) * TightenNum) \div TightenDen, TightenFloor)
    IN  IF r.plan.side = "SHORT" THEN Least(r.stop, price + distance)
        ELSE Greatest(r.stop, price - distance)

\* Faulty: a partial close of more than the trade holds.
CloseQtyOfSize(r)     == (r.size * (PartialDen + 1)) \div PartialDen

CloseQty(r) == (r.qty * PartialNum) \div PartialDen

\* Faulty: a stale trade is tightened after its first target too.
TightensUntilForgotten(r) == r.remembered

\* A decision that is not among the newest 500 is not found: the trade then
\* has the default time limit and the policy force_close.
Stale(r)      == IF r.remembered THEN r.held # "fresh" ELSE r.held = "old"
TightensFirst(r) == r.remembered /\ ~r.tp1Hit

\* closePaperPosition: the whole remainder at one price.
Closed(r, price, status, outcome) ==
    [r EXCEPT !.realized = @ + Pnl(r.plan, price, r.qty), !.qty = 0,
              !.status = status, !.outcome = outcome, !.resolved = TRUE]

\* Faulty: the quantity sold at the first target stays in the row.
PartialKeepsQty(r) ==
    [r EXCEPT !.realized = @ + Pnl(r.plan, r.plan.tp1, CloseQty(r)),
              !.stop = ProtectedStop(r.plan, r.stop), !.tp1Hit = TRUE,
              !.status = "tp1_hit", !.outcome = "partial_win", !.resolved = TRUE]

\* The row after the first target: part of it is sold there and the stop
\* moves to protect the rest.
Partial(r) ==
    LET left == r.qty - CloseQty(r)
    IN  [r EXCEPT !.realized = @ + Pnl(r.plan, r.plan.tp1, CloseQty(r)), !.qty = left,
                  !.stop = ProtectedStop(r.plan, r.stop), !.tp1Hit = TRUE,
                  !.status = IF left <= 0 THEN "tp2_hit" ELSE "tp1_hit",
                  !.outcome = "partial_win", !.resolved = TRUE]

-----------------------------------------------------------------------------
(* The worker.                                                             *)

Init == /\ trades = [t \in Trades |-> None]
        /\ pass = {}

\* An accepted decision becomes a row (once per signal event).
Execute(t, plan, qty) ==
    /\ pass = {} /\ ~Exists(t)
    /\ trades' = [trades EXCEPT ![t] =
          [plan |-> plan, size |-> qty, qty |-> qty, stop |-> plan.stop, realized |-> 0,
           status |-> "open", outcome |-> "open", tp1Hit |-> FALSE,
           held |-> "fresh", remembered |-> TRUE, resolved |-> FALSE]]
    /\ UNCHANGED pass

BeginPass ==
    /\ pass = {}
    /\ pass' = {t \in Trades : Open(t)}
    /\ UNCHANGED trades

Update(t, row) ==
    /\ trades' = [trades EXCEPT ![t] = row]
    /\ pass' = pass \ {t}

\* The row is still there when its turn comes.
Managed(t) == t \in pass /\ Exists(t)

StopHit(t, price) ==
    /\ Managed(t) /\ Stopped(trades[t], price)
    /\ LET r == trades[t]
       IN  Update(t, Closed(r, r.stop, "stop_hit", IF r.tp1Hit THEN "partial_win" ELSE "loss"))

Tp2Hit(t, price) ==
    /\ Managed(t) /\ ~Stopped(trades[t], price) /\ AtTp2(trades[t], price)
    /\ Update(t, Closed(trades[t], trades[t].plan.tp2, "tp2_hit", "win"))

Tp1Hit(t, price) ==
    /\ Managed(t) /\ ~Stopped(trades[t], price) /\ ~AtTp2(trades[t], price)
    /\ AtTp1(trades[t], price)
    /\ Update(t, Partial(trades[t]))

Between(r, price) == ~Stopped(r, price) /\ ~AtTp2(r, price) /\ ~AtTp1(r, price)

Tighten(t, price) ==
    /\ Managed(t) /\ Between(trades[t], price)
    /\ Stale(trades[t]) /\ TightensFirst(trades[t])
    /\ Update(t, [trades[t] EXCEPT !.stop = TightenedStop(trades[t], price)])

TimeStop(t, price) ==
    /\ Managed(t) /\ Between(trades[t], price)
    /\ Stale(trades[t]) /\ ~TightensFirst(trades[t])
    /\ LET profit == trades[t].realized + Pnl(trades[t].plan, price, trades[t].qty)
       IN  Update(t, Closed(trades[t], price, "closed",
              IF profit > 0 THEN "win" ELSE IF profit < 0 THEN "loss" ELSE "partial_win"))

\* Nothing but the mark changes.  A row already at tp1_hit publishes its
\* result once more.
Hold(t, price) ==
    /\ Managed(t) /\ Between(trades[t], price) /\ ~Stale(trades[t])
    /\ Update(t, trades[t])

Manage(t) == \E price \in Prices :
    \/ StopHit(t, price) \/ Tp2Hit(t, price) \/ Tp1Hit(t, price)
    \/ Tighten(t, price) \/ TimeStop(t, price) \/ Hold(t, price)

\* No price for the symbol, or no change to write.
Skip(t) ==
    /\ t \in pass
    /\ pass' = pass \ {t}
    /\ UNCHANGED trades

\* The update of a row that is no longer there throws and ends the cycle.
PassFails(t) ==
    /\ t \in pass /\ ~Exists(t)
    /\ pass' = {}
    /\ UNCHANGED trades

\* The operator's reset, or the boot policy that resets, deletes active rows.
Reset ==
    /\ trades' = [t \in Trades |-> IF Open(t) THEN None ELSE trades[t]]
    /\ UNCHANGED pass

Crash ==
    /\ pass # {}
    /\ pass' = {}
    /\ UNCHANGED trades

-----------------------------------------------------------------------------
(* Time, and the window of newest decisions.                               *)

HoldTimePasses(t) ==
    /\ Open(t) /\ trades[t].held # "old"
    /\ trades' = [trades EXCEPT ![t].held = IF @ = "fresh" THEN "held" ELSE "old"]
    /\ UNCHANGED pass

DecisionForgotten(t) ==
    /\ Open(t) /\ trades[t].remembered /\ pass = {}
    /\ trades' = [trades EXCEPT ![t].remembered = FALSE]
    /\ UNCHANGED pass

Next ==
    \/ BeginPass \/ Reset \/ Crash
    \/ \E t \in Trades :
          \/ \E plan \in Plans, qty \in Quantities : Execute(t, plan, qty)
          \/ Manage(t) \/ Skip(t) \/ PassFails(t)
          \/ HoldTimePasses(t) \/ DecisionForgotten(t)

Spec == Init /\ [][Next]_vars

\* The worker keeps cycling in a mode that manages trades, and the feed does
\* not stay silent for a trade whenever its turn comes.
Fairness ==
    /\ WF_vars(BeginPass)
    /\ \A t \in Trades : SF_vars(Manage(t)) /\ WF_vars(PassFails(t))

FairSpec == Spec /\ Fairness

-----------------------------------------------------------------------------
(* Properties.                                                             *)

Rows == {trades[t] : t \in {u \in Trades : Exists(u)}}

\* Rows keep their types, and quantities never go negative.
TypeOK == /\ trades \in [Trades -> Row \cup {None}]
          /\ pass \subseteq Trades

\* The most a unit may gain: the second target, or the protected stop where
\* protectR, which the configuration does not bound, puts it beyond; the trade
\* is then filled at that stop by whatever price comes next.
Best(plan) ==
    LET farthest == Greatest(-Gain(plan, plan.stop), Gain(plan, plan.tp1))
    IN  Greatest(Gain(plan, plan.tp2), (farthest * ProtectNum) \div ProtectDen)

\* The money of a trade: the partial close and the final close together never
\* lose more than the admitted risk and never gain more than the whole size at
\* the second target, or at the farthest protected stop, however stop, targets
\* and stale policy interleave.
RealizedBounded == \A r \in Rows :
    /\ r.realized >= Pnl(r.plan, r.plan.stop, r.size)
    /\ r.realized <= Best(r.plan) * r.size

\* A trade that lost money is never filed under win or partial_win: once the
\* first target is banked the protected stop can no longer turn it into a loss.
NeverFlattered == \A r \in Rows :
    r.outcome \in {"win", "partial_win"} => r.realized >= 0

\* Only the first target may move a stop away from the price; every other
\* step leaves the stop where it was or tightens it.
StopRatchets == [][\A t \in Trades :
    (Open(t) /\ Exists(t)') =>
        \/ Gain(trades[t].plan, trades[t].stop) <= Gain(trades[t].plan, trades'[t].stop)
        \/ trades[t].tp1Hit # trades'[t].tp1Hit]_vars

\* A closed trade keeps its result for ever.
ClosedIsFinal == [][\A t \in Trades :
    (Exists(t) /\ trades[t].status \in {"tp2_hit", "stop_hit", "closed"})
        => trades'[t] = trades[t]]_vars

\* The rows implement Position: a trade is sold in at most two parts, whatever
\* is realised was sold, and a row without quantity is never written again.
Book == [t \in {u \in Trades : Exists(u)} |->
            [size |-> trades[t].size, left |-> trades[t].qty, banked |-> trades[t].realized]]
PositionOfRows == INSTANCE Position WITH book <- Book
PositionSpec == PositionOfRows!Spec

\* A trade past every time limit closes, if its first target was reached or
\* its decision has left the window (no other trade is ever closed by time).
StaleTradesClose == \A t \in Trades :
    (/\ Open(t) /\ trades[t].held = "old"
     /\ trades[t].tp1Hit \/ ~trades[t].remembered) ~> ~Open(t)

\* docs/config-contract.md: the TP1 movement of the stop is protective.  The
\* code computes it from the current stop, which the stale policy may already
\* have tightened past the entry price.
StopNeverLoosens == [][\A t \in Trades :
    (Open(t) /\ Exists(t)') =>
        Gain(trades[t].plan, trades[t].stop) <= Gain(trades[t].plan, trades'[t].stop)]_vars

\* validate-signal-paper-lifecycle-truth: "result emission on close".  The
\* code takes the status tp1_hit for a close reason.
ResultsOnClose == \A r \in Rows : r.resolved => ~Active(r)

=============================================================================
