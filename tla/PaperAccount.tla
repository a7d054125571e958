---------------------------- MODULE PaperAccount ----------------------------
(***************************************************************************)
(* The paper account of the V1 worker: the exits a signal is traded with,  *)
(* how much of it the account takes, what a partial and a full close make  *)
(* of the position, and the account that is read back from the rows.  The  *)
(* trades that result are the state of PaperTrade; here is the arithmetic  *)
(* of one admission, as functions of the rows the worker has read.         *)
(*                                                                         *)
(* Money, prices and quantities are integers in a unit fine enough for     *)
(* the quotients taken of them; shares of the equity are in hundredths of  *)
(* a percent, multiples of the risk in tenths.                             *)
(***************************************************************************)
EXTENDS Integers, FiniteSetsExt

\* An optional amount the caller leaves out; amounts are never negative.
NotGiven == -1

Abs(n) == IF n < 0 THEN -n ELSE n
Least(m, n)    == IF m < n THEN m ELSE n
Greatest(m, n) == IF m > n THEN m ELSE n

Direction(side) == IF side = "SHORT" THEN -1 ELSE 1

-----------------------------------------------------------------------------
(* The exits a signal is traded with.                                      *)

\* How an engine expects to hold its trades; engine1 and every other engine
\* are balanced.
HoldProfile(engine) == CASE engine = "engine4" -> "scalp_fast"
                         [] engine = "engine3" -> "intraday_fast"
                         [] engine = "engine2" -> "intraday_continuation"
                         [] OTHER -> "intraday_balanced"

MaxHoldMinutes(engine) == CASE engine = "engine4" -> 20
                            [] engine = "engine3" -> 75
                            [] engine = "engine2" -> 180
                            [] OTHER -> 120

\* The regime of an ATR of so many hundred-thousandths of the entry price.
volatilityRegime(atrPct) == CASE atrPct < 300 -> "compressed"
                              [] atrPct > 1200 -> "expansion"
                              [] OTHER -> "normal"

StopMult(hold) == CASE hold = "scalp_fast" -> 65 [] hold = "intraday_fast" -> 90 [] OTHER -> 105
Tp1R(hold)     == CASE hold = "scalp_fast" -> 9  [] hold = "intraday_fast" -> 12 [] OTHER -> 15
Tp2Base(hold)  == CASE hold = "scalp_fast" -> 14 [] hold = "intraday_fast" -> 19 [] OTHER -> 24
Tp2R(hold, regime) == Tp2Base(hold) + CASE regime = "expansion" -> 5
                                        [] regime = "compressed" -> -3
                                        [] OTHER -> 0

AdjustedRisk(entry, stop, atr, hold) ==
    LET base == Greatest(Abs(entry - stop), (atr * 35) \div 100)
    IN  Greatest((base * StopMult(hold)) \div 100, entry \div 2000)

\* The stop behind the entry and the two targets ahead of it, all in tenths
\* of a price.
DynamicExits(side, entry, stop, atr, engine, regime) ==
    LET hold == HoldProfile(engine)
        risk == AdjustedRisk(entry, stop, atr, hold)
        At(tenths) == 10 * entry + Direction(side) * (risk * tenths)
    IN  [side |-> side, entry |-> 10 * entry, stop |-> At(-10),
         tp1 |-> At(Tp1R(hold)), tp2 |-> At(Tp2R(hold, regime))]

-----------------------------------------------------------------------------
(* How a mode sizes.                                                       *)

\* config: paper risk and leverage, crypto leverage, both paper equities,
\* forex risk, most positions at once.
SizingProfile(config, marketType, mode, aPlus) ==
    LET base  == Least(config.paperRisk, 100)
        plain == Greatest(config.paperLeverage, 1)
        risk == CASE mode = "personal" -> IF aPlus THEN Least((base * 3) \div 2, 100) ELSE base
                  [] mode = "prop"     -> IF aPlus THEN 40 ELSE 25
                  [] OTHER -> IF marketType = "forex" THEN config.forexRisk ELSE config.paperRisk
        leverage == CASE mode = "personal" ->
                           Least(IF aPlus THEN Greatest(config.cryptoLeverage, plain) ELSE plain, 10)
                      [] mode = "prop" -> IF aPlus THEN 3 ELSE 2
                      [] OTHER -> 10
    IN  [equity   |-> IF mode = "signal" /\ marketType = "forex" THEN config.forexEquity
                      ELSE config.cryptoEquity,
         leverage |-> leverage, riskPct |-> risk,
         share    |-> IF mode = "signal" THEN 1000 ELSE 10000,
         maxConcurrent |-> config.maxConcurrent]

-----------------------------------------------------------------------------
(* Positions, and the account they add up to.                              *)

IsOpen(p) == p.status \in {"open", "partially_closed"}

Pnl(side, entry, price, qty) == Direction(side) * (price - entry) * qty

Marked(p, mark) == IF IsOpen(p) /\ mark # NotGiven
                   THEN [p EXCEPT !.unrealized = Pnl(p.side, p.entry, mark, p.qty)] ELSE p

ClosedPosition(p, price) ==
    [p EXCEPT !.status = "closed", !.qty = 0, !.notional = 0, !.unrealized = 0,
              !.realized = @ + Pnl(p.side, p.entry, price, p.qty)]

SafeCloseQty(p, qty) == Least(Greatest(qty, 0), p.qty)

PartlyClosed(p, price, qty) ==
    LET left == p.qty - SafeCloseQty(p, qty)
    IN  IF left <= 0 THEN ClosedPosition(p, price)
        ELSE [p EXCEPT !.status = "partially_closed", !.qty = left, !.notional = left * p.entry,
                       !.realized = @ + Pnl(p.side, p.entry, price, SafeCloseQty(p, qty)),
                       !.unrealized = Pnl(p.side, p.entry, price, left)]

\* What a position adds to the equity: what it realised once it is closed,
\* what it would realise while it is open.
Contribution(p) == IF IsOpen(p) THEN p.unrealized
                   ELSE IF p.status = "closed" THEN p.realized ELSE 0

Margin(p) == IF IsOpen(p) /\ p.leverage > 0 THEN p.notional \div p.leverage ELSE 0

Total(Of(_), positions) == MapThenSumSet(Of, positions)

Snapshot(profile, positions) ==
    LET equity == profile.equity + Total(Contribution, positions)
    IN  [equity |-> equity, freeMargin |-> equity - Total(Margin, positions),
         openCount |-> Cardinality({p \in positions : IsOpen(p)}),
         maxConcurrent |-> profile.maxConcurrent]

-----------------------------------------------------------------------------
(* What of a signal the account takes.                                     *)

Rejected(reason) == [accepted |-> FALSE, reason |-> reason, qty |-> 0, notional |-> 0, risk |-> 0]

\* What may be put at risk: the caller's own amount, or the profile's share
\* of the equity.
AllowedRisk(account, profile, allowedOpenRisk) ==
    IF allowedOpenRisk # NotGiven THEN allowedOpenRisk
    ELSE (account.equity * profile.riskPct) \div 10000

CapitalBasis(account, profile) ==
    Greatest(0, Least((account.equity * profile.share) \div 10000, account.freeMargin))

TargetNotional(account, profile) ==
    Least(CapitalBasis(account, profile) * profile.leverage, account.freeMargin * profile.leverage)

\* By how much rounding lets a notional computed back from the quantity exceed
\* the one it was computed from: the code's quotients are doubles.
Roundings == {0, 1}

\* computePaperExecutionDecision: the reasons in the order they are asked
\* for, the margin being notional over leverage.  The quantity the code has
\* is not a whole one, so what it computes back is the target itself where
\* the target decides, give or take the rounding.
Decision(account, profile, entry, stop, symbolTaken, allowedOpenRisk, rounding) ==
    LET distance == Abs(entry - stop)
        target   == TargetNotional(account, profile)
        byRisk   == AllowedRisk(account, profile, allowedOpenRisk) \div distance
        byTarget == target \div entry
        qty      == Least(byTarget, byRisk)
        notional == qty * entry
        back     == (IF byTarget <= byRisk THEN target ELSE notional) + rounding
    IN  IF symbolTaken THEN Rejected("blocked_active_symbol_open_position")
        ELSE IF account.openCount >= account.maxConcurrent
          THEN Rejected("blocked_max_concurrent_positions")
        ELSE IF entry <= 0 THEN Rejected("blocked_invalid_entry_price")
        ELSE IF profile.riskPct <= 0 \/ account.equity <= 0 THEN Rejected("blocked_risk_invalid")
        ELSE IF distance <= 0 THEN Rejected("blocked_invalid_stop_distance")
        ELSE IF byTarget <= 0 THEN Rejected("blocked_notional_cap")
        ELSE IF qty <= 0
          THEN Rejected(IF byRisk <= 0 THEN "blocked_risk_clamped_to_zero"
                        ELSE "blocked_zero_or_negative_qty")
        ELSE IF notional <= 0 \/ back > account.freeMargin * profile.leverage
          THEN Rejected("blocked_margin_unavailable")
        ELSE [accepted |-> TRUE, reason |-> "none", qty |-> qty, notional |-> notional,
              risk |-> qty * distance]

\* The open risk the personal mode stops at.
PersonalRiskCap(account) == (account.equity * 150) \div 10000

\* The risk its rows were opened with, never written down again.
OpenRisk(positions) == LET AtEntry(p) == IF IsOpen(p) THEN Greatest(p.riskAtEntry, 0) ELSE 0
                       IN  Total(AtEntry, positions)

AllowedOpenRisk(mode, account, openRisk) ==
    IF mode = "personal" THEN Greatest(PersonalRiskCap(account) - openRisk, 0) ELSE NotGiven

\* A forex quantity in hundredths of a lot, one hundredth at least.
Snapped(qty, hundredthLot) == Greatest(qty \div hundredthLot, 1) * hundredthLot

SnappedDecision(d, entry, stop, hundredthLot) ==
    LET qty == Snapped(d.qty, hundredthLot)
    IN  [d EXCEPT !.qty = qty, !.notional = qty * entry, !.risk = qty * Abs(entry - stop)]

\* One stored signal: which of it the worker executes on paper.
Admission(mode, account, openRisk, profile, symbolTaken, s, rounding) ==
    LET d == Decision(account, profile, s.entry, s.stop, symbolTaken,
                      AllowedOpenRisk(mode, account, openRisk), rounding)
    IN  IF s.marketType = "forex" /\ s.symbol = "XAUUSD"
          THEN Rejected("blocked_unsupported_sizing_model")
        ELSE IF d.accepted /\ s.marketType = "forex"
          THEN SnappedDecision(d, s.entry, s.stop, s.hundredthLot)
        ELSE d

Opened(s, profile, d) ==
    [id |-> s.id, symbol |-> s.symbol, side |-> s.side, entry |-> s.entry, qty |-> d.qty,
     notional |-> d.notional, leverage |-> profile.leverage, riskAtEntry |-> d.risk,
     status |-> "open", unrealized |-> 0, realized |-> 0]

SymbolTaken(positions, s) == \E p \in positions : p.symbol = s.symbol /\ IsOpen(p)

\* The positions after the signal was decided on; an accepted one that still
\* passes the A+ assertion is counted before the next signal of the cycle.
AfterAdmission(mode, config, positions, s, rounding) ==
    LET profile == SizingProfile(config, s.marketType, mode, s.aPlus)
        d == Admission(mode, Snapshot(profile, positions), OpenRisk(positions), profile,
                       SymbolTaken(positions, s), s, rounding)
    IN  IF d.accepted /\ s.assertedAPlus THEN positions \cup {Opened(s, profile, d)} ELSE positions

=============================================================================
