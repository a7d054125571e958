------------------------------- MODULE Backtest -------------------------------
(***************************************************************************)
(* The backtest engine: a replay of candles.  On each candle it judges the *)
(* open trades, newest first, may add a continuation to a trade that just  *)
(* took its first target, and then may open a trade for a new signal.      *)
(*                                                                         *)
(* Candles are in price units, a trade's levels in thousandths of one, so  *)
(* slippage in thousandths of a price is exact; money is in further        *)
(* FeeUnit-ths, so fees are.  Sizing is a choice that needs a balance.     *)
(* Averages, excursions, the funnel and shadow trades are left out.        *)
(***************************************************************************)
EXTENDS Prices, Sequences

CONSTANTS
    Bars,           \* bound: candles in a replay, after the warm-up
    Candles,        \* candles that may occur
    Plans,          \* plans the strategy may build
    Atrs,           \* values of the average true range of a candle
    Units,          \* halves of a quantity the sizing may return
    Slip,           \* slippage, in thousandths of a price
    FeeRate,        \* taker fee, in FeeUnit-ths of a price
    FeeUnit,
    EvaluationBars, \* candles before the early exit policy looks at a trade
    InitialBalance

Scale == 1000

Plan == [side : Sides, entry : Nat, stop : Nat, tp1 : Nat, tp2 : Nat,
         early : BOOLEAN, grade : {"A", "B"}]

ASSUME CandlesAssumption == Candles \subseteq Candle /\ \A c \in Candles : WellFormed(c)
ASSUME PlansAssumption == Plans \subseteq Plan /\ \A p \in Plans : WellPlanned(p)
ASSUME NumbersAssumption ==
    /\ Bars \in Nat /\ Atrs \subseteq Nat /\ Units \subseteq Nat \ {0}
    /\ Slip \in 0..(Scale - 1) /\ FeeRate \in Nat /\ FeeUnit \in Nat \ {0}
    /\ EvaluationBars \in Nat /\ InitialBalance \in Int

VARIABLES
    config,     \* oneTradeAtTime, expansion, realism and delayed, for the whole replay
    i,          \* index of the current candle
    candle,     \* the current candle
    following,  \* the candle after it
    due,        \* open trades not judged on this candle yet
    trades,     \* every trade entered, in order: openTrades and closedTrades
    equity,
    signalled    \* a signal was taken on this candle

vars == <<config, i, candle, following, due, trades, equity, signalled>>

Ids == 1..Len(trades)
IsOpen(t) == t.state # "closed"
OpenTrades == {id \in Ids : IsOpen(trades[id])}

-----------------------------------------------------------------------------
(* Money.                                                                  *)

Gain(t, price) == IF t.side = "LONG" THEN price - t.entry ELSE t.entry - price
Pnl(t, price, qty) == Gain(t, price) * qty * FeeUnit
TakerFee(price, qty) == Abs(price) * qty * FeeRate

-----------------------------------------------------------------------------
(* One trade on one candle.                                                *)

Worst(t, c) == IF t.side = "LONG" THEN Scale * c.low ELSE Scale * c.high
Best(t, c) == IF t.side = "LONG" THEN Scale * c.high ELSE Scale * c.low

StopHit(t, c) == Past(t.side, t.stop, Worst(t, c))
Tp1Hit(t, c) == Past(t.side, Best(t, c), t.tp1)
Tp2Hit(t, c) == Past(t.side, Best(t, c), t.tp2)

\* Sells part of the position: the profit is banked less the fee.
Sold(t, price, qty) ==
    [t EXCEPT !.left = @ - qty, !.fees = @ + TakerFee(price, qty),
              !.realized = @ + Pnl(t, price, qty) - TakerFee(price, qty)]

\* Mutant: an exit at the moved stop counts as a plain stop.
ClosedAsStop(t, price, reason) ==
    [Sold(t, price, t.left) EXCEPT !.state = "closed", !.outcome = reason]

Closed(t, price, reason) ==
    [Sold(t, price, t.left) EXCEPT
        !.state = "closed",
        !.outcome = IF reason = "stop" /\ t.half THEN "partial_then_stop" ELSE reason]

\* Mutant: the stop stays where it was.
TookFirstUnmoved(t) == [Sold(t, t.tp1, t.units) EXCEPT !.state = "partial", !.half = TRUE]

\* Half is sold at the first target and the stop moves to the entry.
TookFirst(t) ==
    [Sold(t, t.tp1, t.units) EXCEPT !.state = "partial", !.half = TRUE, !.stop = t.entry]

\* weak stands for the three measures of the early exit policy.
EarlyExit(t, bar, weak) == t.early /\ bar - t.openedAt >= EvaluationBars /\ weak

Partial(t, c, bar, weak) ==
    IF StopHit(t, c) THEN Closed(t, t.stop, "stop")
    ELSE IF Tp2Hit(t, c) THEN Closed(t, t.tp2, "tp2")
    ELSE IF EarlyExit(t, bar, weak) THEN Closed(t, Scale * c.close, "time_exit")
    ELSE t

\* Mutant: the early exit is looked at before the stop.
ProcessedEarlyFirst(t, c, bar, weak) ==
    CASE EarlyExit(t, bar, weak) -> Closed(t, Scale * c.close, "time_exit")
      [] t.state = "partial" -> Partial(t, c, bar, weak)
      [] t.state = "open" /\ StopHit(t, c) -> Closed(t, t.stop, "stop")
      [] OTHER -> IF Tp1Hit(t, c) THEN Partial(TookFirst(t), c, bar, weak) ELSE t

Processed(t, c, bar, weak) ==
    CASE t.state = "partial" -> Partial(t, c, bar, weak)
      [] t.state = "open" /\ StopHit(t, c) -> Closed(t, t.stop, "stop")
      [] t.state = "open" /\ ~StopHit(t, c) /\ Tp1Hit(t, c) ->
            IF Tp2Hit(t, c) THEN Closed(TookFirst(t), t.tp2, "tp2")
                            ELSE Partial(TookFirst(t), c, bar, weak)
      [] OTHER -> IF EarlyExit(t, bar, weak)
                  THEN Closed(t, Scale * c.close, "time_exit") ELSE t

-----------------------------------------------------------------------------
(* A new trade.                                                            *)

Opened(levels, root, bar, units) ==
    LET fee == TakerFee(levels.entry, 2 * units)
    IN  [side |-> levels.side, entry |-> levels.entry, stop |-> levels.stop,
         tp1 |-> levels.tp1, tp2 |-> levels.tp2, early |-> levels.early,
         grade |-> levels.grade, units |-> units, left |-> 2 * units,
         root |-> root, openedAt |-> bar, state |-> "open", half |-> FALSE,
         spawned |-> root # Len(trades) + 1, outcome |-> "none",
         risk |-> Abs(levels.entry - levels.stop) * (2 * units) * FeeUnit,
         fees |-> fee, realized |-> -fee]

\* Sizes the balance admits: none without equity or without a stop distance.
Sizing(balance, levels) == IF balance > 0 /\ levels.entry # levels.stop THEN Units ELSE {}

Worsened(side, price) == IF side = "LONG" THEN price * (Scale + Slip) ELSE price * (Scale - Slip)
Protected(side, price) == IF side = "LONG" THEN price * (Scale - Slip) ELSE price * (Scale + Slip)

\* The plan as it is filled: at the next open when delayed, with slippage when realistic.
Executed(p) ==
    LET base == IF config.delayed THEN following.open ELSE p.entry
        At(level) == base + level - p.entry
        Fill(level) == IF config.realism THEN Protected(p.side, At(level)) ELSE Scale * At(level)
    IN  [side |-> p.side, early |-> p.early, grade |-> p.grade,
         entry |-> IF config.realism THEN Worsened(p.side, base) ELSE Scale * base,
         stop |-> Fill(p.stop), tp1 |-> Fill(p.tp1), tp2 |-> Fill(p.tp2)]

\* The close runs on beyond the first target, strongly but not too far.
RunsOn(t, c, atr) ==
    /\ atr > 0
    /\ Past(t.side, Scale * c.close, t.tp1) /\ Scale * c.close # t.tp1
    /\ Past(t.side, c.close, c.open)
    /\ 100 * Abs(c.close - c.open) >= 45 * atr
    /\ 10 * Abs(Scale * c.close - t.tp1) <= 9 * Scale * atr

Continuation(t, c, atr) ==
    LET base == (85 * Abs(t.entry - t.stop)) \div 100
        floor == 450 * atr
        distance == IF base > floor THEN base ELSE floor
        Ahead(d) == IF t.side = "LONG" THEN Scale * c.close + d ELSE Scale * c.close - d
    IN  [side |-> t.side, early |-> t.early, grade |-> t.grade,
         entry |-> Scale * c.close, stop |-> Ahead(-distance),
         tp1 |-> Ahead((11 * distance) \div 10), tp2 |-> Ahead((28 * distance) \div 10)]

\* Another open trade of the same signal.
Continued(id) == \E o \in OpenTrades \ {id} : trades[o].root = trades[id].root

-----------------------------------------------------------------------------
Init ==
    /\ config \in [oneTradeAtTime : BOOLEAN, expansion : BOOLEAN,
                   realism : BOOLEAN, delayed : BOOLEAN]
    /\ config.delayed => config.realism
    /\ i = 1 /\ candle \in Candles /\ following \in Candles
    /\ due = {} /\ trades = <<>> /\ equity = InitialBalance /\ signalled = FALSE

\* for (i = warmup; i < candles.length; i += 1)
NextCandle ==
    /\ i < Bars
    /\ i' = i + 1 /\ candle' = following /\ following' \in Candles
    /\ due' = OpenTrades /\ signalled' = FALSE

Judged(id, weak) == Processed(trades[id], candle, i, weak)

IsNext(id) == id \in due /\ \A o \in due : o <= id

\* Mutants: the trade is not taken off the list; its fees are not deducted.
SettleTradeKept(id) == \E weak \in BOOLEAN :
    /\ IsNext(id) /\ ~IsOpen(Judged(id, weak))
    /\ trades' = [trades EXCEPT ![id] = Judged(id, weak)]
    /\ equity' = equity + Judged(id, weak).realized
    /\ UNCHANGED <<config, i, candle, following, due, signalled>>

SettleTradeGross(id) == \E weak \in BOOLEAN :
    /\ IsNext(id) /\ ~IsOpen(Judged(id, weak))
    /\ trades' = [trades EXCEPT ![id] = Judged(id, weak)]
    /\ equity' = equity + Judged(id, weak).realized + Judged(id, weak).fees
    /\ due' = due \ {id}
    /\ UNCHANGED <<config, i, candle, following, signalled>>

SettleTrade(id) == \E weak \in BOOLEAN :
    /\ IsNext(id) /\ ~IsOpen(Judged(id, weak))
    /\ trades' = [trades EXCEPT ![id] = Judged(id, weak)]
    /\ equity' = equity + Judged(id, weak).realized
    /\ due' = due \ {id}
    /\ UNCHANGED <<config, i, candle, following, signalled>>

\* Mutant: a continuation may be continued.
MayContinueAnyone(id, t) ==
    config.expansion /\ trades[id].state = "open" /\ t.state = "partial" /\ t.grade # "B"

\* The conditions of the add-on but for the market and the size.
MayContinue(id, t) ==
    /\ config.expansion /\ trades[id].state = "open" /\ t.state = "partial"
    /\ ~Continued(id) /\ t.root = id /\ ~t.spawned /\ t.grade # "B"

HoldTrade(id) == \E weak \in BOOLEAN :
    /\ IsNext(id) /\ IsOpen(Judged(id, weak))
    /\ \/ ~MayContinue(id, Judged(id, weak))
       \/ \E atr \in Atrs :
            \/ ~RunsOn(Judged(id, weak), candle, atr)
            \/ Sizing(equity, Continuation(Judged(id, weak), candle, atr)) = {}
    /\ trades' = [trades EXCEPT ![id] = Judged(id, weak)]
    /\ due' = due \ {id}
    /\ UNCHANGED <<config, i, candle, following, equity, signalled>>

\* Mutant: the list of open trades is walked forwards.
ContinueForward(id) == \E weak \in BOOLEAN, atr \in Atrs, units \in Units :
    LET t == Judged(id, weak)
        add == Continuation(t, candle, atr)
    IN  /\ IsNext(id) /\ IsOpen(t) /\ MayContinue(id, t) /\ RunsOn(t, candle, atr)
        /\ units \in Sizing(equity, add)
        /\ trades' = Append([trades EXCEPT ![id] = [t EXCEPT !.spawned = TRUE]],
                            Opened(add, t.root, i, units))
        /\ due' = (due \ {id}) \cup {Len(trades) + 1}
        /\ UNCHANGED <<config, i, candle, following, equity, signalled>>

Continue(id) == \E weak \in BOOLEAN, atr \in Atrs, units \in Units :
    LET t == Judged(id, weak)
        add == Continuation(t, candle, atr)
    IN  /\ IsNext(id) /\ IsOpen(t) /\ MayContinue(id, t) /\ RunsOn(t, candle, atr)
        /\ units \in Sizing(equity, add)
        /\ trades' = Append([trades EXCEPT ![id] = [t EXCEPT !.spawned = TRUE]],
                            Opened(add, t.root, i, units))
        /\ due' = due \ {id}
        /\ UNCHANGED <<config, i, candle, following, equity, signalled>>

\* Mutant: a trade that took its first target no longer blocks.
BlockedWhileAtRisk == config.oneTradeAtTime /\ \E id \in Ids : trades[id].state = "open"

Blocked == config.oneTradeAtTime /\ OpenTrades # {}
Touched(p, c) == c.low <= p.entry /\ p.entry <= c.high

\* No candidate passes, its plan has no side or is not touched, the delayed
\* entry has no candle, or nothing can be sized: the replay goes on.
NoSignal ==
    /\ due = {} /\ NextCandle
    /\ UNCHANGED <<config, trades, equity>>

TakeSignal(p) == \E units \in Units :
    /\ due = {} /\ ~signalled /\ ~Blocked
    /\ Touched(p, candle) /\ (config.delayed => i < Bars)
    /\ units \in Sizing(equity, Executed(p))
    /\ trades' = Append(trades, Opened(Executed(p), Len(trades) + 1,
                                       IF config.delayed THEN i + 1 ELSE i, units))
    /\ signalled' = TRUE
    /\ UNCHANGED <<config, i, candle, following, due, equity>>

Next ==
    \/ NoSignal
    \/ \E p \in Plans : TakeSignal(p)
    \/ \E id \in due : SettleTrade(id) \/ HoldTrade(id) \/ Continue(id)

Spec == Init /\ [][Next]_vars

-----------------------------------------------------------------------------
(* Properties.                                                             *)

Trade == [side : Sides, entry : Int, stop : Int, tp1 : Int, tp2 : Int,
          early : BOOLEAN, grade : {"A", "B"}, units : Nat, left : Nat, root : Nat,
          openedAt : Nat, state : {"open", "partial", "closed"}, half : BOOLEAN,
          spawned : BOOLEAN, risk : Nat, fees : Nat, realized : Int,
          outcome : {"none", "stop", "tp2", "partial_then_stop", "time_exit"}]

\* The replay's state is well typed, and what is due is open.
TypeOK ==
    /\ config \in [oneTradeAtTime : BOOLEAN, expansion : BOOLEAN,
                   realism : BOOLEAN, delayed : BOOLEAN]
    /\ i \in Nat /\ candle \in Candles /\ following \in Candles
    /\ trades \in Seq(Trade) /\ due \subseteq OpenTrades
    /\ equity \in Int /\ signalled \in BOOLEAN

Gross(t) == t.realized + t.fees

Bounded(t) == Gross(t) >= -t.risk

Pays(t) == t.half /\ Gain(t, t.tp2) >= 0 => Gross(t) >= Pnl(t, t.tp1, t.units)

Explained(t) ==
    LET entryFee == TakerFee(t.entry, 2 * t.units)
        first == Pnl(t, t.tp1, t.units)
        firstFee == TakerFee(t.tp1, t.units)
    IN  /\ t.left = 0
        /\ t.outcome = "stop" =>
             ~t.half /\ Gross(t) = -t.risk
             /\ t.fees = entryFee + TakerFee(t.stop, 2 * t.units)
        /\ t.outcome = "partial_then_stop" =>
             t.half /\ Gross(t) = first
             /\ t.fees = entryFee + firstFee + TakerFee(t.entry, t.units)
        /\ t.outcome = "tp2" =>
             t.half /\ Gross(t) = first + Pnl(t, t.tp2, t.units)
             /\ t.fees = entryFee + firstFee + TakerFee(t.tp2, t.units)

\* Whatever the candles do, a trade loses at most the risk it was sized with,
\* fees apart: an early exit or a stop after a partial exit never costs more
\* (processTradeOnCandle against resolvePositionSizing).
LossBounded == \A id \in Ids : Bounded(trades[id])

\* After the first target the other half gives nothing of it back: its stop is
\* the entry, and no exit that remains is behind it.
FirstTargetPays == \A id \in Ids : Pays(trades[id])

\* The profit and the fees of a closed trade follow from its outcome and its
\* levels alone, along whichever candles it got there; a trade that reached
\* its second target banked the first.
ClosedExplained == \A id \in Ids : ~IsOpen(trades[id]) => Explained(trades[id])

\* A signal is added to at most once, and only when the trade it opened can no
\* longer lose: two trades of one signal are never both short of their first
\* target (existingContinuation, canSpawnPersonalContinuation).
OneAtRisk == \A a, b \in Ids :
    a < b /\ trades[a].root = trades[b].root =>
        /\ trades[a].root = a /\ trades[a].half
        /\ \A c \in Ids : c > a /\ trades[c].root = a => c = b

\* With oneTradeAtTime every open trade belongs to one signal, though a
\* continuation may outlive the trade it was added to.
OneSignalAtATime ==
    config.oneTradeAtTime => \A a, b \in OpenTrades : trades[a].root = trades[b].root

\* A trade is never judged on the candle whose close it was entered on, and a
\* delayed one not before the candle at whose open it is filled.
JudgedLater ==
    [][\A id \in Ids : trades'[id] # trades[id] =>
          LET t == trades[id] IN
          IF config.delayed /\ t.root = id THEN i >= t.openedAt ELSE i > t.openedAt]_vars

\* Trades are entered once and settled once, and the equity moves by what was
\* settled and nothing else (equity += state.closed.pnl).
LedgerOfReplay == INSTANCE Ledger WITH
    held <- OpenTrades,
    settled <- [id \in Ids \ OpenTrades |-> trades[id].realized],
    balance <- equity
LedgerSpec == LedgerOfReplay!Spec
=============================================================================
