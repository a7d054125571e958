-------------------------------- MODULE Prices --------------------------------
(***************************************************************************)
(* Candles, sides and the levels of a plan: what the strategies and the    *)
(* engine that replays their plans have in common.                         *)
(***************************************************************************)
EXTENDS Integers

Sides == {"LONG", "SHORT"}
Candle == [open : Nat, low : Nat, high : Nat, close : Nat]

WellFormed(c) == /\ 0 < c.low /\ c.low <= c.open /\ c.open <= c.high
                 /\ c.low <= c.close /\ c.close <= c.high

Abs(x) == IF x < 0 THEN -x ELSE x

\* a is at least as far as b in the direction of the trade.
Past(side, a, b) == IF side = "LONG" THEN a >= b ELSE a <= b

\* The stop is behind the entry, the targets are ahead of it, in their order.
WellPlanned(p) == /\ p.entry # p.stop /\ p.tp1 # p.entry
                  /\ Past(p.side, p.entry, p.stop) /\ Past(p.side, p.tp1, p.entry)
                  /\ Past(p.side, p.tp2, p.tp1)
=============================================================================
