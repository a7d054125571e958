-------------------------------- MODULE Ledger --------------------------------
(***************************************************************************)
(* What a replay owes its report: a trade is entered once and settled      *)
(* once, later, and the balance changes by exactly what was settled.       *)
(***************************************************************************)
EXTENDS Integers

CONSTANT InitialBalance

VARIABLES
    held,       \* trades entered and not settled
    settled,    \* the profit each settled trade was settled with
    balance

Init == held = {} /\ settled = [t \in {} |-> 0] /\ balance = InitialBalance

Enter(t) ==
    /\ t \notin DOMAIN settled
    /\ held' = held \cup {t}
    /\ UNCHANGED <<settled, balance>>

Settle(t) ==
    /\ t \notin DOMAIN settled
    /\ held' = held \ {t}
    /\ DOMAIN settled' = DOMAIN settled \cup {t}
    /\ \A u \in DOMAIN settled : settled'[u] = settled[u]
    /\ balance' = balance + settled'[t]

Next == \/ \E t \in held' \ held : Enter(t)
        \/ \E t \in held \ held' : Settle(t)

Spec == Init /\ [][Next]_<<held, settled, balance>>
=============================================================================
