------------------------------ MODULE Position -------------------------------
(***************************************************************************)
(* What a paper trade promises its bookkeeping: a position is entered      *)
(* whole and with nothing banked; it is sold in at most two parts, and     *)
(* money is banked only where something is sold; once nothing is left it   *)
(* is never touched again.  Only positions with something left may be      *)
(* dropped.                                                                *)
(***************************************************************************)
EXTENDS Integers

VARIABLE book   \* size, what is left and what was banked, of each position

Init == book = [t \in {} |-> 0]

Enter(t) ==
    /\ DOMAIN book' = DOMAIN book \cup {t}
    /\ \A u \in DOMAIN book : book'[u] = book[u]
    /\ book'[t].left = book'[t].size /\ book'[t].left > 0 /\ book'[t].banked = 0

\* A part may be left once.
Sell(t) ==
    /\ DOMAIN book' = DOMAIN book
    /\ \A u \in DOMAIN book \ {t} : book'[u] = book[u]
    /\ book'[t].size = book[t].size
    /\ 0 <= book'[t].left /\ book'[t].left < book[t].left
    /\ book'[t].left > 0 => book[t].left = book[t].size

Drop ==
    /\ DOMAIN book' \subseteq DOMAIN book
    /\ \A u \in DOMAIN book' : book'[u] = book[u]
    /\ \A u \in DOMAIN book \ DOMAIN book' : book[u].left > 0

Next == \/ \E t \in DOMAIN book' \ DOMAIN book : Enter(t)
        \/ \E t \in DOMAIN book : Sell(t)
        \/ Drop

Spec == Init /\ [][Next]_book
=============================================================================
