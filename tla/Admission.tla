------------------------------ MODULE Admission ------------------------------
(***************************************************************************)
(* What the execution core promises about idempotency keys: a key is       *)
(* reserved once, for one command; only the command a key is reserved for  *)
(* is ever admitted; neither is ever taken back.                           *)
(***************************************************************************)
CONSTANTS Commands, Keys, KeyOf, None

VARIABLES
    owner,      \* the command each key is reserved for
    admitted    \* the commands taken into the queue, finished ones included

Init ==
    /\ owner = [k \in Keys |-> None]
    /\ admitted = {}

Reserve(c) ==
    /\ owner[KeyOf[c]] = None
    /\ owner' = [owner EXCEPT ![KeyOf[c]] = c]
    /\ UNCHANGED admitted

Admit(c) ==
    /\ owner[KeyOf[c]] = c
    /\ admitted' = admitted \cup {c}
    /\ UNCHANGED owner

Next == \E c \in Commands : Reserve(c) \/ Admit(c)

Spec == Init /\ [][Next]_<<owner, admitted>>
=============================================================================
