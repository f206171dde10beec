----------------------------- MODULE AtomicStore -----------------------------
(***************************************************************************)
(* What the checkpoint store promises to the configure service: a state    *)
(* is replaced as a whole or not at all, and a power loss leaves one of    *)
(* the states that were stored, never anything else.                       *)
(***************************************************************************)
CONSTANTS
    States,   \* what is stored
    Empty     \* what a store that was never written holds

VARIABLES
    stored,     \* what a reader finds now
    possible    \* what a reader may find after a power loss

vars == <<stored, possible>>

Init ==
    /\ stored = Empty
    /\ possible = {Empty}

\* Another state takes the place of the stored one; the power loss may undo it.
Replace ==
    /\ stored' \in States
    /\ stored' \in possible'
    /\ possible' \subseteq possible \cup {stored'}

\* Fewer states may come back: older ones are gone from stable storage.
Settle ==
    /\ stored \in possible'
    /\ possible' \subseteq possible
    /\ UNCHANGED stored

\* The power is lost.
Lose ==
    /\ stored' \in possible
    /\ possible' = {stored'}

Next == Replace \/ Settle \/ Lose

Spec == Init /\ [][Next]_vars
=============================================================================
