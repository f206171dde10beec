----------------------------- MODULE DesiredSync -----------------------------
(***************************************************************************)
(* What the configure service promises, whatever runs concurrently and     *)
(* whatever fails: of the configurations ever desired, the device runs     *)
(* newer and newer ones, never the one already checkpointed again, and     *)
(* only the configuration the device runs is ever checkpointed.            *)
(***************************************************************************)
EXTENDS Naturals

CONSTANTS
    Nothing,         \* no configuration: revision 0
    NoCheckpoint,    \* no checkpoint
    Name(_)          \* what a checkpoint keeps of a configuration

VARIABLES
    desirable,   \* every configuration ever desired
    running,     \* the configuration the device runs
    checkpoint   \* what the agent remembers of it across restarts

vars == <<desirable, running, checkpoint>>

Init ==
    /\ desirable = {}
    /\ running = Nothing
    /\ checkpoint = NoCheckpoint

\* A configuration is desired, newer than all before it.
Desire ==
    /\ \E e \in desirable' :
          /\ desirable' = desirable \cup {e}
          /\ \A f \in desirable : f.rev < e.rev
    /\ UNCHANGED <<running, checkpoint>>

\* The device moves on to a desired configuration that is not checkpointed.
Commit ==
    /\ running' \in desirable
    /\ running'.rev >= running.rev
    /\ running'.uuid # checkpoint.uuid
    /\ UNCHANGED <<desirable, checkpoint>>

\* The agent records what the device runs.
Remember ==
    /\ running # Nothing
    /\ checkpoint' = Name(running)
    /\ UNCHANGED <<desirable, running>>

Next == Desire \/ Commit \/ Remember

Spec == Init /\ [][Next]_vars
=============================================================================
