----------------------------- MODULE DurableSync -----------------------------
(***************************************************************************)
(* What the agent promises the controller across restarts of the process   *)
(* and of the machine.  Between reboots it is DesiredSync; a reboot takes  *)
(* the device back to its boot configuration, and a checkpoint survives it *)
(* only where commits are saved.  A success is reported for what the       *)
(* device runs and the checkpoint names, and then for nothing the machine  *)
(* would not boot with.                                                    *)
(***************************************************************************)
CONSTANTS Nothing, NoCheckpoint, Name(_)   \* see DesiredSync

VARIABLES
    desirable, running, checkpoint,   \* see DesiredSync
    durable,    \* whether commits are saved to the boot configuration
    bootable,   \* the configuration the machine would boot with
    answered    \* the configurations reported as a success

vars == <<desirable, running, checkpoint, durable, bootable, answered>>

Sync == INSTANCE DesiredSync

Init ==
    /\ Sync!Init
    /\ durable \in BOOLEAN
    /\ bootable = Nothing
    /\ answered = {}

Desire == Sync!Desire /\ UNCHANGED <<durable, bootable, answered>>

\* A commit may also have been saved.
Commit ==
    /\ Sync!Commit
    /\ UNCHANGED bootable \/ (durable /\ bootable' = running')
    /\ UNCHANGED <<durable, answered>>

\* What the machine runs, and would run again, is remembered and reported.
Settled == durable => bootable = running

Remember == Sync!Remember /\ Settled /\ UNCHANGED <<durable, bootable, answered>>

Answer ==
    /\ checkpoint = Name(running) /\ Settled
    /\ answered' = answered \cup {running}
    /\ UNCHANGED <<desirable, running, checkpoint, durable, bootable>>

Reboot ==
    /\ running' = bootable
    /\ checkpoint' = NoCheckpoint \/ (durable /\ UNCHANGED checkpoint)
    /\ UNCHANGED <<desirable, durable, bootable, answered>>

Next == Desire \/ Commit \/ Remember \/ Answer \/ Reboot

Spec == Init /\ [][Next]_vars
=============================================================================
