---------------------------- MODULE MCAgentSystem ----------------------------
(* Small instances of AgentSystem for TLC.                                 *)
EXTENDS AgentSystem

CONSTANTS r1, u1, u2

MCPasses == {r1}
MCUUIDs == <<u1, u2>>

\* What the machine boots and what the state file says cannot drift apart.
MCSafeSetups == {[save |-> TRUE, persistent |-> TRUE],
                 [save |-> FALSE, persistent |-> FALSE]}

\* Two outages in a row matter most where both the boot configuration and the
\* state file survive them.
MCOutages == [s \in MCSafeSetups |-> IF s.save THEN 2 ELSE 1]

\* agent.state_file on a persistent path, save_after_commit left at its default.
MCUnsavedSetup == {[save |-> FALSE, persistent |-> TRUE]}
MCOneOutage == [s \in MCUnsavedSetup |-> 1]
=============================================================================
