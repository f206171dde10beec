------------------------------ MODULE MCRuntime ------------------------------
(* Small instances of Runtime for TLC.                                     *)
EXTENDS Runtime
CONSTANTS r1, r2, c1
MCPasses == {r1, r2}
MCClosers == {c1}
=============================================================================
