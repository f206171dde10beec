------------------------------ MODULE MCEngines ------------------------------
(* A small instance of Engines for TLC.                                    *)
EXTENDS Engines

\* A field of another type is treated as one that is not there.
MCFields == {"text", "null", "absent"}
=============================================================================
