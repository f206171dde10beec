----------------------------- MODULE MCFileStore -----------------------------
(* A small instance of FileStore for TLC.                                  *)
EXTENDS FileStore, TLC
CONSTANTS s1, s2, s3
MCStates == {s1, s2, s3}

\* States are interchangeable.
MCSymmetry == Permutations(MCStates)
=============================================================================
