------------------------ MODULE MCConfigureService ------------------------
(* Small instances of ConfigureService for TLC.                            *)
EXTENDS ConfigureService, TLC

CONSTANTS p1, p2, blank, t1, t2, u1, u2, u3

MCProcs == {p1, p2}
MCOwnTarget == {t1}
MCAnyTarget == {t1, t2}
MCUUIDs2 == {u1, u2}
MCUUIDs3AndBlank == {u1, u2, u3, blank}

\* Goroutines and UUIDs are interchangeable: no definition orders or names them.
MCSymmetry == Permutations(MCProcs) \cup Permutations({u1, u2, u3})
=============================================================================
