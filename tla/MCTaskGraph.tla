----------------------------- MODULE MCTaskGraph -----------------------------
(***************************************************************************)
(* Instances of TaskGraph for TLC.                                         *)
(***************************************************************************)
EXTENDS TaskGraph, TLC

CONSTANTS t1, t2, t3, p1, p2, r1, r2

MCThree == {t1, t2, t3}
MCProjects == {p1, p2}
MCOneProject == {p1}
MCRequests == {r1, r2}

MCSymmetry == Permutations(MCThree) \cup Permutations(MCProjects) \cup Permutations(MCRequests)
=============================================================================
