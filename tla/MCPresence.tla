----------------------------- MODULE MCPresence -----------------------------
(***************************************************************************)
(* An instance of Presence for TLC: one person with two devices, at two    *)
(* processes.  The first device comes and goes at a process that goes on,   *)
(* sweeps, and whose clients are watched; the second one stays connected to *)
(* a process where everything may fail.                                     *)
(***************************************************************************)
EXTENDS Presence

CONSTANTS u1, s1, s2, i1, i2, r1, r2

MCUsers == {u1}
MCSockets == {s1, s2}
MCInstances == {i1, i2}
MCHandlers == {r1, r2}
MCOwner == [s \in MCSockets |-> u1]
MCHome == [s \in MCSockets |-> IF s = s1 THEN i1 ELSE i2]
MCClosers == {s1}
MCFaulty == {i2}
MCWatchers == {i1}
=============================================================================
