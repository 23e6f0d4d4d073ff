------------------------------- MODULE MCChat -------------------------------
(***************************************************************************)
(* Instances of Chat for TLC: a DM (MCChat.cfg) and a group of three       *)
(* (MCChatGroup.cfg).                                                      *)
(***************************************************************************)
EXTENDS Chat, TLC

CONSTANTS u1, u2, u3, k1, r1, r2

MCPair == {u1, u2}
MCTrio == {u1, u2, u3}
MCClientIds == {k1}
MCKeyed == {k1}
MCEither == {k1, NoClientId}
MCNobody == {}
MCMover == {u3}
MCHider == {u1}
MCRequests == {r1, r2}

MCPairSymmetry == Permutations(MCPair) \cup Permutations(MCRequests)
MCRequestSymmetry == Permutations(MCRequests)
=============================================================================
