---------------------------- MODULE MCMembership ----------------------------
(***************************************************************************)
(* An instance of Membership for TLC: two people around one organization,   *)
(* racing for a personal workspace as well.                                *)
(***************************************************************************)
EXTENDS Membership, TLC

CONSTANTS u1, u2, w1, p1, r1, r2

MCUsers == {u1, u2}
MCOrgIds == {w1}
MCPersonalIds == {p1}
MCRequests == {r1, r2}
MCInviteRoles == {"ADMIN"}

Body(role, status) == [role |-> role, status |-> status]

(* Try to make an owner, suspend, reactivate with a demotion. *)
MCUpdateBodies == {Body("OWNER", NoRole), Body(NoRole, "SUSPENDED"), Body("MEMBER", "ACTIVE")}

MCSymmetry == Permutations(MCUsers) \cup Permutations(MCRequests)
=============================================================================
