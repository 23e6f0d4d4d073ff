----------------------------- MODULE Membership -----------------------------
(***************************************************************************)
(* Workspaces, memberships and invitations.                                *)
(*                                                                         *)
(*   src/src/workspaces/workspaces.service.ts                              *)
(*   src/src/workspaces/workspace-access.service.ts                        *)
(*   src/src/workspaces/workspace-members.service.ts                       *)
(*   src/src/invitations/invitations.service.ts                            *)
(*                                                                         *)
(* A request occupies a slot of `req` from its first read to its last      *)
(* write and stops at every await whose result it uses later; the requests *)
(* of the other slots run in between.  What it read travels with it, as    *)
(* the local variables of the handler do.  A MongoDB transaction shows     *)
(* nothing before it commits and TransactionRunner.run repeats it after a  *)
(* conflict of writes: it is one step when its outcome hangs on what it    *)
(* writes alone, and a first read and a commit when it also reads what it  *)
(* does not write (accept).  The parallel finds of `resolve` are one step. *)
(*                                                                         *)
(* An email address and its account are the same value here: an invitation *)
(* names the user it is addressed to.  Names, titles, avatars and events   *)
(* are left out.  What a removal does to project memberships and tasks is  *)
(* in module TaskFields.                                                   *)
(***************************************************************************)
EXTENDS Permissions, FiniteSets

CONSTANTS
  Users,          \* accounts
  NoUser,         \* "no account"
  OrgIds,         \* ids the organization workspaces may get
  PersonalIds,    \* ids the personal workspaces may get
  Requests,       \* request slots: how many requests may be in flight
  MaxInvites,     \* bound: invitations ever created
  InviteRoles,    \* bound: the roles a client invites with
  UpdateBodies    \* bound: the bodies [role, status] a client sends to update a member

ASSUME MembershipAssumption ==
  /\ NoUser \notin Users
  /\ OrgIds \cap PersonalIds = {}
  /\ MaxInvites \in Nat
  /\ InviteRoles \subseteq WorkspaceRole
  /\ UpdateBodies \subseteq [role   : WorkspaceRole \cup {NoRole},
                             status : {"ACTIVE", "SUSPENDED", NoRole}]

VARIABLES
  ws,       \* workspaces collection: [state, owner] of every id
  member,   \* workspace_members: the row of (workspace, user), or NoMember
  inv,      \* workspace_invitations, numbered in order of creation
  req       \* what each request slot is doing

vars == <<ws, member, inv, req>>

Workspaces == OrgIds \cup PersonalIds
InviteIds  == 1 .. MaxInvites

-----------------------------------------------------------------------------
(* Documents. *)

MemberStatus     == {"ACTIVE", "SUSPENDED"}
InvitationStatus == {"PENDING", "ACCEPTED", "DECLINED", "CANCELLED", "EXPIRED"}

(* `id` stands for the row's _id, fresh at every insertion: the number of  *)
(* the accepted invitation, 0 for the owner's row.                         *)
MemberRow == [id     : Nat,
              role   : WorkspaceRole \cup {NoRole},
              status : MemberStatus \cup {NoRole}]

NoMember == [id |-> 0, role |-> NoRole, status |-> NoRole]

(* deletedAt makes a workspace DELETED; it is never removed. *)
WorkspaceDoc == [state : {"ABSENT", "LIVE", "DELETED"},
                 owner : Users \cup {NoUser}]

(* `lapsed`: expiresAt has passed. *)
Invitation == [ws     : Workspaces \cup {NoUser},
               user   : Users \cup {NoUser},
               role   : WorkspaceRole \cup {NoRole},
               status : InvitationStatus \cup {"NONE"},
               lapsed : BOOLEAN]

(* A number not given out yet. *)
NoInvitation == [ws |-> NoUser, user |-> NoUser, role |-> NoRole,
                 status |-> "NONE", lapsed |-> FALSE]

InvitableRoles == WorkspaceRole \ {"OWNER"}

Exists(row)      == row.role # NoRole
Issued(i)        == inv[i].status # "NONE"
Pending(i)       == inv[i].status = "PENDING"

(* The slip of forgetting assertOrganization. *)
MutNoTypeCheck(w) == FALSE

IsPersonal(w) == w \in PersonalIds

-----------------------------------------------------------------------------
(* Requests. *)

RequestPc ==
  {"idle", "ensure:insert",
   "invite:membership", "invite:expire", "invite:insert",
   "cancel:read", "cancel:write", "accept:commit", "answer:reject",
   "update:target", "update:write",
   "remove:target", "remove:delete", "delete:write"}

(* by, ws: caller and workspace.  role: the caller's role as `resolve`     *)
(* read it.  user, target: the member acted on and the _id read for it.    *)
(* newRole, newStatus: the body, NoRole when the field is not sent.  A     *)
(* field the rest of the handler does not use keeps its null value.        *)
Request == [pc        : RequestPc,
            by        : Users \cup {NoUser},
            ws        : Workspaces \cup {NoUser},
            role      : WorkspaceRole \cup {NoRole},
            user      : Users \cup {NoUser},
            target    : Nat,
            newRole   : WorkspaceRole \cup {NoRole},
            newStatus : MemberStatus \cup {NoRole},
            inv       : Nat]

NoRequest == [pc |-> "idle", by |-> NoUser, ws |-> NoUser, role |-> NoRole,
              user |-> NoUser, target |-> 0,
              newRole |-> NoRole, newStatus |-> NoRole, inv |-> 0]

Idle(s) == req[s].pc = "idle"
At(s, pc) == req[s].pc = pc

Goto(s, pc) == req' = [req EXCEPT ![s].pc = pc]

(* The request is answered, with a result or with an error. *)
Done(s) == req' = [req EXCEPT ![s] = NoRequest]

-----------------------------------------------------------------------------
(* WorkspaceAccessService: resolve and authorize. *)

Resolves(u, w) ==
  /\ ws[w].state = "LIVE"
  /\ member[w][u].status = "ACTIVE"

Authorized(u, w, permission) ==
  /\ Resolves(u, w)
  /\ RoleHasPermission(member[w][u].role, permission)

-----------------------------------------------------------------------------
(* WorkspacesService. *)

(* insertWithOwner: the workspace and its OWNER membership, one            *)
(* transaction.                                                            *)
InsertWithOwner(w, u) ==
  /\ ws[w].state = "ABSENT"
  /\ ws' = [ws EXCEPT ![w] = [state |-> "LIVE", owner |-> u]]
  /\ member' = [member EXCEPT ![w][u] =
                  [id |-> 0, role |-> "OWNER", status |-> "ACTIVE"]]

CreateOrganization(u) ==
  /\ \E w \in OrgIds : InsertWithOwner(w, u)
  /\ UNCHANGED <<inv, req>>

PersonalOf(u) == {w \in PersonalIds : ws[w].owner = u}

(* ensurePersonalWorkspace: look first (the last conjunct is the bound), ... *)
EnsurePersonalFind(s, u) ==
  /\ Idle(s)
  /\ PersonalOf(u) = {}
  /\ Cardinality({t \in Requests : At(t, "ensure:insert")})
       < Cardinality({w \in PersonalIds : ws[w].state = "ABSENT"})
  /\ req' = [req EXCEPT ![s] = [NoRequest EXCEPT !.pc = "ensure:insert", !.by = u]]
  /\ UNCHANGED <<ws, member, inv>>

OwnerSlotTaken(u) == PersonalOf(u) # {}

(* ... then insert; the partial unique index {owner, type: PERSONAL} turns *)
(* the loser of a race into a second read.                                 *)
EnsurePersonalInsert(s) ==
  /\ At(s, "ensure:insert")
  /\ \/ /\ ~OwnerSlotTaken(req[s].by)
        /\ \E w \in PersonalIds : InsertWithOwner(w, req[s].by)
     \/ /\ OwnerSlotTaken(req[s].by)
        /\ UNCHANGED <<ws, member>>
  /\ Done(s)
  /\ UNCHANGED inv

(* remove: soft delete, organizations only.                                *)
DeleteAuthorize(s, u, w) ==
  /\ Idle(s)
  /\ Authorized(u, w, "workspace:delete")
  /\ ~IsPersonal(w)
  /\ req' = [req EXCEPT ![s] =
               [NoRequest EXCEPT !.pc = "delete:write", !.ws = w]]
  /\ UNCHANGED <<ws, member, inv>>

DeleteWrite(s) ==
  /\ At(s, "delete:write")
  /\ ws' = [ws EXCEPT ![req[s].ws].state = "DELETED"]
  /\ Done(s)
  /\ UNCHANGED <<member, inv>>

-----------------------------------------------------------------------------
(* InvitationsService. *)

(* expireStale(filter), S being what the filter matches. *)
ExpireStale(S) ==
  inv' = [i \in InviteIds |->
            IF i \in S /\ Pending(i) /\ inv[i].lapsed
            THEN [inv[i] EXCEPT !.status = "EXPIRED"]
            ELSE inv[i]]

Inviting == {s \in Requests : req[s].pc \in {"invite:membership", "invite:expire", "invite:insert"}}

(* create: permission, type and rank.  The last conjunct is the bound.     *)
InviteAuthorize(s, u, w, invitee, role) ==
  /\ Idle(s)
  /\ Authorized(u, w, "member:invite")
  /\ ~IsPersonal(w)
  /\ role \in InvitableRoles
  /\ CanManageRole(member[w][u].role, role)
  /\ Cardinality(Inviting) < Cardinality({i \in InviteIds : ~Issued(i)})
  /\ req' = [req EXCEPT ![s] =
               [NoRequest EXCEPT !.pc = "invite:membership", !.ws = w,
                                 !.user = invitee, !.newRole = role]]
  /\ UNCHANGED <<ws, member, inv>>

(* create: a member in any status is refused, *)
InviteMembership(s) ==
  /\ At(s, "invite:membership")
  /\ IF Exists(member[req[s].ws][req[s].user])
     THEN Done(s)
     ELSE Goto(s, "invite:expire")
  /\ UNCHANGED <<ws, member, inv>>

(* create: a lapsed invitation frees the slot of the unique index, *)
InviteExpire(s) ==
  /\ At(s, "invite:expire")
  /\ ExpireStale({i \in InviteIds : inv[i].ws = req[s].ws /\ inv[i].user = req[s].user})
  /\ Goto(s, "invite:insert")
  /\ UNCHANGED <<ws, member>>

PendingFor(w, u) ==
  {i \in InviteIds : Pending(i) /\ inv[i].ws = w /\ inv[i].user = u}

PendingSlotTaken(w, u) == PendingFor(w, u) # {}

(* create: the insert, refused by the partial unique index {workspace,     *)
(* email, status: PENDING}.                                                *)
InviteInsert(s) ==
  /\ At(s, "invite:insert")
  /\ IF PendingSlotTaken(req[s].ws, req[s].user)
     THEN UNCHANGED inv
     ELSE \E i \in InviteIds :
            /\ ~Issued(i)
            /\ \A j \in InviteIds : j < i => Issued(j)
            /\ inv' = [inv EXCEPT ![i] =
                         [ws |-> req[s].ws, user |-> req[s].user,
                          role |-> req[s].newRole,
                          status |-> "PENDING", lapsed |-> FALSE]]
  /\ Done(s)
  /\ UNCHANGED <<ws, member>>

(* listForWorkspace and searchInvitees expire what lapsed in the           *)
(* workspace, listMine and findMine what lapsed for the caller.  Both are  *)
(* one step: expiring is idempotent and uses nothing read before.          *)
ListForWorkspace(u, w) ==
  /\ Authorized(u, w, "member:invite")
  /\ ExpireStale({i \in InviteIds : inv[i].ws = w})
  /\ UNCHANGED <<ws, member, req>>

ListMine(u) ==
  /\ ExpireStale({i \in InviteIds : inv[i].user = u})
  /\ UNCHANGED <<ws, member, req>>

(* cancel: permission, *)
CancelAuthorize(s, u, w, i) ==
  /\ Idle(s)
  /\ Issued(i)
  /\ Authorized(u, w, "member:invite")
  /\ req' = [req EXCEPT ![s] =
               [NoRequest EXCEPT !.pc = "cancel:read", !.ws = w,
                                 !.role = member[w][u].role, !.inv = i]]
  /\ UNCHANGED <<ws, member, inv>>

InvitationIn(i, w) == inv[i].ws = w /\ Pending(i)

(* cancel: the rank of the pending invitation, if there is one, *)
CancelRead(s) ==
  /\ At(s, "cancel:read")
  /\ IF /\ InvitationIn(req[s].inv, req[s].ws)
        /\ ~CanManageRole(req[s].role, inv[req[s].inv].role)
     THEN Done(s)
     ELSE Goto(s, "cancel:write")
  /\ UNCHANGED <<ws, member, inv>>

(* cancel: PENDING to CANCELLED, or "Pending invitation not found". *)
CancelWrite(s) ==
  /\ At(s, "cancel:write")
  /\ IF InvitationIn(req[s].inv, req[s].ws)
     THEN inv' = [inv EXCEPT ![req[s].inv].status = "CANCELLED"]
     ELSE UNCHANGED inv
  /\ Done(s)
  /\ UNCHANGED <<ws, member>>

(* claimPending's filter. *)
Claimable(i, u) ==
  /\ inv[i].user = u
  /\ Pending(i)
  /\ ~inv[i].lapsed

(* The slip of an upsert. *)
MutUpsertMember(w, u, row) == member' = [member EXCEPT ![w][u] = row]

(* addMember, refused by the unique index {workspace, user}. *)
AddMember(w, u, row) ==
  /\ ~Exists(member[w][u])
  /\ member' = [member EXCEPT ![w][u] = row]

(* accept, one transaction: it claims the invitation and sees the workspace *)
(* as both were at its first read, ...                                     *)
AcceptBegin(s, u, i) ==
  /\ Idle(s)
  /\ Claimable(i, u)
  /\ ws[inv[i].ws].state = "LIVE"
  /\ req' = [req EXCEPT ![s] =
               [NoRequest EXCEPT !.pc = "accept:commit", !.inv = i]]
  /\ UNCHANGED <<ws, member, inv>>

(* ... commits claim and membership together, is aborted by an existing    *)
(* membership, which leaves the invitation PENDING, and is run again, with *)
(* nothing to claim, when the invitation was closed meanwhile.  Deleting   *)
(* the workspace does not conflict with it.                                *)
AcceptCommit(s) ==
  LET i == req[s].inv
      w == inv[i].ws
      u == inv[i].user
  IN /\ At(s, "accept:commit")
     /\ \/ /\ Pending(i)
           /\ AddMember(w, u, [id |-> i, role |-> inv[i].role, status |-> "ACTIVE"])
           /\ inv' = [inv EXCEPT ![i].status = "ACCEPTED"]
           /\ Done(s)
        \/ /\ Pending(i)
           /\ Exists(member[w][u])
           /\ Done(s)
           /\ UNCHANGED <<member, inv>>
        \/ /\ ~Pending(i)
           /\ Goto(s, "answer:reject")
           /\ UNCHANGED <<member, inv>>
     /\ UNCHANGED ws

(* accept: an invitation to a workspace deleted before is cancelled.       *)
AcceptDeleted(u, i) ==
  /\ Claimable(i, u)
  /\ ws[inv[i].ws].state # "LIVE"
  /\ inv' = [inv EXCEPT ![i].status = "CANCELLED"]
  /\ UNCHANGED <<ws, member, req>>

Decline(u, i) ==
  /\ Claimable(i, u)
  /\ inv' = [inv EXCEPT ![i].status = "DECLINED"]
  /\ UNCHANGED <<ws, member, req>>

(* accept and decline of something that could not be claimed: *)
AnswerUnclaimable(s, u, i) ==
  /\ Idle(s)
  /\ Issued(i)
  /\ inv[i].user = u
  /\ ~Claimable(i, u)
  /\ req' = [req EXCEPT ![s] =
               [NoRequest EXCEPT !.pc = "answer:reject", !.inv = i]]
  /\ UNCHANGED <<ws, member, inv>>

(* rejectUnclaimable: expires it if it lapsed, then answers with an error. *)
RejectUnclaimable(s) ==
  /\ At(s, "answer:reject")
  /\ ExpireStale({req[s].inv})
  /\ Done(s)
  /\ UNCHANGED <<ws, member>>

(* The clock: expiresAt passes. *)
Lapse(i) ==
  /\ Pending(i)
  /\ inv' = [inv EXCEPT ![i].lapsed = TRUE]
  /\ UNCHANGED <<ws, member, req>>

-----------------------------------------------------------------------------
(* WorkspaceMembersService. *)

(* findManageableMember, on a caller whose role was read as `role`.        *)
Manageable(w, by, role, user) ==
  /\ ~IsPersonal(w)
  /\ user # by
  /\ Exists(member[w][user])
  /\ CanManageRole(role, member[w][user].role)

(* update: permission, *)
UpdateAuthorize(s, u, w, user, body) ==
  /\ Idle(s)
  /\ Authorized(u, w, "member:update")
  /\ req' = [req EXCEPT ![s] =
               [NoRequest EXCEPT !.pc = "update:target", !.by = u, !.ws = w,
                                 !.role = member[w][u].role, !.user = user,
                                 !.newRole = body.role, !.newStatus = body.status]]
  /\ UNCHANGED <<ws, member, inv>>

(* update: the target and the role to grant must rank below the caller's   *)
(* role, as read above; a role equal to the target's is not checked.       *)
UpdateTarget(s) ==
  LET r == req[s]
      target == member[r.ws][r.user]
  IN /\ At(s, "update:target")
     /\ IF /\ Manageable(r.ws, r.by, r.role, r.user)
           /\ \/ r.newRole \in {NoRole, target.role}
              \/ CanManageRole(r.role, r.newRole)
        THEN req' = [req EXCEPT ![s].pc = "update:write", ![s].role = NoRole,
                                ![s].target = target.id]
        ELSE Done(s)
     /\ UNCHANGED <<ws, member, inv>>

SetIfSent(old, new) == IF new = NoRole THEN old ELSE new

(* The slip of addressing the membership by workspace and user. *)
MutMatchesUser(row, id) == Exists(row)

(* The filter {_id}. *)
Matches(row, id) == Exists(row) /\ row.id = id

(* update: findByIdAndUpdate on the id read, whatever the row says now. *)
UpdateWrite(s) ==
  LET r == req[s]
      row == member[r.ws][r.user]
  IN /\ At(s, "update:write")
     /\ IF Matches(row, r.target)
        THEN member' = [member EXCEPT ![r.ws][r.user] =
                          [row EXCEPT !.role   = SetIfSent(row.role, r.newRole),
                                      !.status = SetIfSent(row.status, r.newStatus)]]
        ELSE UNCHANGED member
     /\ Done(s)
     /\ UNCHANGED <<ws, inv>>

(* remove of oneself: anyone but the owner. *)
LeaveAuthorize(s, u, w) ==
  /\ Idle(s)
  /\ Resolves(u, w)
  /\ ~IsPersonal(w)
  /\ member[w][u].role # "OWNER"
  /\ req' = [req EXCEPT ![s] =
               [NoRequest EXCEPT !.pc = "remove:delete", !.by = u, !.ws = w,
                                 !.user = u, !.target = member[w][u].id]]
  /\ UNCHANGED <<ws, member, inv>>

(* remove of somebody else: permission, *)
RemoveAuthorize(s, u, w, user) ==
  /\ Idle(s)
  /\ user # u
  /\ Authorized(u, w, "member:remove")
  /\ ~IsPersonal(w)
  /\ req' = [req EXCEPT ![s] =
               [NoRequest EXCEPT !.pc = "remove:target", !.by = u, !.ws = w,
                                 !.role = member[w][u].role, !.user = user]]
  /\ UNCHANGED <<ws, member, inv>>

(* remove: the target, *)
RemoveTarget(s) ==
  LET r == req[s]
  IN /\ At(s, "remove:target")
     /\ IF Manageable(r.ws, r.by, r.role, r.user)
        THEN req' = [req EXCEPT ![s].pc = "remove:delete", ![s].role = NoRole,
                                ![s].target = member[r.ws][r.user].id]
        ELSE Done(s)
     /\ UNCHANGED <<ws, member, inv>>

(* remove: the transaction deletes the row of the id read. *)
RemoveDelete(s) ==
  LET r == req[s]
      row == member[r.ws][r.user]
  IN /\ At(s, "remove:delete")
     /\ IF Matches(row, r.target)
        THEN member' = [member EXCEPT ![r.ws][r.user] = NoMember]
        ELSE UNCHANGED member
     /\ Done(s)
     /\ UNCHANGED <<ws, inv>>

-----------------------------------------------------------------------------
Init ==
  /\ ws = [w \in Workspaces |-> [state |-> "ABSENT", owner |-> NoUser]]
  /\ member = [w \in Workspaces |-> [u \in Users |-> NoMember]]
  /\ inv = [i \in InviteIds |-> NoInvitation]
  /\ req = [s \in Requests |-> NoRequest]

WorkspaceStep ==
  \/ \E u \in Users : CreateOrganization(u)
  \/ \E s \in Requests, u \in Users : EnsurePersonalFind(s, u)
  \/ \E s \in Requests : EnsurePersonalInsert(s)
  \/ \E s \in Requests, u \in Users, w \in Workspaces : DeleteAuthorize(s, u, w)
  \/ \E s \in Requests : DeleteWrite(s)

InvitationStep ==
  \/ \E s \in Requests, u \in Users, w \in Workspaces, invitee \in Users, role \in InviteRoles :
       InviteAuthorize(s, u, w, invitee, role)
  \/ \E s \in Requests : InviteMembership(s)
  \/ \E s \in Requests : InviteExpire(s)
  \/ \E s \in Requests : InviteInsert(s)
  \/ \E u \in Users, w \in Workspaces : ListForWorkspace(u, w)
  \/ \E u \in Users : ListMine(u)
  \/ \E s \in Requests, u \in Users, w \in Workspaces, i \in InviteIds :
       CancelAuthorize(s, u, w, i)
  \/ \E s \in Requests : CancelRead(s)
  \/ \E s \in Requests : CancelWrite(s)
  \/ \E s \in Requests, u \in Users, i \in InviteIds : AcceptBegin(s, u, i)
  \/ \E s \in Requests : AcceptCommit(s)
  \/ \E u \in Users, i \in InviteIds : AcceptDeleted(u, i)
  \/ \E u \in Users, i \in InviteIds : Decline(u, i)
  \/ \E s \in Requests, u \in Users, i \in InviteIds : AnswerUnclaimable(s, u, i)
  \/ \E s \in Requests : RejectUnclaimable(s)
  \/ \E i \in InviteIds : Lapse(i)

MemberStep ==
  \/ \E s \in Requests, u, user \in Users, w \in Workspaces, body \in UpdateBodies :
       UpdateAuthorize(s, u, w, user, body)
  \/ \E s \in Requests : UpdateTarget(s)
  \/ \E s \in Requests : UpdateWrite(s)
  \/ \E s \in Requests, u \in Users, w \in Workspaces : LeaveAuthorize(s, u, w)
  \/ \E s \in Requests, u, user \in Users, w \in Workspaces : RemoveAuthorize(s, u, w, user)
  \/ \E s \in Requests : RemoveTarget(s)
  \/ \E s \in Requests : RemoveDelete(s)

Next == WorkspaceStep \/ InvitationStep \/ MemberStep

Spec == Init /\ [][Next]_vars
-----------------------------------------------------------------------------
(* Properties. *)

(* The shape of the collections and of the requests in flight. *)
TypeOK ==
  /\ ws \in [Workspaces -> WorkspaceDoc]
  /\ member \in [Workspaces -> [Users -> MemberRow]]
  /\ \A w \in Workspaces, u \in Users :
       member[w][u].role = NoRole <=> member[w][u].status = NoRole
  /\ inv \in [InviteIds -> Invitation]
  /\ req \in [Requests -> Request]

(* A workspace has exactly one OWNER membership and it is workspace.owner's *)
(* (DATA_MODEL.md on workspaces.owner; the owner-membership check of        *)
(* integrity-checks.ts).  No interleaving of role updates, removals,        *)
(* departures and accepted invitations makes a second owner or loses the    *)
(* first.                                                                   *)
OwnerMembership ==
  \A w \in Workspaces :
    {u \in Users : member[w][u].role = "OWNER"} =
      IF ws[w].state = "ABSENT" THEN {} ELSE {ws[w].owner}

(* A personal workspace has no member but its owner and is never deleted    *)
(* (integrity-checks.ts, personal-has-other-members): members, invitations  *)
(* and deletion each refuse it on their own.                                *)
PersonalSolo ==
  \A w \in PersonalIds :
    /\ ws[w].state # "DELETED"
    /\ \A u \in Users : Exists(member[w][u]) => ws[w].owner = u

(* A membership is changed or deleted only by a request that read that very *)
(* membership: an update or a removal decided about one membership never    *)
(* hits the one the same person got later, having been removed and invited  *)
(* again in between.                                                        *)
ActsOnTheRowRead ==
  [][\A w \in Workspaces, u \in Users :
       Exists(member[w][u]) /\ member'[w][u] # member[w][u] =>
         \E s \in Requests :
           /\ req[s].pc \in {"update:write", "remove:delete"}
           /\ req[s].ws = w /\ req[s].user = u
           /\ req[s].target = member[w][u].id
           /\ req'[s] = NoRequest]_vars

(* The refinement of module Roster. *)
OfferState(i) ==
  CASE inv[i].status = "NONE"     -> "unused"
    [] inv[i].status = "PENDING"  -> "open"
    [] inv[i].status = "ACCEPTED" -> "taken"
    [] OTHER                      -> "withdrawn"

OfferOf(i) == [state |-> OfferState(i), ws |-> inv[i].ws,
               user |-> inv[i].user, role |-> inv[i].role]

R == INSTANCE Roster WITH
       OfferIds <- InviteIds,
       founder  <- [w \in Workspaces |-> ws[w].owner],
       closed   <- {w \in Workspaces : ws[w].state = "DELETED"},
       roster   <- [w \in Workspaces |-> [u \in Users |-> member[w][u].role]],
       offer    <- [i \in InviteIds |-> OfferOf(i)]

(* Every step of the requests is a step of the roster or none: membership   *)
(* comes only from founding a workspace or from using up an open offer,     *)
(* with the offered role, and claim and grant happen together (accept's     *)
(* "Claim + membership commit together").                                   *)
ImplementsRoster == R!Spec
=============================================================================
