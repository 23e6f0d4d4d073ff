-------------------------- MODULE MembershipProofs --------------------------
(***************************************************************************)
(* Proofs about Membership, for any number of users, workspaces, requests  *)
(* and invitations.  The inductive invariant ties each request in flight   *)
(* to the collections: what a handler established before an await and no   *)
(* other request can take back.                                            *)
(***************************************************************************)
EXTENDS Membership, TLAPS

(* Who owns what: an owner's row exists exactly where the workspace says,  *)
(* and a personal workspace has no other row.                              *)
OwnerRows ==
  \A w \in Workspaces :
    /\ ws[w].state = "ABSENT" <=> ws[w].owner = NoUser
    /\ ws[w].state = "ABSENT" => \A u \in Users : ~Exists(member[w][u])
    /\ \A u \in Users : member[w][u].role = "OWNER" <=> ws[w].owner = u
    /\ w \in PersonalIds =>
         /\ ws[w].state # "DELETED"
         /\ \A u \in Users : Exists(member[w][u]) => ws[w].owner = u

(* An invitation leads into an existing organization, below OWNER. *)
InvitesLeadIn ==
  \A i \in InviteIds :
    /\ ~Issued(i) => inv[i] = NoInvitation
    /\ Issued(i) =>
      /\ inv[i].ws \in OrgIds
      /\ ws[inv[i].ws].state # "ABSENT"
      /\ inv[i].user \in Users
      /\ inv[i].role \in InvitableRoles

OnOrganization(r, W) ==
  /\ r.ws \in OrgIds
  /\ W[r.ws].state # "ABSENT"

(* What a request has established when it is at each await, W being *)
(* the workspaces collection.                                              *)
RequestOK(r, W) ==
  /\ r.pc = "ensure:insert" => r.by \in Users
  /\ r.pc = "delete:write" => OnOrganization(r, W)
  /\ r.pc \in {"invite:membership", "invite:expire", "invite:insert"} =>
       /\ OnOrganization(r, W)
       /\ r.user \in Users
       /\ r.newRole \in InvitableRoles
  /\ r.pc \in {"cancel:read", "cancel:write", "accept:commit", "answer:reject"} => r.inv \in InviteIds
  /\ r.pc \in {"update:target", "remove:target"} =>
       /\ r.ws \in Workspaces
       /\ r.user \in Users
  /\ r.pc \in {"update:write", "remove:delete"} =>
       /\ OnOrganization(r, W)
       /\ r.user \in Users
       /\ r.user # W[r.ws].owner
  /\ r.pc = "update:write" => r.newRole # "OWNER"

RequestsOK == \A s \in Requests : RequestOK(req[s], ws)

IInv == TypeOK /\ OwnerRows /\ InvitesLeadIn /\ RequestsOK
-----------------------------------------------------------------------------
(* Ranks. *)

(* Nobody ranks above OWNER: a role somebody may manage or grant is never   *)
(* OWNER (permissions.ts, "nobody grants OWNER").                           *)
THEOREM NobodyManagesOwner ==
  ASSUME NEW actor, NEW target, CanManageRole(actor, target)
  PROVE  /\ actor \in WorkspaceRole
         /\ target \in WorkspaceRole \ {"OWNER"}
BY DEF CanManageRole, RoleRank, WorkspaceRole

-----------------------------------------------------------------------------
(* The inductive invariant. *)

LEMMA InitIInv == Init => IInv
BY MembershipAssumption
   DEF Init, IInv, TypeOK, OwnerRows, InvitesLeadIn, RequestsOK, Workspaces,
       RequestOK, WorkspaceDoc, MemberRow, NoMember, Invitation, NoInvitation, Request,
       RequestPc, NoRequest, Exists, Issued, NoRole, WorkspaceRole, MemberStatus

(* Workspaces never disappear nor change hands. *)
Kept(W, V) ==
  \A w \in Workspaces :
    W[w].state # "ABSENT" => V[w].state # "ABSENT" /\ V[w].owner = W[w].owner

(* So a request keeps what it has established while others write. *)
LEMMA RequestOKKept ==
  ASSUME NEW r, NEW W, NEW V, RequestOK(r, W), Kept(W, V)
  PROVE  RequestOK(r, V)
BY DEF RequestOK, OnOrganization, Kept, Workspaces

LEMMA NoRequestOK == NoRequest \in Request /\ \A W : RequestOK(NoRequest, W)
BY DEF NoRequest, Request, RequestPc, RequestOK, NoRole

(* One request moves on to r, or is answered, while the workspaces change   *)
(* at most as Kept says.                                                    *)
LEMMA RequestsKept ==
  ASSUME req \in [Requests -> Request], RequestsOK, Kept(ws, ws'),
         NEW s \in Requests, NEW r \in Request, RequestOK(r, ws'),
         req' = [req EXCEPT ![s] = r]
  PROVE  RequestsOK' /\ req' \in [Requests -> Request]
<1>1. ASSUME NEW t \in Requests PROVE RequestOK(req'[t], ws')
  <2>1. RequestOK(req[t], ws')
    BY RequestOKKept DEF RequestsOK
  <2>2. req'[t] = IF t = s THEN r ELSE req[t]
    OBVIOUS
  <2> QED BY <2>1, <2>2
<1> QED BY <1>1 DEF RequestsOK

LEMMA RequestsUntouched ==
  ASSUME req \in [Requests -> Request], RequestsOK, Kept(ws, ws'), UNCHANGED req
  PROVE  RequestsOK'
<1>1. ASSUME NEW t \in Requests PROVE RequestOK(req'[t], ws')
  BY RequestOKKept DEF RequestsOK
<1> QED BY <1>1 DEF RequestsOK

(* A step that only moves one request on. *)
LEMMA RequestMoves ==
  ASSUME IInv, NEW s \in Requests, NEW r \in Request, RequestOK(r, ws),
         req' = [req EXCEPT ![s] = r], UNCHANGED <<ws, member, inv>>
  PROVE  IInv'
<1>1. RequestsOK' /\ req' \in [Requests -> Request]
  BY RequestsKept DEF Kept, IInv, TypeOK
<1>2. TypeOK'
  BY <1>1 DEF IInv, TypeOK
<1>3. OwnerRows' /\ InvitesLeadIn'
  BY DEF IInv, OwnerRows, InvitesLeadIn, Issued
<1> QED BY <1>1, <1>2, <1>3 DEF IInv

-----------------------------------------------------------------------------
(* Steps that only read and move a request on. *)

LEMMA InviteIdsNat == InviteIds \subseteq Nat
BY MembershipAssumption DEF InviteIds

LEMMA DoneIInv ==
  ASSUME IInv, NEW s \in Requests, Done(s), UNCHANGED <<ws, member, inv>>
  PROVE  IInv'
BY NoRequestOK, RequestMoves DEF Done

(* Who resolves exists and is a member of a workspace that exists. *)
LEMMA ResolvesFacts ==
  ASSUME IInv, NEW u \in Users, NEW w \in Workspaces, Resolves(u, w)
  PROVE  /\ ws[w].state = "LIVE"
         /\ member[w][u].role \in WorkspaceRole
BY DEF Resolves, IInv, TypeOK, MemberRow, NoRole

(* A member who is managed is not the owner, and the workspace is not       *)
(* personal.                                                                *)
LEMMA ManageableFacts ==
  ASSUME IInv, NEW w \in Workspaces, NEW by, NEW role, NEW u \in Users,
         Manageable(w, by, role, u)
  PROVE  /\ w \in OrgIds
         /\ ws[w].state # "ABSENT"
         /\ u # ws[w].owner
         /\ member[w][u].role \in WorkspaceRole \ {"OWNER"}
<1>1. member[w][u].role \in WorkspaceRole \ {"OWNER"}
  BY NobodyManagesOwner DEF Manageable
<1> QED BY <1>1 DEF Manageable, IsPersonal, Workspaces, IInv, OwnerRows

LEMMA EnsurePersonalFindIInv ==
  ASSUME IInv, NEW s \in Requests, NEW u \in Users, EnsurePersonalFind(s, u)
  PROVE  IInv'
<1> DEFINE r == [NoRequest EXCEPT !.pc = "ensure:insert", !.by = u]
<1>1. r \in Request /\ RequestOK(r, ws)
  BY DEF NoRequest, Request, RequestPc, RequestOK
<1> QED BY <1>1, RequestMoves DEF EnsurePersonalFind

LEMMA DeleteAuthorizeIInv ==
  ASSUME IInv, NEW s \in Requests, NEW u \in Users, NEW w \in Workspaces,
         DeleteAuthorize(s, u, w)
  PROVE  IInv'
<1> DEFINE r == [NoRequest EXCEPT !.pc = "delete:write", !.ws = w]
<1>1. r \in Request
  BY DEF NoRequest, Request, RequestPc
<1>2. RequestOK(r, ws)
  BY ResolvesFacts
     DEF DeleteAuthorize, Authorized, NoRequest, RequestOK, OnOrganization, IsPersonal, Workspaces
<1> QED BY <1>1, <1>2, RequestMoves DEF DeleteAuthorize

LEMMA InviteAuthorizeIInv ==
  ASSUME IInv, NEW s \in Requests, NEW u \in Users, NEW w \in Workspaces,
         NEW invitee \in Users, NEW role \in InviteRoles,
         InviteAuthorize(s, u, w, invitee, role)
  PROVE  IInv'
<1> DEFINE r == [NoRequest EXCEPT !.pc = "invite:membership", !.ws = w,
                                  !.user = invitee, !.newRole = role]
<1>1. r \in Request
  BY MembershipAssumption DEF NoRequest, Request, RequestPc
<1>2. RequestOK(r, ws)
  BY ResolvesFacts
     DEF InviteAuthorize, Authorized, NoRequest, RequestOK, OnOrganization, IsPersonal, Workspaces
<1> QED BY <1>1, <1>2, RequestMoves DEF InviteAuthorize

(* A request that moves on keeps the rest of its record. *)
LEMMA MovedRequest ==
  ASSUME NEW q \in Request, NEW pc \in RequestPc
  PROVE  [q EXCEPT !.pc = pc] \in Request
BY DEF Request

LEMMA InviteMembershipIInv ==
  ASSUME IInv, NEW s \in Requests, InviteMembership(s)
  PROVE  IInv'
<1> DEFINE r == [req[s] EXCEPT !.pc = "invite:expire"]
<1>1. CASE Done(s)
  BY <1>1, DoneIInv DEF InviteMembership
<1>2. CASE Goto(s, "invite:expire")
  <2>1. r \in Request
    BY MovedRequest DEF IInv, TypeOK, RequestPc
  <2>2. RequestOK(r, ws)
    BY DEF IInv, TypeOK, Request, InviteMembership, At, RequestsOK, RequestOK, OnOrganization
  <2>3. req' = [req EXCEPT ![s] = r]
    BY <1>2 DEF Goto
  <2> QED BY <2>1, <2>2, <2>3, RequestMoves DEF InviteMembership
<1> QED BY <1>1, <1>2 DEF InviteMembership

LEMMA CancelAuthorizeIInv ==
  ASSUME IInv, NEW s \in Requests, NEW u \in Users, NEW w \in Workspaces,
         NEW i \in InviteIds, CancelAuthorize(s, u, w, i)
  PROVE  IInv'
<1> DEFINE r == [NoRequest EXCEPT !.pc = "cancel:read", !.ws = w,
                                  !.role = member[w][u].role, !.inv = i]
<1>1. r \in Request
  BY ResolvesFacts, InviteIdsNat
     DEF CancelAuthorize, Authorized, NoRequest, Request, RequestPc
<1>2. RequestOK(r, ws)
  BY DEF NoRequest, RequestOK
<1> QED BY <1>1, <1>2, RequestMoves DEF CancelAuthorize

LEMMA CancelReadIInv ==
  ASSUME IInv, NEW s \in Requests, CancelRead(s)
  PROVE  IInv'
<1> DEFINE r == [req[s] EXCEPT !.pc = "cancel:write"]
<1>1. CASE Done(s)
  BY <1>1, DoneIInv DEF CancelRead
<1>2. CASE Goto(s, "cancel:write")
  <2>1. r \in Request
    BY MovedRequest DEF IInv, TypeOK, RequestPc
  <2>2. RequestOK(r, ws)
    BY DEF IInv, TypeOK, Request, CancelRead, At, RequestsOK, RequestOK
  <2>3. req' = [req EXCEPT ![s] = r]
    BY <1>2 DEF Goto
  <2> QED BY <2>1, <2>2, <2>3, RequestMoves DEF CancelRead
<1> QED BY <1>1, <1>2 DEF CancelRead

LEMMA AnswerUnclaimableIInv ==
  ASSUME IInv, NEW s \in Requests, NEW u \in Users, NEW i \in InviteIds,
         AnswerUnclaimable(s, u, i)
  PROVE  IInv'
<1> DEFINE r == [NoRequest EXCEPT !.pc = "answer:reject", !.inv = i]
<1>1. r \in Request /\ RequestOK(r, ws)
  BY InviteIdsNat DEF NoRequest, Request, RequestPc, RequestOK
<1> QED BY <1>1, RequestMoves DEF AnswerUnclaimable

LEMMA UpdateAuthorizeIInv ==
  ASSUME IInv, NEW s \in Requests, NEW u \in Users, NEW user \in Users,
         NEW w \in Workspaces, NEW body \in UpdateBodies,
         UpdateAuthorize(s, u, w, user, body)
  PROVE  IInv'
<1> DEFINE r == [NoRequest EXCEPT !.pc = "update:target", !.by = u, !.ws = w,
                                  !.role = member[w][u].role, !.user = user,
                                  !.newRole = body.role, !.newStatus = body.status]
<1>1. body.role \in WorkspaceRole \cup {NoRole} /\ body.status \in MemberStatus \cup {NoRole}
  BY MembershipAssumption DEF MemberStatus
<1>2. r \in Request
  BY <1>1, ResolvesFacts DEF UpdateAuthorize, Authorized, NoRequest, Request, RequestPc
<1>3. RequestOK(r, ws)
  BY DEF NoRequest, RequestOK
<1> QED BY <1>2, <1>3, RequestMoves DEF UpdateAuthorize

LEMMA UpdateTargetIInv ==
  ASSUME IInv, NEW s \in Requests, UpdateTarget(s)
  PROVE  IInv'
<1> DEFINE q == req[s]
           target == member[q.ws][q.user]
           r == [req[s] EXCEPT !.pc = "update:write", !.role = NoRole, !.target = target.id]
<1>1. CASE Done(s)
  BY <1>1, DoneIInv DEF UpdateTarget
<1>2. CASE ~Done(s)
  <2>1. /\ Manageable(q.ws, q.by, q.role, q.user)
        /\ q.newRole \in {NoRole, target.role} \/ CanManageRole(q.role, q.newRole)
        /\ req' = [req EXCEPT ![s] = r]
    BY <1>2 DEF UpdateTarget
  <2>2. q \in Request /\ q.ws \in Workspaces /\ q.user \in Users /\ q.pc = "update:target"
    BY DEF UpdateTarget, At, IInv, TypeOK, RequestsOK, RequestOK
  <2>3. /\ q.ws \in OrgIds /\ ws[q.ws].state # "ABSENT" /\ q.user # ws[q.ws].owner
        /\ target.role # "OWNER"
    BY <2>1, <2>2, ManageableFacts
  <2>4. q.newRole # "OWNER"
    BY <2>1, <2>3, NobodyManagesOwner DEF NoRole
  <2>5. target.id \in Nat
    BY <2>2 DEF IInv, TypeOK, MemberRow
  <2>6. r \in Request
    BY <2>2, <2>5 DEF Request, RequestPc
  <2>7. RequestOK(r, ws)
    BY <2>2, <2>3, <2>4 DEF Request, RequestOK, OnOrganization
  <2> QED BY <2>1, <2>6, <2>7, RequestMoves DEF UpdateTarget
<1> QED BY <1>1, <1>2

LEMMA LeaveAuthorizeIInv ==
  ASSUME IInv, NEW s \in Requests, NEW u \in Users, NEW w \in Workspaces,
         LeaveAuthorize(s, u, w)
  PROVE  IInv'
<1> DEFINE r == [NoRequest EXCEPT !.pc = "remove:delete", !.by = u, !.ws = w,
                                  !.user = u, !.target = member[w][u].id]
<1>1. member[w][u].id \in Nat
  BY DEF IInv, TypeOK, MemberRow
<1>2. r \in Request
  BY <1>1 DEF NoRequest, Request, RequestPc
<1>3. RequestOK(r, ws)
  BY ResolvesFacts
     DEF LeaveAuthorize, NoRequest, RequestOK, OnOrganization, IsPersonal, Workspaces,
         IInv, OwnerRows
<1> QED BY <1>2, <1>3, RequestMoves DEF LeaveAuthorize

LEMMA RemoveAuthorizeIInv ==
  ASSUME IInv, NEW s \in Requests, NEW u \in Users, NEW user \in Users,
         NEW w \in Workspaces, RemoveAuthorize(s, u, w, user)
  PROVE  IInv'
<1> DEFINE r == [NoRequest EXCEPT !.pc = "remove:target", !.by = u, !.ws = w,
                                  !.role = member[w][u].role, !.user = user]
<1>1. r \in Request
  BY ResolvesFacts DEF RemoveAuthorize, Authorized, NoRequest, Request, RequestPc
<1>2. RequestOK(r, ws)
  BY DEF NoRequest, RequestOK
<1> QED BY <1>1, <1>2, RequestMoves DEF RemoveAuthorize

LEMMA RemoveTargetIInv ==
  ASSUME IInv, NEW s \in Requests, RemoveTarget(s)
  PROVE  IInv'
<1> DEFINE q == req[s]
           target == member[q.ws][q.user]
           r == [req[s] EXCEPT !.pc = "remove:delete", !.role = NoRole, !.target = target.id]
<1>1. CASE Done(s)
  BY <1>1, DoneIInv DEF RemoveTarget
<1>2. CASE ~Done(s)
  <2>1. /\ Manageable(q.ws, q.by, q.role, q.user)
        /\ req' = [req EXCEPT ![s] = r]
    BY <1>2 DEF RemoveTarget
  <2>2. q \in Request /\ q.ws \in Workspaces /\ q.user \in Users /\ q.pc = "remove:target"
    BY DEF RemoveTarget, At, IInv, TypeOK, RequestsOK, RequestOK
  <2>3. q.ws \in OrgIds /\ ws[q.ws].state # "ABSENT" /\ q.user # ws[q.ws].owner
    BY <2>1, <2>2, ManageableFacts
  <2>4. target.id \in Nat
    BY <2>2 DEF IInv, TypeOK, MemberRow
  <2>5. r \in Request
    BY <2>2, <2>4 DEF Request, RequestPc
  <2>6. RequestOK(r, ws)
    BY <2>2, <2>3 DEF Request, RequestOK, OnOrganization
  <2> QED BY <2>1, <2>5, <2>6, RequestMoves DEF RemoveTarget
<1> QED BY <1>1, <1>2

-----------------------------------------------------------------------------
(* Steps that write a collection. *)

(* A workspace is created with its owner's row. *)
LEMMA InsertWithOwnerFacts ==
  ASSUME IInv, NEW w \in Workspaces, NEW u \in Users, InsertWithOwner(w, u),
         UNCHANGED inv
  PROVE  /\ Kept(ws, ws')
         /\ ws' \in [Workspaces -> WorkspaceDoc]
         /\ member' \in [Workspaces -> [Users -> MemberRow]]
         /\ (\A v \in Workspaces, t \in Users :
               member[v][t].role = NoRole <=> member[v][t].status = NoRole)'
         /\ OwnerRows'
         /\ InvitesLeadIn'
<1>1. Kept(ws, ws') /\ ws' \in [Workspaces -> WorkspaceDoc]
  BY DEF InsertWithOwner, Kept, IInv, TypeOK, WorkspaceDoc
<1>2. /\ member' \in [Workspaces -> [Users -> MemberRow]]
      /\ (\A v \in Workspaces, t \in Users :
             member[v][t].role = NoRole <=> member[v][t].status = NoRole)'
  BY DEF InsertWithOwner, IInv, TypeOK, MemberRow, WorkspaceRole, MemberStatus, NoRole
<1>3. OwnerRows'
  BY MembershipAssumption
     DEF InsertWithOwner, IInv, TypeOK, WorkspaceDoc, MemberRow, OwnerRows, Exists, NoRole
<1>4. InvitesLeadIn'
  BY DEF InsertWithOwner, IInv, TypeOK, WorkspaceDoc, InvitesLeadIn, Issued, Workspaces
<1> QED BY <1>1, <1>2, <1>3, <1>4

LEMMA CreateOrganizationIInv ==
  ASSUME IInv, NEW u \in Users, CreateOrganization(u)
  PROVE  IInv'
<1>1. PICK w \in OrgIds : InsertWithOwner(w, u)
  BY DEF CreateOrganization
<1>2. w \in Workspaces /\ UNCHANGED <<inv, req>>
  BY DEF CreateOrganization, Workspaces
<1>3. RequestsOK'
  BY <1>1, <1>2, InsertWithOwnerFacts, RequestsUntouched DEF IInv, TypeOK
<1> QED BY <1>1, <1>2, <1>3, InsertWithOwnerFacts DEF IInv, TypeOK

LEMMA EnsurePersonalInsertIInv ==
  ASSUME IInv, NEW s \in Requests, EnsurePersonalInsert(s)
  PROVE  IInv'
<1>1. CASE UNCHANGED <<ws, member>>
  BY <1>1, DoneIInv DEF EnsurePersonalInsert
<1>2. ASSUME NEW w \in PersonalIds, InsertWithOwner(w, req[s].by)
      PROVE  IInv'
  <2>1. w \in Workspaces /\ req[s].by \in Users /\ UNCHANGED inv
    BY DEF EnsurePersonalInsert, Workspaces, At, IInv, RequestsOK, RequestOK
  <2>2. RequestsOK' /\ req' \in [Requests -> Request]
    BY <1>2, <2>1, InsertWithOwnerFacts, NoRequestOK, RequestsKept
       DEF EnsurePersonalInsert, Done, IInv, TypeOK
  <2> QED BY <1>2, <2>1, <2>2, InsertWithOwnerFacts DEF IInv, TypeOK
<1> QED BY <1>1, <1>2 DEF EnsurePersonalInsert

LEMMA DeleteWriteIInv ==
  ASSUME IInv, NEW s \in Requests, DeleteWrite(s)
  PROVE  IInv'
<1>1. req[s].ws \in OrgIds /\ ws[req[s].ws].state # "ABSENT" /\ req[s].ws \in Workspaces
  BY DEF DeleteWrite, At, IInv, RequestsOK, RequestOK, OnOrganization, Workspaces
<1>2. ws' \in [Workspaces -> WorkspaceDoc] /\ Kept(ws, ws')
  BY <1>1 DEF DeleteWrite, IInv, TypeOK, WorkspaceDoc, Kept
<1>3. RequestsOK' /\ req' \in [Requests -> Request]
  BY <1>2, NoRequestOK, RequestsKept DEF DeleteWrite, Done, IInv, TypeOK
<1>4. OwnerRows'
  BY <1>1, MembershipAssumption DEF DeleteWrite, IInv, TypeOK, WorkspaceDoc, OwnerRows
<1>5. InvitesLeadIn'
  BY <1>1 DEF DeleteWrite, IInv, TypeOK, WorkspaceDoc, InvitesLeadIn, Issued, Workspaces
<1>6. TypeOK'
  BY <1>2, <1>3 DEF DeleteWrite, IInv, TypeOK
<1> QED BY <1>3, <1>4, <1>5, <1>6 DEF IInv

(* A step that leaves workspaces and members alone, closes invitations or   *)
(* lets them lapse, and moves at most one request on.                       *)
InvitesOnlyClose ==
  \A i \in InviteIds :
    /\ inv'[i] \in Invitation
    /\ ~Issued(i) => inv'[i] = inv[i]
    /\ Issued(i) =>
         /\ inv'[i].status # "NONE"
         /\ inv'[i].ws = inv[i].ws
         /\ inv'[i].user = inv[i].user
         /\ inv'[i].role = inv[i].role

LEMMA InvitesCloseLeadIn ==
  ASSUME InvitesLeadIn, InvitesOnlyClose, Kept(ws, ws')
  PROVE  InvitesLeadIn'
BY DEF InvitesLeadIn, InvitesOnlyClose, Issued, Kept, Workspaces

LEMMA OnlyInvitesClose ==
  ASSUME IInv, UNCHANGED <<ws, member>>,
         inv' \in [InviteIds -> Invitation], InvitesOnlyClose,
         RequestsOK', req' \in [Requests -> Request]
  PROVE  IInv'
<1>1. InvitesLeadIn'
  BY InvitesCloseLeadIn DEF IInv, Kept
<1>2. OwnerRows'
  BY DEF IInv, OwnerRows
<1>3. TypeOK'
  BY DEF IInv, TypeOK
<1> QED BY <1>1, <1>2, <1>3 DEF IInv

LEMMA ExpireStaleCloses ==
  ASSUME inv \in [InviteIds -> Invitation], NEW S, ExpireStale(S)
  PROVE  inv' \in [InviteIds -> Invitation] /\ InvitesOnlyClose
<1>1. ASSUME NEW i \in InviteIds
      PROVE  inv'[i] \in {inv[i], [inv[i] EXCEPT !.status = "EXPIRED"]}
             /\ (inv'[i] # inv[i] => Issued(i))
  BY DEF ExpireStale, Pending, Issued
<1>2. ASSUME NEW i \in InviteIds PROVE inv'[i] \in Invitation
  BY <1>1 DEF Invitation, InvitationStatus
<1>3. inv' \in [InviteIds -> Invitation]
  BY <1>2 DEF ExpireStale
<1> QED BY <1>1, <1>2, <1>3 DEF InvitesOnlyClose, Issued, Invitation

LEMMA SameRequests ==
  ASSUME IInv, UNCHANGED <<ws, req>>
  PROVE  RequestsOK' /\ req' \in [Requests -> Request]
BY RequestsUntouched DEF IInv, TypeOK, Kept

LEMMA OneRequestDone ==
  ASSUME IInv, UNCHANGED ws, NEW s \in Requests, Done(s)
  PROVE  RequestsOK' /\ req' \in [Requests -> Request]
BY RequestsKept, NoRequestOK DEF IInv, TypeOK, Kept, Done

LEMMA InviteExpireIInv ==
  ASSUME IInv, NEW s \in Requests, InviteExpire(s)
  PROVE  IInv'
<1> DEFINE r == [req[s] EXCEPT !.pc = "invite:insert"]
<1>1. inv' \in [InviteIds -> Invitation] /\ InvitesOnlyClose
  BY ExpireStaleCloses DEF InviteExpire, IInv, TypeOK
<1>2. r \in Request
  BY MovedRequest DEF IInv, TypeOK, RequestPc
<1>3. RequestOK(r, ws')
  BY DEF IInv, TypeOK, Request, InviteExpire, At, RequestsOK, RequestOK, OnOrganization
<1>4. req' = [req EXCEPT ![s] = r]
  BY DEF InviteExpire, Goto
<1>5. RequestsOK' /\ req' \in [Requests -> Request]
  BY <1>2, <1>3, <1>4, RequestsKept DEF InviteExpire, Kept, IInv, TypeOK
<1> QED BY <1>1, <1>5, OnlyInvitesClose DEF InviteExpire

LEMMA InviteInsertIInv ==
  ASSUME IInv, NEW s \in Requests, InviteInsert(s)
  PROVE  IInv'
<1>1. RequestsOK' /\ req' \in [Requests -> Request]
  BY OneRequestDone DEF InviteInsert
<1>2. CASE UNCHANGED inv
  BY <1>2, DoneIInv DEF InviteInsert
<1>3. CASE ~UNCHANGED inv
  <2> DEFINE q == req[s]
  <2>1. PICK i \in InviteIds :
          /\ ~Issued(i)
          /\ inv' = [inv EXCEPT ![i] =
                       [ws |-> q.ws, user |-> q.user, role |-> q.newRole,
                        status |-> "PENDING", lapsed |-> FALSE]]
    BY <1>3 DEF InviteInsert
  <2>2. /\ q.ws \in OrgIds /\ q.ws \in Workspaces /\ ws[q.ws].state # "ABSENT"
        /\ q.user \in Users /\ q.newRole \in InvitableRoles
    BY DEF InviteInsert, At, IInv, RequestsOK, RequestOK, OnOrganization, Workspaces
  <2>3. inv' \in [InviteIds -> Invitation]
    BY <2>1, <2>2 DEF IInv, TypeOK, Invitation, InvitationStatus, InvitableRoles
  <2>4. InvitesLeadIn'
    BY <2>1, <2>2 DEF InviteInsert, IInv, TypeOK, Invitation, InvitesLeadIn, Issued
  <2>5. OwnerRows' /\ TypeOK'
    BY <1>1, <2>3 DEF InviteInsert, IInv, TypeOK, OwnerRows
  <2> QED BY <1>1, <2>4, <2>5 DEF IInv
<1> QED BY <1>2, <1>3

LEMMA ListIInv ==
  ASSUME IInv,
         \/ \E u \in Users, w \in Workspaces : ListForWorkspace(u, w)
         \/ \E u \in Users : ListMine(u)
  PROVE  IInv'
<1>1. PICK S : ExpireStale(S)
  BY DEF ListForWorkspace, ListMine
<1>2. UNCHANGED <<ws, member, req>>
  BY DEF ListForWorkspace, ListMine
<1> QED BY <1>1, <1>2, ExpireStaleCloses, SameRequests, OnlyInvitesClose DEF IInv, TypeOK

LEMMA RejectUnclaimableIInv ==
  ASSUME IInv, NEW s \in Requests, RejectUnclaimable(s)
  PROVE  IInv'
BY ExpireStaleCloses, OneRequestDone, OnlyInvitesClose DEF RejectUnclaimable, IInv, TypeOK

(* Closing the invitation i with an answer, or letting it lapse. *)
LEMMA OneCloses ==
  ASSUME inv \in [InviteIds -> Invitation], NEW i \in InviteIds, Pending(i),
         NEW status \in InvitationStatus,
         \/ inv' = [inv EXCEPT ![i].status = status]
         \/ inv' = [inv EXCEPT ![i].lapsed = TRUE]
  PROVE  inv' \in [InviteIds -> Invitation] /\ InvitesOnlyClose
<1>1. PICK new \in {[inv[i] EXCEPT !.status = status], [inv[i] EXCEPT !.lapsed = TRUE]} :
        inv' = [inv EXCEPT ![i] = new]
  OBVIOUS
<1>2. inv[i] \in Invitation
  OBVIOUS
<1>3. /\ new \in Invitation /\ new.status \in InvitationStatus
      /\ new.ws = inv[i].ws /\ new.user = inv[i].user /\ new.role = inv[i].role
  BY <1>2 DEF Invitation, InvitationStatus, Pending
<1>4. new.status # "NONE"
  BY <1>3 DEF InvitationStatus
<1> QED BY <1>1, <1>3, <1>4 DEF InvitesOnlyClose, Issued, Pending

LEMMA CancelWriteIInv ==
  ASSUME IInv, NEW s \in Requests, CancelWrite(s)
  PROVE  IInv'
<1>1. req[s].inv \in InviteIds
  BY DEF CancelWrite, At, IInv, RequestsOK, RequestOK
<1>2. CASE UNCHANGED inv
  BY <1>2, DoneIInv DEF CancelWrite
<1>3. CASE InvitationIn(req[s].inv, req[s].ws)
  <2>1. "CANCELLED" \in InvitationStatus
    BY DEF InvitationStatus
  <2>2. inv' \in [InviteIds -> Invitation] /\ InvitesOnlyClose
    BY <1>1, <1>3, <2>1, OneCloses DEF CancelWrite, InvitationIn, IInv, TypeOK
  <2> QED BY <2>2, OneRequestDone, OnlyInvitesClose DEF CancelWrite
<1> QED BY <1>2, <1>3 DEF CancelWrite

LEMMA DeclineIInv ==
  ASSUME IInv, NEW u \in Users, NEW i \in InviteIds, Decline(u, i)
  PROVE  IInv'
<1>1. "DECLINED" \in InvitationStatus
  BY DEF InvitationStatus
<1>2. inv' \in [InviteIds -> Invitation] /\ InvitesOnlyClose
  BY <1>1, OneCloses DEF Decline, Claimable, IInv, TypeOK
<1> QED BY <1>2, SameRequests, OnlyInvitesClose DEF Decline

LEMMA LapseIInv ==
  ASSUME IInv, NEW i \in InviteIds, Lapse(i)
  PROVE  IInv'
<1>1. "PENDING" \in InvitationStatus
  BY DEF InvitationStatus
<1>2. inv' \in [InviteIds -> Invitation] /\ InvitesOnlyClose
  BY <1>1, OneCloses DEF Lapse, IInv, TypeOK
<1> QED BY <1>2, SameRequests, OnlyInvitesClose DEF Lapse

LEMMA AcceptBeginIInv ==
  ASSUME IInv, NEW s \in Requests, NEW u \in Users, NEW i \in InviteIds, AcceptBegin(s, u, i)
  PROVE  IInv'
<1> DEFINE r == [NoRequest EXCEPT !.pc = "accept:commit", !.inv = i]
<1>1. r \in Request
  BY InviteIdsNat DEF NoRequest, Request, RequestPc, NoRole
<1>2. RequestOK(r, ws)
  BY DEF NoRequest, RequestOK
<1> QED BY <1>1, <1>2, RequestMoves DEF AcceptBegin

LEMMA AcceptDeletedIInv ==
  ASSUME IInv, NEW u \in Users, NEW i \in InviteIds, AcceptDeleted(u, i)
  PROVE  IInv'
<1>1. "CANCELLED" \in InvitationStatus
  BY DEF InvitationStatus
<1>2. inv' \in [InviteIds -> Invitation] /\ InvitesOnlyClose
  BY <1>1, OneCloses DEF AcceptDeleted, Claimable, IInv, TypeOK
<1> QED BY <1>2, SameRequests, OnlyInvitesClose DEF AcceptDeleted

LEMMA AcceptCommitIInv ==
  ASSUME IInv, NEW s \in Requests, AcceptCommit(s)
  PROVE  IInv'
<1>0. PICK i \in InviteIds : i = req[s].inv
  BY DEF AcceptCommit, At, IInv, RequestsOK, RequestOK
<1>1. CASE ~Pending(i)
  <2> DEFINE r == [req[s] EXCEPT !.pc = "answer:reject"]
  <2>1. r \in Request
    BY MovedRequest DEF IInv, TypeOK, RequestPc
  <2>2. RequestOK(r, ws)
    BY <1>0 DEF IInv, TypeOK, Request, RequestOK
  <2> QED BY <1>0, <1>1, <2>1, <2>2, RequestMoves DEF AcceptCommit, Goto
<1>2. CASE UNCHANGED <<member, inv>> /\ Done(s)
  BY <1>2, DoneIInv DEF AcceptCommit
<1>3. CASE Pending(i) /\ ~UNCHANGED <<member, inv>>
  <2> DEFINE w == inv[i].ws
             u == inv[i].user
             row == [id |-> i, role |-> inv[i].role, status |-> "ACTIVE"]
  <2>1. /\ ~Exists(member[w][u])
        /\ member' = [member EXCEPT ![w][u] = row]
        /\ inv' = [inv EXCEPT ![i].status = "ACCEPTED"]
        /\ Done(s) /\ UNCHANGED ws
    BY <1>0, <1>3 DEF AcceptCommit, AddMember
  <2>2. /\ w \in OrgIds /\ w \in Workspaces /\ w \notin PersonalIds
        /\ ws[w].state # "ABSENT"
        /\ u \in Users /\ inv[i].role \in InvitableRoles
    BY <1>3, MembershipAssumption DEF Pending, Issued, IInv, InvitesLeadIn, Workspaces
  <2>3. row \in MemberRow /\ row.role \notin {NoRole, "OWNER"} /\ row.status # NoRole
    BY <2>2, InviteIdsNat DEF MemberRow, InvitableRoles, WorkspaceRole, MemberStatus, NoRole
  <2>4. "ACCEPTED" \in InvitationStatus
    BY DEF InvitationStatus
  <2>5. inv' \in [InviteIds -> Invitation] /\ InvitesOnlyClose
    BY <1>3, <2>1, <2>4, OneCloses DEF IInv, TypeOK
  <2>6. InvitesLeadIn'
    BY <2>1, <2>5, InvitesCloseLeadIn DEF IInv, Kept
  <2>7. RequestsOK' /\ req' \in [Requests -> Request]
    BY <2>1, OneRequestDone
  <2> HIDE DEF row, w, u
  <2>8. OwnerRows'
    <3>1. ws' = ws /\ u # ws[w].owner
      BY <2>1, <2>2 DEF IInv, OwnerRows, Exists, NoRole
    <3>2. \A v \in Workspaces, t \in Users :
            member'[v][t] = IF v = w /\ t = u THEN row ELSE member[v][t]
      BY <2>1, <2>2 DEF IInv, TypeOK
    <3> QED BY <2>1, <2>2, <2>3, <3>1, <3>2 DEF IInv, OwnerRows, Exists
  <2>9. TypeOK'
    BY <2>1, <2>2, <2>3, <2>5, <2>7 DEF IInv, TypeOK
  <2> QED BY <2>6, <2>7, <2>8, <2>9 DEF IInv
<1> QED BY <1>0, <1>1, <1>2, <1>3 DEF AcceptCommit

(* What an update or a removal may write: the row of somebody who is not    *)
(* the owner, in an organization, and no OWNER row.                         *)
LEMMA MemberWrite ==
  ASSUME IInv, NEW w \in OrgIds, NEW u \in Users, NEW row \in MemberRow,
         row.role = NoRole <=> row.status = NoRole,
         ws[w].state # "ABSENT", u # ws[w].owner, row.role # "OWNER",
         member' = [member EXCEPT ![w][u] = row],
         UNCHANGED <<ws, inv>>, RequestsOK', req' \in [Requests -> Request]
  PROVE  IInv'
<1>1. w \in Workspaces /\ w \notin PersonalIds
  BY MembershipAssumption DEF Workspaces
<1>2. TypeOK'
  BY <1>1 DEF IInv, TypeOK
<1>3. OwnerRows'
  BY <1>1 DEF IInv, TypeOK, MemberRow, OwnerRows, Exists
<1>4. InvitesLeadIn'
  BY DEF IInv, InvitesLeadIn, Issued
<1> QED BY <1>2, <1>3, <1>4 DEF IInv

LEMMA UpdateWriteIInv ==
  ASSUME IInv, NEW s \in Requests, UpdateWrite(s)
  PROVE  IInv'
<1> DEFINE q == req[s]
           old == member[q.ws][q.user]
           row == [old EXCEPT !.role   = SetIfSent(old.role, q.newRole),
                              !.status = SetIfSent(old.status, q.newStatus)]
<1>1. RequestsOK' /\ req' \in [Requests -> Request]
  BY OneRequestDone DEF UpdateWrite
<1>2. /\ q \in Request /\ q.ws \in OrgIds /\ q.ws \in Workspaces /\ q.user \in Users
      /\ ws[q.ws].state # "ABSENT" /\ q.user # ws[q.ws].owner /\ q.newRole # "OWNER"
  BY DEF UpdateWrite, At, IInv, TypeOK, RequestsOK, RequestOK, OnOrganization, Workspaces
<1>3. CASE UNCHANGED member
  BY <1>3, DoneIInv DEF UpdateWrite
<1>4. CASE Exists(old) /\ member' = [member EXCEPT ![q.ws][q.user] = row]
  <2>1. /\ old \in MemberRow /\ old.role # "OWNER" /\ old.role # NoRole
        /\ old.status # NoRole
    BY <1>2, <1>4 DEF IInv, TypeOK, OwnerRows, Exists
  <2>2. row \in MemberRow
    BY <1>2, <2>1 DEF MemberRow, SetIfSent, Request
  <2>3. row.role \notin {NoRole, "OWNER"} /\ row.status # NoRole
    BY <1>2, <2>1 DEF MemberRow, SetIfSent
  <2> HIDE DEF row
  <2> QED BY <1>1, <1>2, <1>4, <2>2, <2>3, MemberWrite DEF UpdateWrite
<1> QED BY <1>3, <1>4 DEF UpdateWrite, Matches

LEMMA RemoveDeleteIInv ==
  ASSUME IInv, NEW s \in Requests, RemoveDelete(s)
  PROVE  IInv'
<1> DEFINE q == req[s]
<1>1. RequestsOK' /\ req' \in [Requests -> Request]
  BY OneRequestDone DEF RemoveDelete
<1>2. /\ q.ws \in OrgIds /\ q.user \in Users
      /\ ws[q.ws].state # "ABSENT" /\ q.user # ws[q.ws].owner
  BY DEF RemoveDelete, At, IInv, RequestsOK, RequestOK, OnOrganization
<1>3. CASE UNCHANGED member
  BY <1>3, DoneIInv DEF RemoveDelete
<1>4. CASE member' = [member EXCEPT ![q.ws][q.user] = NoMember]
  <2>1. NoMember \in MemberRow /\ NoMember.role = NoRole /\ NoMember.status = NoRole
    BY DEF NoMember, MemberRow
  <2>2. NoMember.role # "OWNER"
    BY DEF NoMember, NoRole
  <2> QED BY <1>1, <1>2, <1>4, <2>1, <2>2, MemberWrite DEF RemoveDelete
<1> QED BY <1>3, <1>4 DEF RemoveDelete

-----------------------------------------------------------------------------
LEMMA NextIInv == IInv /\ [Next]_vars => IInv'
<1> SUFFICES ASSUME IInv, [Next]_vars PROVE IInv'
  OBVIOUS
<1>1. CASE UNCHANGED vars
  <2>1. UNCHANGED <<ws, member, inv, req>>
    BY <1>1 DEF vars
  <2> QED BY <2>1 DEF IInv, TypeOK, OwnerRows, InvitesLeadIn, RequestsOK, Issued
<1>2. CASE WorkspaceStep
  BY <1>2, CreateOrganizationIInv, EnsurePersonalFindIInv, EnsurePersonalInsertIInv,
     DeleteAuthorizeIInv, DeleteWriteIInv DEF WorkspaceStep
<1>3. CASE InvitationStep
  BY <1>3, InviteAuthorizeIInv, InviteMembershipIInv, InviteExpireIInv, InviteInsertIInv,
     ListIInv, CancelAuthorizeIInv, CancelReadIInv, CancelWriteIInv, AcceptBeginIInv,
     AcceptCommitIInv, AcceptDeletedIInv, DeclineIInv, AnswerUnclaimableIInv, RejectUnclaimableIInv, LapseIInv
     DEF InvitationStep
<1>4. CASE MemberStep
  BY <1>4, UpdateAuthorizeIInv, UpdateTargetIInv, UpdateWriteIInv, LeaveAuthorizeIInv,
     RemoveAuthorizeIInv, RemoveTargetIInv, RemoveDeleteIInv DEF MemberStep
<1> QED BY <1>1, <1>2, <1>3, <1>4 DEF Next

(* The invariant holds in every reachable state. *)
THEOREM InvariantHolds == Spec => []IInv
BY InitIInv, NextIInv, PTL DEF Spec

(* The collections and the requests keep their shape. *)
THEOREM TypeCorrect == Spec => []TypeOK
<1>1. IInv => TypeOK
  BY DEF IInv
<1> QED BY <1>1, InvariantHolds, PTL

(* However requests interleave, a workspace has exactly one OWNER           *)
(* membership and it belongs to workspace.owner.                            *)
THEOREM OwnerCorrect == Spec => []OwnerMembership
<1>1. IInv => OwnerMembership
  <2> SUFFICES ASSUME IInv, NEW w \in Workspaces
               PROVE  {u \in Users : member[w][u].role = "OWNER"} =
                        IF ws[w].state = "ABSENT" THEN {} ELSE {ws[w].owner}
    BY DEF OwnerMembership
  <2>1. ws[w].owner \in Users \cup {NoUser}
    BY DEF IInv, TypeOK, WorkspaceDoc
  <2> QED BY <2>1, MembershipAssumption DEF IInv, OwnerRows
<1> QED BY <1>1, InvariantHolds, PTL

(* A personal workspace keeps only its owner, and keeps existing. *)
THEOREM PersonalCorrect == Spec => []PersonalSolo
<1>1. IInv => PersonalSolo
  BY DEF IInv, OwnerRows, PersonalSolo, Workspaces
<1> QED BY <1>1, InvariantHolds, PTL

(* A row changes only by the update or the removal that has read it. *)
LEMMA RowsChangeByWrites ==
  ASSUME IInv, NEW w \in Workspaces, NEW u \in Users, Exists(member[w][u]),
         NEW s \in Requests, UpdateWrite(s) \/ RemoveDelete(s), member'[w][u] # member[w][u]
  PROVE  /\ req[s].pc \in {"update:write", "remove:delete"}
         /\ req[s].ws = w /\ req[s].user = u
         /\ req[s].target = member[w][u].id
         /\ req'[s] = NoRequest
<1>1. member \in [Workspaces -> [Users -> MemberRow]] /\ req \in [Requests -> Request]
  BY DEF IInv, TypeOK
<1>2. PICK v, t, row :
        /\ v = req[s].ws /\ t = req[s].user
        /\ Matches(member[v][t], req[s].target)
        /\ member' = [member EXCEPT ![v][t] = row]
  BY DEF UpdateWrite, RemoveDelete
<1>3. v = w /\ t = u
  BY <1>1, <1>2
<1>4. req'[s] = NoRequest
  BY <1>1 DEF UpdateWrite, RemoveDelete, Done
<1> QED BY <1>2, <1>3, <1>4 DEF Matches, UpdateWrite, RemoveDelete, At

(* Founding a workspace and accepting an invitation make new rows. *)
LEMMA RowsMadeAreNew ==
  ASSUME IInv, NEW w \in Workspaces, NEW u \in Users, Exists(member[w][u])
  PROVE  /\ \A v \in Workspaces : \A t : InsertWithOwner(v, t) => member'[w][u] = member[w][u]
         /\ \A s \in Requests : AcceptCommit(s) => member'[w][u] = member[w][u]
<1>1. member \in [Workspaces -> [Users -> MemberRow]]
  BY DEF IInv, TypeOK
<1>2. ASSUME NEW v \in Workspaces, NEW t, InsertWithOwner(v, t)
      PROVE  member'[w][u] = member[w][u]
  <2>1. v # w
    BY <1>2 DEF InsertWithOwner, IInv, OwnerRows
  <2> QED BY <1>1, <1>2, <2>1 DEF InsertWithOwner
<1>3. ASSUME NEW s \in Requests, AcceptCommit(s)
      PROVE  member'[w][u] = member[w][u]
  <2>1. UNCHANGED member \/ \E v, t, row : AddMember(v, t, row)
    BY <1>3 DEF AcceptCommit
  <2>2. CASE UNCHANGED member
    BY <2>2
  <2>3. ASSUME NEW v, NEW t, NEW row, AddMember(v, t, row)
        PROVE  member'[w][u] = member[w][u]
    BY <1>1, <2>3 DEF AddMember
  <2> QED BY <2>1, <2>2, <2>3
<1> QED BY <1>2, <1>3

LEMMA NextActsOnTheRowRead ==
  ASSUME IInv, Next, NEW w \in Workspaces, NEW u \in Users,
         Exists(member[w][u]), member'[w][u] # member[w][u]
  PROVE  \E s \in Requests : UpdateWrite(s) \/ RemoveDelete(s)
<1>1. CASE WorkspaceStep
  <2>1. \A v \in OrgIds \cup PersonalIds : \A t : ~InsertWithOwner(v, t)
    BY RowsMadeAreNew DEF Workspaces
  <2> QED BY <1>1, <2>1
          DEF WorkspaceStep, CreateOrganization, EnsurePersonalFind, EnsurePersonalInsert,
              DeleteAuthorize, DeleteWrite
<1>2. CASE InvitationStep
  BY <1>2, RowsMadeAreNew
     DEF InvitationStep, InviteAuthorize, InviteMembership, InviteExpire, InviteInsert, ListMine,
         ListForWorkspace, CancelAuthorize, CancelRead, CancelWrite, AcceptBegin, AcceptDeleted,
         Decline, AnswerUnclaimable, RejectUnclaimable, Lapse
<1>3. CASE MemberStep
  BY <1>3 DEF MemberStep, UpdateAuthorize, UpdateTarget, LeaveAuthorize, RemoveAuthorize,
              RemoveTarget
<1> QED BY <1>1, <1>2, <1>3 DEF Next

(* A membership that exists is changed or removed only by a request that    *)
(* has read that very row, and not one that its user has made since by     *)
(* leaving and coming back (update and remove write by _id).               *)
THEOREM ActsCorrect == Spec => ActsOnTheRowRead
<1> DEFINE Acts(w, u) ==
      Exists(member[w][u]) /\ member'[w][u] # member[w][u] =>
        \E s \in Requests :
          /\ req[s].pc \in {"update:write", "remove:delete"}
          /\ req[s].ws = w /\ req[s].user = u
          /\ req[s].target = member[w][u].id
          /\ req'[s] = NoRequest
<1>1. IInv /\ [Next]_vars => [\A w \in Workspaces, u \in Users : Acts(w, u)]_vars
  <2> SUFFICES ASSUME IInv, Next, NEW w \in Workspaces, NEW u \in Users,
                      Exists(member[w][u]), member'[w][u] # member[w][u]
               PROVE  Acts(w, u)
    OBVIOUS
  <2>1. PICK s \in Requests : UpdateWrite(s) \/ RemoveDelete(s)
    BY NextActsOnTheRowRead
  <2> QED BY <2>1, RowsChangeByWrites
<1> QED BY <1>1, InvariantHolds, PTL DEF Spec, ActsOnTheRowRead

-----------------------------------------------------------------------------
(* Membership implements Roster: every step of the requests is a step of   *)
(* the abstract roster or leaves it alone.  The inductive invariant says   *)
(* what each writing step may rely on.                                     *)

(* The abstract variables, as the instance R sees them. *)
founder == [w \in Workspaces |-> ws[w].owner]
closed  == {w \in Workspaces : ws[w].state = "DELETED"}
roster  == [w \in Workspaces |-> [u \in Users |-> member[w][u].role]]
offer   == [i \in InviteIds |-> OfferOf(i)]

LEMMA InitRefines == Init => R!Init
BY DEF Init, R!Init, R!NoOffer, NoRole, NoMember, NoInvitation, OfferOf, OfferState,
       R!NoRole, Workspaces

LEMMA SameRoster ==
  ASSUME UNCHANGED <<ws, member, inv>>
  PROVE  UNCHANGED R!rosterVars
BY DEF R!rosterVars, OfferOf, OfferState

LEMMA InsertWithOwnerRefines ==
  ASSUME IInv, NEW w \in Workspaces, NEW u \in Users, InsertWithOwner(w, u), UNCHANGED inv
  PROVE  R!Found(w, u)
<1>1. founder[w] = NoUser /\ founder' = [founder EXCEPT ![w] = u]
  BY DEF InsertWithOwner, founder, IInv, TypeOK, WorkspaceDoc, OwnerRows
<1>2. roster' = [roster EXCEPT ![w][u] = "OWNER"]
  BY DEF InsertWithOwner, roster, IInv, TypeOK
<1>3. closed' = closed
  BY DEF InsertWithOwner, closed, IInv, TypeOK, WorkspaceDoc
<1>4. offer' = offer
  BY DEF offer, OfferOf, OfferState
<1> QED BY <1>1, <1>2, <1>3, <1>4 DEF R!Found, founder, roster, closed, offer

LEMMA DeleteRefines ==
  ASSUME IInv, NEW s \in Requests, DeleteWrite(s)
  PROVE  \E w \in Workspaces : R!Close(w)
<1>0. PICK w \in OrgIds : w = req[s].ws /\ ws[w].state # "ABSENT"
  BY DEF DeleteWrite, At, IInv, RequestsOK, RequestOK, OnOrganization
<1>1. w \in Workspaces /\ w \notin PersonalIds /\ w = req[s].ws /\ ws[w].state # "ABSENT"
  BY <1>0, MembershipAssumption DEF Workspaces
<1>2. founder[w] # NoUser /\ founder' = founder
  BY <1>1 DEF founder, DeleteWrite, IInv, TypeOK, WorkspaceDoc, OwnerRows
<1>3. closed' = closed \cup {w}
  BY <1>1 DEF closed, DeleteWrite, IInv, TypeOK, WorkspaceDoc
<1>4. roster' = roster /\ offer' = offer
  BY DEF roster, offer, OfferOf, OfferState, DeleteWrite
<1>5. R!Close(w)
  BY <1>1, <1>2, <1>3, <1>4 DEF R!Close, founder, roster, closed, offer
<1> QED BY <1>1, <1>5

(* An offer is open while its invitation is PENDING. *)
LEMMA OfferStates ==
  ASSUME NEW i
  PROVE  /\ OfferState(i) = "unused" <=> inv[i].status = "NONE"
         /\ OfferState(i) = "open" <=> inv[i].status = "PENDING"
         /\ inv[i].status = "ACCEPTED" => OfferState(i) = "taken"
         /\ inv[i].status \in {"CANCELLED", "DECLINED", "EXPIRED"} => OfferState(i) = "withdrawn"
BY DEF OfferState

LEMMA OfferStatesPrimed ==
  ASSUME NEW i
  PROVE  /\ OfferState(i)' = "open" <=> inv'[i].status = "PENDING"
         /\ inv'[i].status = "ACCEPTED" => OfferState(i)' = "taken"
         /\ inv'[i].status \in {"CANCELLED", "DECLINED", "EXPIRED"} => OfferState(i)' = "withdrawn"
BY DEF OfferState

(* Pending invitations closed, without anybody joining. *)
LEMMA ClosingRefines ==
  ASSUME IInv, UNCHANGED <<ws, member>>, NEW S \in SUBSET InviteIds,
         \A i \in S : Pending(i),
         NEW status \in {"CANCELLED", "DECLINED", "EXPIRED"},
         inv' = [i \in InviteIds |->
                   IF i \in S THEN [inv[i] EXCEPT !.status = status] ELSE inv[i]]
  PROVE  R!Withdraw(S)
<1>1. \A i \in S : offer[i].state = "open"
  BY OfferStates DEF offer, OfferOf, Pending
<1>2. ASSUME NEW i \in InviteIds
      PROVE  offer'[i] = IF i \in S THEN [offer[i] EXCEPT !.state = "withdrawn"] ELSE offer[i]
  <2>1. CASE i \in S
    <3>1. inv[i] \in Invitation /\ inv'[i] = [inv[i] EXCEPT !.status = status]
      BY <2>1 DEF IInv, TypeOK
    <3>2. /\ inv'[i].status = status /\ inv'[i].ws = inv[i].ws
          /\ inv'[i].user = inv[i].user /\ inv'[i].role = inv[i].role
      BY <3>1 DEF Invitation
    <3>3. OfferState(i)' = "withdrawn"
      BY <3>2, OfferStatesPrimed
    <3> QED BY <2>1, <3>2, <3>3 DEF offer, OfferOf
  <2>2. CASE i \notin S
    <3>1. inv'[i] = inv[i]
      BY <2>2
    <3>2. OfferState(i)' = OfferState(i)
      BY <3>1 DEF OfferState
    <3> QED BY <2>2, <3>1, <3>2 DEF offer, OfferOf
  <2> QED BY <2>1, <2>2
<1>3. offer' = [i \in InviteIds |->
                  IF i \in S THEN [offer[i] EXCEPT !.state = "withdrawn"] ELSE offer[i]]
  BY <1>2 DEF offer
<1>4. founder' = founder /\ roster' = roster /\ closed' = closed
  BY DEF founder, roster, closed
<1> QED BY <1>1, <1>3, <1>4 DEF R!Withdraw, founder, roster, closed, offer

LEMMA ExpireRefines ==
  ASSUME IInv, UNCHANGED <<ws, member>>, NEW T, ExpireStale(T)
  PROVE  R!Next
<1> DEFINE S == {i \in InviteIds : i \in T /\ Pending(i) /\ inv[i].lapsed}
<1>1. inv' = [i \in InviteIds |->
                IF i \in S THEN [inv[i] EXCEPT !.status = "EXPIRED"] ELSE inv[i]]
  BY DEF ExpireStale
<1>2. S \in SUBSET InviteIds /\ \A i \in S : Pending(i)
  OBVIOUS
<1>3. R!Withdraw(S)
  <2> HIDE DEF S
  <2> QED BY <1>1, <1>2, ClosingRefines
<1> QED BY <1>2, <1>3 DEF R!Next

LEMMA OneClosingRefines ==
  ASSUME IInv, UNCHANGED <<ws, member>>, NEW i \in InviteIds, Pending(i),
         NEW status \in {"CANCELLED", "DECLINED", "EXPIRED"},
         inv' = [inv EXCEPT ![i].status = status]
  PROVE  R!Next
<1>1. inv' = [j \in InviteIds |->
                IF j \in {i} THEN [inv[j] EXCEPT !.status = status] ELSE inv[j]]
  BY DEF IInv, TypeOK
<1>2. R!Withdraw({i})
  BY <1>1, ClosingRefines
<1> QED BY <1>2 DEF R!Next

LEMMA InviteInsertRefines ==
  ASSUME IInv, NEW s \in Requests, InviteInsert(s), inv' # inv
  PROVE  R!Next
<1> DEFINE q == req[s]
<1>1. PICK i \in InviteIds :
        /\ ~Issued(i)
        /\ inv' = [inv EXCEPT ![i] =
                     [ws |-> q.ws, user |-> q.user, role |-> q.newRole,
                      status |-> "PENDING", lapsed |-> FALSE]]
  BY DEF InviteInsert
<1>2. /\ q.ws \in OrgIds /\ q.ws \in Workspaces /\ q.ws \notin PersonalIds
      /\ ws[q.ws].state # "ABSENT" /\ q.user \in Users
      /\ q.newRole \in WorkspaceRole /\ q.newRole # "OWNER"
  BY MembershipAssumption
     DEF InviteInsert, At, IInv, RequestsOK, RequestOK, OnOrganization, Workspaces, InvitableRoles
<1>3. offer[i].state = "unused" /\ founder[q.ws] # NoUser
  BY <1>1, <1>2, OfferStates DEF offer, OfferOf, Issued, founder, IInv, OwnerRows
<1>4. ASSUME NEW j \in InviteIds
      PROVE  offer'[j] = IF j = i THEN [state |-> "open", ws |-> q.ws, user |-> q.user,
                                        role |-> q.newRole]
                         ELSE offer[j]
  <2>1. CASE j = i
    BY <1>1, <2>1, OfferStatesPrimed DEF offer, OfferOf, IInv, TypeOK
  <2>2. CASE j # i
    BY <1>1, <2>2 DEF offer, OfferOf, OfferState, IInv, TypeOK
  <2> QED BY <2>1, <2>2
<1>5. offer' = [offer EXCEPT ![i] = [state |-> "open", ws |-> q.ws, user |-> q.user,
                                     role |-> q.newRole]]
  BY <1>4 DEF offer
<1>6. founder' = founder /\ roster' = roster /\ closed' = closed
  BY DEF founder, roster, closed, InviteInsert
<1>7. R!MakeOffer(i, q.ws, q.user, q.newRole)
  BY <1>2, <1>3, <1>5, <1>6 DEF R!MakeOffer, founder, roster, closed, offer
<1> QED BY <1>1, <1>2, <1>7 DEF R!Next, R!WorkspaceRole, WorkspaceRole

LEMMA AcceptRefines ==
  ASSUME IInv, NEW s \in Requests, AcceptCommit(s)
  PROVE  R!Next \/ UNCHANGED R!rosterVars
<1>1. PICK i \in InviteIds : i = req[s].inv
  BY DEF AcceptCommit, At, IInv, RequestsOK, RequestOK
<1>2. CASE UNCHANGED <<member, inv>>
  BY <1>2, SameRoster DEF AcceptCommit
<1>3. CASE ~UNCHANGED <<member, inv>>
  <2> DEFINE w == inv[i].ws
             u == inv[i].user
             row == [id |-> i, role |-> inv[i].role, status |-> "ACTIVE"]
  <2>1. /\ ~Exists(member[w][u]) /\ member' = [member EXCEPT ![w][u] = row]
        /\ inv' = [inv EXCEPT ![i].status = "ACCEPTED"]
        /\ ws' = ws /\ Pending(i)
    BY <1>1, <1>3 DEF AcceptCommit, AddMember
  <2>2. w \in Workspaces /\ u \in Users
    BY <2>1 DEF Pending, Issued, IInv, InvitesLeadIn, Workspaces
  <2>3. offer[i].state = "open" /\ offer[i].ws = w /\ offer[i].user = u /\ offer[i].role = inv[i].role
    BY <2>1, OfferStates DEF offer, OfferOf, Pending
  <2>4. roster[w][u] = NoRole
    BY <2>1, <2>2 DEF roster, Exists
  <2>5. roster' = [roster EXCEPT ![w][u] = inv[i].role]
    BY <2>1, <2>2 DEF roster, IInv, TypeOK
  <2>6. ASSUME NEW j \in InviteIds
        PROVE  offer'[j] = IF j = i THEN [offer[i] EXCEPT !.state = "taken"] ELSE offer[j]
    <3>1. CASE j = i
      <4>1. /\ inv'[i].status = "ACCEPTED" /\ inv'[i].ws = inv[i].ws
            /\ inv'[i].user = inv[i].user /\ inv'[i].role = inv[i].role
        BY <2>1 DEF IInv, TypeOK, Invitation
      <4> QED BY <3>1, <4>1, OfferStatesPrimed DEF offer, OfferOf
    <3>2. CASE j # i
      BY <2>1, <3>2 DEF offer, OfferOf, OfferState, IInv, TypeOK
    <3> QED BY <3>1, <3>2
  <2>7. offer' = [offer EXCEPT ![i].state = "taken"]
    BY <2>6 DEF offer
  <2>8. founder' = founder /\ closed' = closed
    BY <2>1 DEF founder, closed
  <2>9. R!TakeUp(i)
    <3> HIDE DEF w, u
    <3> QED BY <2>3, <2>4, <2>5, <2>7, <2>8
            DEF R!TakeUp, R!NoRole, NoRole, founder, roster, closed, offer
  <2> QED BY <2>9 DEF R!Next
<1> QED BY <1>2, <1>3

LEMMA UpdateRefines ==
  ASSUME IInv, NEW s \in Requests, UpdateWrite(s), member' # member
  PROVE  R!Next
<1> DEFINE q == req[s]
           old == member[q.ws][q.user]
           role == SetIfSent(old.role, q.newRole)
           row == [old EXCEPT !.role = role, !.status = SetIfSent(old.status, q.newStatus)]
<1>1. Exists(old) /\ member' = [member EXCEPT ![q.ws][q.user] = row]
  BY DEF UpdateWrite, Matches
<1>2. /\ q \in Request /\ q.ws \in Workspaces /\ q.user \in Users
      /\ q.user # ws[q.ws].owner /\ q.newRole # "OWNER"
  BY DEF UpdateWrite, At, IInv, TypeOK, RequestsOK, RequestOK, OnOrganization, Workspaces
<1>3. old \in MemberRow /\ old.role \notin {NoRole, "OWNER"}
  BY <1>1, <1>2 DEF IInv, TypeOK, OwnerRows, Exists
<1>4. role \in WorkspaceRole /\ role \notin {NoRole, "OWNER"}
  BY <1>2, <1>3 DEF SetIfSent, Request, MemberRow
<1>5. row.role = role
  BY <1>3 DEF MemberRow
<1> HIDE DEF row, role
<1>6. roster' = [roster EXCEPT ![q.ws][q.user] = role]
  BY <1>1, <1>2, <1>5 DEF roster, IInv, TypeOK
<1>7. roster[q.ws][q.user] \notin {NoRole, "OWNER"}
  BY <1>2, <1>3 DEF roster
<1>8. founder' = founder /\ closed' = closed /\ offer' = offer
  BY DEF UpdateWrite, founder, closed, offer, OfferOf, OfferState
<1>9. PICK w \in Workspaces, u \in Users, to \in WorkspaceRole :
        w = q.ws /\ u = q.user /\ to = role
  BY <1>2, <1>4
<1>10. R!Change(w, u, to)
  BY <1>4, <1>6, <1>7, <1>8, <1>9
     DEF R!Change, R!NoRole, NoRole, founder, roster, closed, offer
<1> QED BY <1>10 DEF R!Next, R!WorkspaceRole, WorkspaceRole

LEMMA RemoveRefines ==
  ASSUME IInv, NEW s \in Requests, RemoveDelete(s), member' # member
  PROVE  R!Next
<1> DEFINE q == req[s]
           old == member[q.ws][q.user]
<1>1. Exists(old) /\ member' = [member EXCEPT ![q.ws][q.user] = NoMember]
  BY DEF RemoveDelete, Matches
<1>2. q.ws \in Workspaces /\ q.user \in Users /\ q.user # ws[q.ws].owner
  BY DEF RemoveDelete, At, IInv, RequestsOK, RequestOK, OnOrganization, Workspaces
<1>3. roster[q.ws][q.user] \notin {NoRole, "OWNER"}
  BY <1>1, <1>2 DEF roster, IInv, OwnerRows, Exists
<1>4. roster' = [roster EXCEPT ![q.ws][q.user] = NoRole]
  BY <1>1, <1>2 DEF roster, IInv, TypeOK, NoMember
<1>5. founder' = founder /\ closed' = closed /\ offer' = offer
  BY DEF RemoveDelete, founder, closed, offer, OfferOf, OfferState
<1>6. PICK w \in Workspaces, u \in Users : w = q.ws /\ u = q.user
  BY <1>2
<1>7. R!Leave(w, u)
  BY <1>3, <1>4, <1>5, <1>6 DEF R!Leave, R!NoRole, NoRole, founder, roster, closed, offer
<1> QED BY <1>7 DEF R!Next

LEMMA LapseRefines ==
  ASSUME IInv, NEW i \in InviteIds, Lapse(i)
  PROVE  UNCHANGED R!rosterVars
<1>1. ASSUME NEW j \in InviteIds PROVE OfferOf(j)' = OfferOf(j)
  BY DEF Lapse, IInv, TypeOK, Invitation, OfferOf, OfferState
<1>2. offer' = offer
  BY <1>1 DEF offer
<1>3. founder' = founder /\ closed' = closed /\ roster' = roster
  BY DEF Lapse, founder, closed, roster
<1> QED BY <1>2, <1>3 DEF R!rosterVars, founder, roster, closed, offer

-----------------------------------------------------------------------------
LEMMA NextRefines == IInv /\ [Next]_vars => [R!Next]_(R!rosterVars)
<1> SUFFICES ASSUME IInv, [Next]_vars PROVE R!Next \/ UNCHANGED R!rosterVars
  OBVIOUS
<1>1. CASE UNCHANGED vars
  BY <1>1, SameRoster DEF vars
<1>2. CASE WorkspaceStep
  <2>1. ASSUME NEW u \in Users, CreateOrganization(u) PROVE R!Next
    <3>1. PICK w \in OrgIds : InsertWithOwner(w, u)
      BY <2>1 DEF CreateOrganization
    <3>2. w \in Workspaces /\ UNCHANGED inv
      BY <2>1 DEF CreateOrganization, Workspaces
    <3>3. R!Found(w, u)
      BY <3>1, <3>2, InsertWithOwnerRefines
    <3> QED BY <3>2, <3>3 DEF R!Next
  <2>2. ASSUME NEW s \in Requests, EnsurePersonalInsert(s)
        PROVE  R!Next \/ UNCHANGED R!rosterVars
    <3>1. CASE UNCHANGED <<ws, member>>
      BY <2>2, <3>1, SameRoster DEF EnsurePersonalInsert
    <3>2. ASSUME NEW w \in PersonalIds, InsertWithOwner(w, req[s].by) PROVE R!Next
      <4>1. w \in Workspaces /\ req[s].by \in Users /\ UNCHANGED inv
        BY <2>2 DEF EnsurePersonalInsert, Workspaces, At, IInv, RequestsOK, RequestOK
      <4>2. PICK u \in Users : u = req[s].by
        BY <4>1
      <4>3. InsertWithOwner(w, u)
        BY <3>2, <4>2 DEF InsertWithOwner
      <4>4. R!Found(w, u)
        BY <4>1, <4>3, InsertWithOwnerRefines
      <4> QED BY <4>1, <4>4 DEF R!Next
    <3> QED BY <2>2, <3>1, <3>2 DEF EnsurePersonalInsert
  <2>3. ASSUME NEW s \in Requests, DeleteWrite(s) PROVE R!Next
    BY <2>3, DeleteRefines DEF R!Next
  <2>4. CASE \/ \E s \in Requests, u \in Users : EnsurePersonalFind(s, u)
             \/ \E s \in Requests, u \in Users, w \in Workspaces : DeleteAuthorize(s, u, w)
    BY <2>4, SameRoster DEF EnsurePersonalFind, DeleteAuthorize
  <2> QED BY <1>2, <2>1, <2>2, <2>3, <2>4 DEF WorkspaceStep
<1>3. CASE InvitationStep
  <2>1. ASSUME NEW s \in Requests, InviteExpire(s) PROVE R!Next
    BY <2>1, ExpireRefines DEF InviteExpire
  <2>2. ASSUME NEW s \in Requests, InviteInsert(s) PROVE R!Next \/ UNCHANGED R!rosterVars
    <3>1. UNCHANGED <<ws, member>>
      BY <2>2 DEF InviteInsert
    <3> QED BY <2>2, <3>1, InviteInsertRefines, SameRoster
  <2>3. ASSUME NEW u \in Users, ListMine(u) \/ \E w \in Workspaces : ListForWorkspace(u, w)
        PROVE  R!Next
    BY <2>3, ExpireRefines DEF ListMine, ListForWorkspace
  <2>4. ASSUME NEW s \in Requests, CancelWrite(s) PROVE R!Next \/ UNCHANGED R!rosterVars
    <3>1. req[s].inv \in InviteIds /\ UNCHANGED <<ws, member>>
      BY <2>4 DEF CancelWrite, At, IInv, RequestsOK, RequestOK
    <3>2. CASE InvitationIn(req[s].inv, req[s].ws)
      BY <2>4, <3>1, <3>2, OneClosingRefines DEF CancelWrite, InvitationIn
    <3>3. CASE UNCHANGED inv
      BY <3>1, <3>3, SameRoster
    <3> QED BY <2>4, <3>2, <3>3 DEF CancelWrite
  <2>5. ASSUME NEW u \in Users, NEW i \in InviteIds, Decline(u, i) \/ AcceptDeleted(u, i)
        PROVE  R!Next
    BY <2>5, OneClosingRefines DEF Decline, AcceptDeleted, Claimable
  <2>6. ASSUME NEW s \in Requests, RejectUnclaimable(s) PROVE R!Next
    BY <2>6, ExpireRefines DEF RejectUnclaimable
  <2>7. CASE \/ \E s \in Requests, u \in Users, w \in Workspaces, invitee \in Users,
                   role \in InviteRoles : InviteAuthorize(s, u, w, invitee, role)
             \/ \E s \in Requests : InviteMembership(s) \/ CancelRead(s)
             \/ \E s \in Requests, u \in Users, w \in Workspaces, i \in InviteIds :
                  CancelAuthorize(s, u, w, i)
             \/ \E s \in Requests, u \in Users, i \in InviteIds :
                  AnswerUnclaimable(s, u, i) \/ AcceptBegin(s, u, i)
    BY <2>7, SameRoster
       DEF InviteAuthorize, InviteMembership, CancelRead, CancelAuthorize,
           AnswerUnclaimable, AcceptBegin
  <2> QED BY <1>3, <2>1, <2>2, <2>3, <2>4, <2>5, <2>6, <2>7, AcceptRefines, LapseRefines
          DEF InvitationStep
<1>4. CASE MemberStep
  <2>1. ASSUME NEW s \in Requests, UpdateWrite(s) PROVE R!Next \/ UNCHANGED R!rosterVars
    <3>1. UNCHANGED <<ws, inv>>
      BY <2>1 DEF UpdateWrite
    <3> QED BY <2>1, <3>1, UpdateRefines, SameRoster
  <2>2. ASSUME NEW s \in Requests, RemoveDelete(s) PROVE R!Next \/ UNCHANGED R!rosterVars
    <3>1. UNCHANGED <<ws, inv>>
      BY <2>2 DEF RemoveDelete
    <3> QED BY <2>2, <3>1, RemoveRefines, SameRoster
  <2>3. CASE \/ \E s \in Requests, u, user \in Users, w \in Workspaces, body \in UpdateBodies :
                  UpdateAuthorize(s, u, w, user, body)
             \/ \E s \in Requests : UpdateTarget(s) \/ RemoveTarget(s)
             \/ \E s \in Requests, u \in Users, w \in Workspaces : LeaveAuthorize(s, u, w)
             \/ \E s \in Requests, u, user \in Users, w \in Workspaces :
                  RemoveAuthorize(s, u, w, user)
    BY <2>3, SameRoster
       DEF UpdateAuthorize, UpdateTarget, LeaveAuthorize, RemoveAuthorize, RemoveTarget
  <2> QED BY <1>4, <2>1, <2>2, <2>3 DEF MemberStep
<1> QED BY <1>1, <1>2, <1>3, <1>4 DEF Next

(* Whatever requests are in flight, membership changes only as Roster       *)
(* allows: by founding, by using up an open offer in a live workspace, by a *)
(* change of role that neither makes nor unmakes an owner, by leaving.      *)
THEOREM MembershipImplementsRoster == Spec => ImplementsRoster
<1>1. Init => R!Init
  BY InitRefines
<1>2. IInv /\ [Next]_vars => [R!Next]_(R!rosterVars)
  BY NextRefines
<1> QED BY <1>1, <1>2, InvariantHolds, PTL DEF Spec, ImplementsRoster, R!Spec
=============================================================================
