---------------------------- MODULE Permissions ----------------------------
(***************************************************************************)
(* Workspace roles, their ranks and the permissions each role carries:     *)
(* src/src/common/authorization/permissions.ts.  The module has no state;  *)
(* every other module asks it "may this role do that?".                    *)
(***************************************************************************)
EXTENDS Naturals

NoRole == "NONE"      \* stands for "no membership row" in the modules that use roles

WorkspaceRole == {"OWNER", "ADMIN", "MANAGER", "MEMBER", "VIEWER"}

(* Each role's set is built on the previous one, as the spreads of the     *)
(* source do.                                                              *)
ViewerPermissions ==
  {"workspace:read", "member:read", "project:read", "task:read",
   "comment:create", "activity:read"}

MemberPermissions ==
  ViewerPermissions \cup
  {"task:create", "task:update", "task:assign", "attachment:upload"}

ManagerPermissions ==
  MemberPermissions \cup
  {"project:create", "project:read_all", "project:update",
   "project:manage_members", "task:delete", "label:manage",
   "comment:moderate", "attachment:moderate"}

AdminPermissions ==
  ManagerPermissions \cup
  {"workspace:update", "member:invite", "member:update", "member:remove",
   "project:delete"}

OwnerPermissions == AdminPermissions \cup {"workspace:delete"}

Permission == OwnerPermissions

RolePermissions ==
  [r \in WorkspaceRole |->
     CASE r = "OWNER"   -> OwnerPermissions
       [] r = "ADMIN"   -> AdminPermissions
       [] r = "MANAGER" -> ManagerPermissions
       [] r = "MEMBER"  -> MemberPermissions
       [] r = "VIEWER"  -> ViewerPermissions]

(* An unknown role has no permission (the "?? false" of the source). *)
RoleHasPermission(role, permission) ==
  /\ role \in WorkspaceRole
  /\ permission \in RolePermissions[role]

RoleRank ==
  [r \in WorkspaceRole |->
     CASE r = "OWNER"   -> 4
       [] r = "ADMIN"   -> 3
       [] r = "MANAGER" -> 2
       [] r = "MEMBER"  -> 1
       [] r = "VIEWER"  -> 0]

(* The slip of "at least the same rank". *)
MutManagesEqual(actor, target) ==
  /\ actor \in WorkspaceRole
  /\ target \in WorkspaceRole
  /\ RoleRank[actor] >= RoleRank[target]

CanManageRole(actor, target) ==
  /\ actor \in WorkspaceRole
  /\ target \in WorkspaceRole
  /\ RoleRank[actor] > RoleRank[target]
=============================================================================
