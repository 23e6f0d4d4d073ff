----------------------------- MODULE ViewsProofs ----------------------------
(***************************************************************************)
(* Theorems about module Views, for any people, workspaces, projects,      *)
(* tasks and requests, and any database the plans begin with.              *)
(***************************************************************************)
EXTENDS Views, FiniteSetTheorems, WellFoundedInduction, TLAPS

-----------------------------------------------------------------------------
(* The database. *)

MemberType == member \in [Workspaces -> [Users -> Membership]]
ProjectType == project \in [Projects -> ProjectDoc]
TaskType == task \in [Tasks -> TaskDoc]

(* Whoever is about to insert a row does it for a project that exists. *)
InsertsOK ==
  \A r \in Requests : At(r, "insert") =>
    /\ req[r].call.project \in Projects /\ req[r].call.target \in Users
    /\ project[req[r].call.project].workspace \in Workspaces

(* A view in progress is a record of its parts. *)
Parts == {"pc", "call", "wanted", "scope", "ids", "found", "pending", "got"}
IsView(v) == DOMAIN v = Parts /\ v = [x \in Parts |-> v[x]]
ViewPc == {"workspaces", "wanted", "memberships", "live", "rows", "find", "query", "shown"}

Slots ==
  /\ req = [r \in Requests |-> req[r]]
  /\ \A r \in Requests : req[r].pc \in ViewPc => IsView(req[r])

Database ==
  /\ Slots
  /\ calls \in [Requests -> SUBSET Call]
  /\ live \subseteq Workspaces
  /\ MemberType /\ ProjectType /\ TaskType
  /\ rows \subseteq ProjectMember
  /\ RowsFollow(project, rows)
  /\ TasksFollow(project, task)
  /\ InsertsOK

(* What a call of each kind of write is made of. *)
LEMMA WriteCalls ==
  ASSUME Database, NEW r \in Requests
  PROVE  /\ \A c \in Asked(r, "createProject") \cup Asked(r, "removeProject") :
              c.user \in Users /\ c.project \in Projects /\ c.workspace \in Workspaces
         /\ \A c \in Asked(r, "add") \cup Asked(r, "drop") :
              c.user \in Users /\ c.project \in Projects /\ c.target \in Users
         /\ \A c \in Asked(r, "member") :
              c.user \in Users /\ c.workspace \in Workspaces /\ c.to \in Membership
         /\ \A c \in Asked(r, "setStatus") : c.task \in Tasks /\ c.status \in TaskStatus
         /\ \A c \in Asked(r, "removeTask") : c.task \in Tasks
  BY DEF Database, Asked, Call, ViewCall, WriteCall

LEMMA Readers ==
  /\ NoRole \notin WorkspaceRole
  /\ \A role \in WorkspaceRole :
       RoleHasPermission(role, "project:read") /\ RoleHasPermission(role, "task:read")
  BY DEF NoRole, RoleHasPermission, WorkspaceRole, RolePermissions, OwnerPermissions, AdminPermissions,
         ManagerPermissions, MemberPermissions, ViewerPermissions

(* An active member has a role, and a live project a workspace. *)
LEMMA Documents ==
  ASSUME Database
  PROVE  /\ \A w \in Workspaces, u \in Users :
              member[w][u].status = "ACTIVE" => member[w][u].role \in WorkspaceRole
         /\ \A p \in Projects : project[p] # NoProject => project[p].workspace \in Workspaces
         /\ \A p \in Projects : project[p].live => project[p].workspace \in Workspaces
         /\ \A row \in rows : row.project \in Projects /\ row.user \in Users /\ row.workspace \in Workspaces
         /\ \A t \in Tasks : task[t].project \in Projects /\ task[t].workspace \in Workspaces
<1>1. \A w \in Workspaces, u \in Users : member[w][u] \in Membership
  BY DEF Database, MemberType
<1>2. \A p \in Projects : project[p] \in ProjectDoc
  BY DEF Database, ProjectType
<1>3. \A t \in Tasks : task[t] \in TaskDoc
  BY DEF Database, TaskType
<1>4. \A w \in Workspaces, u \in Users :
        member[w][u].status = "ACTIVE" => member[w][u].role \in WorkspaceRole
  BY <1>1 DEF Membership, NoMember
<1>5. \A p \in Projects : /\ project[p] # NoProject => project[p].workspace \in Workspaces
                          /\ project[p].live => project[p].workspace \in Workspaces
  <2> SUFFICES ASSUME NEW p \in Projects
               PROVE  project[p] # NoProject \/ project[p].live => project[p].workspace \in Workspaces
    OBVIOUS
  <2>1. CASE project[p] = NoProject
    BY <2>1 DEF NoProject
  <2>2. CASE project[p] # NoProject
    <3>1. project[p] \in [live : BOOLEAN, workspace : Workspaces]
      BY <1>2, <2>2 DEF ProjectDoc
    <3> QED BY <3>1
  <2> QED BY <2>1, <2>2
<1>6. \A row \in rows : row.project \in Projects /\ row.user \in Users /\ row.workspace \in Workspaces
  BY DEF Database, ProjectMember
<1>7. \A t \in Tasks : task[t].project \in Projects /\ task[t].workspace \in Workspaces
  BY <1>3 DEF TaskDoc
<1> QED BY <1>4, <1>5, <1>6, <1>7

-----------------------------------------------------------------------------
(* The four ways to say who sees a project agree wherever the rows and the  *)
(* tasks carry the workspace of their project.                             *)
LEMMA OneVisibility == Database => SameVisibility
<1> SUFFICES ASSUME Database PROVE SameVisibility
  OBVIOUS
<1>1. ASSUME NEW u \in Users, NEW p \in Projects
      PROVE  /\ Authorized(u, p, "project:read") <=> u \in UsersWithAccess(p)
             /\ Authorized(u, p, "project:read") <=> p \in AccessibleProjectIds(u)
             /\ \A w \in Workspaces : project[p].workspace = w =>
                  (Authorized(u, p, "project:read") <=> Resolves(u, w) /\ p \in VisibleProjects(u, w))
  <2> DEFINE w == project[p].workspace
  <2>1. Authorized(u, p, "project:read") <=>
          project[p].live /\ w \in live /\ member[w][u].status = "ACTIVE"
          /\ (ReadsAll(member[w][u].role) \/ u \in OnProject(p))
    BY Documents, Readers DEF Authorized, Resolves, CanSee, Can, Database
  <2>2. u \in OnProject(p) <=> \E row \in rows : row.project = p /\ row.user = u
    BY DEF OnProject
  <2>3. \A row \in rows : row.project = p => row.workspace = w
    BY DEF Database, RowsFollow
  <2>4. Authorized(u, p, "project:read") <=> u \in UsersWithAccess(p)
    BY <2>1 DEF UsersWithAccess
  <2>5. Authorized(u, p, "project:read") <=> p \in AccessibleProjectIds(u)
    <3> DEFINE scope == RolesIn(u, ActiveIn(u) \cap live)
               ids == MemberOf(u, Restricted(scope))
    <3>1. /\ DOMAIN scope = ActiveIn(u) \cap live
          /\ \A x \in DOMAIN scope : scope[x] = member[x][u].role
      BY DEF RolesIn
    <3>2. p \in ids <=> w \in Restricted(scope) /\ u \in OnProject(p)
      BY <2>2, <2>3 DEF MemberOf
    <3>3. w \in Restricted(scope) <=> w \in ActiveIn(u) /\ w \in live /\ ~ReadsAll(member[w][u].role)
      BY <3>1 DEF Restricted
    <3>4. p \in Found(scope, ids) <=>
            project[p].live /\ (w \in DOMAIN scope \ Restricted(scope) \/ p \in ids)
      BY DEF Found
    <3>5. project[p].live => (w \in ActiveIn(u) <=> member[w][u].status = "ACTIVE")
      BY Documents DEF ActiveIn
    <3> HIDE DEF scope, ids
    <3>6. Authorized(u, p, "project:read") <=> p \in Found(scope, ids)
      BY <2>1, <3>1, <3>2, <3>3, <3>4, <3>5
    <3> QED BY <3>6 DEF AccessibleProjectIds, scope, ids
  <2>6. \A x \in Workspaces : w = x =>
          (Authorized(u, p, "project:read") <=> Resolves(u, x) /\ p \in VisibleProjects(u, x))
    <3>1. p \in MemberOf(u, {w}) <=> u \in OnProject(p)
      BY <2>2, <2>3 DEF MemberOf
    <3> QED BY <2>1, <3>1 DEF VisibleProjects, VisibleFilter, Resolves
  <2> QED BY <2>4, <2>5, <2>6
<1>2. ASSUME NEW u \in Users, NEW t \in Tasks
      PROVE  TaskAuthorized(u, t, "task:read") <=>
               task[t].live /\ Authorized(u, task[t].project, "project:read")
  <2>1. project[task[t].project].live /\ Resolves(u, project[task[t].project].workspace) =>
          /\ Can(u, project[task[t].project].workspace, "task:read")
          /\ Can(u, project[task[t].project].workspace, "project:read")
    BY Documents, Readers DEF Can, Resolves, Database
  <2> QED BY <2>1 DEF TaskAuthorized, Authorized, Database, TasksFollow
<1> QED BY <1>1, <1>2 DEF SameVisibility

-----------------------------------------------------------------------------
(* Every step keeps the database in order. *)

(* A request that is not about to insert anything has no say in InsertsOK,  *)
(* and projects keep their workspaces.                                     *)
LEMMA InsertsKept ==
  ASSUME Database, NEW r \in Requests, NEW x, req' = [req EXCEPT ![r] = x], x.pc # "insert",
         \A p \in Projects : project[p].workspace \in Workspaces =>
           project'[p].workspace = project[p].workspace
  PROVE  InsertsOK'
<1>1. ASSUME NEW s \in Requests, At(s, "insert")'
      PROVE  /\ req'[s].call.project \in Projects /\ req'[s].call.target \in Users
             /\ project'[req'[s].call.project].workspace \in Workspaces
  <2>1. CASE s = r /\ r \in DOMAIN req
    BY <1>1, <2>1 DEF At
  <2>2. CASE s # r \/ r \notin DOMAIN req
    <3>1. req'[s] = req[s]
      BY <2>2
    <3> QED BY <1>1, <3>1 DEF Database, InsertsOK, At
  <2> QED BY <2>1, <2>2
<1> QED BY <1>1 DEF InsertsOK

LEMMA SlotsKept ==
  ASSUME Slots, NEW r \in Requests, NEW x, req' = [req EXCEPT ![r] = x],
         x.pc \in ViewPc => IsView(x)
  PROVE  Slots'
<1>1. /\ req'[r] = x /\ \A s \in Requests : s # r => req'[s] = req[s]
      /\ req' = [s \in Requests |-> req'[s]]
  BY DEF Slots
<1>2. ASSUME NEW s \in Requests, req'[s].pc \in ViewPc PROVE IsView(req'[s])
  BY <1>1, <1>2 DEF Slots
<1> QED BY <1>1, <1>2 DEF Slots

(* A view's step reads, and leaves a view or a request that is done. *)
ViewOrDone(x) == x.pc \in ViewPc \cup {"done"} /\ (x.pc \in ViewPc => IsView(x))

LEMMA ViewMoves ==
  ASSUME Slots, NEW r \in Requests, ViewStep(r)
  PROVE  UNCHANGED <<db, strays>> /\ \E x : req' = [req EXCEPT ![r] = x] /\ ViewOrDone(x)
<1> DEFINE v == req[r]
<1>1. ASSUME NEW x, Read(r, x), ViewOrDone(x)
      PROVE  UNCHANGED <<db, strays>> /\ \E y : req' = [req EXCEPT ![r] = y] /\ ViewOrDone(y)
  BY <1>1 DEF Read, Goto
<1>2. v.pc \in ViewPc => IsView(v)
  BY DEF Slots
<1>3. CASE Start(r)
  <2>1. PICK c \in calls[r] \cap ViewCall : Goto(r, Started(c))
    BY <1>3 DEF Start
  <2>2. ASSUME NEW pc \in ViewPc, NEW S PROVE ViewOrDone(ViewState(pc, c, S)) /\ ViewState(pc, c, S).pc = pc
    BY DEF ViewOrDone, ViewState, IsView, Parts
  <2>3. ViewOrDone([ViewState("rows", c, {c.workspace}) EXCEPT !.scope = RolesIn(c.user, {c.workspace})])
    BY DEF ViewOrDone, ViewState, IsView, Parts, Parts, ViewPc
  <2>4. ViewOrDone(Started(c))
    BY <2>2, <2>3 DEF ViewOrDone, Started, Done, ViewPc
  <2> QED BY <1>3, <2>1, <2>4 DEF Start, Goto
<1>4. CASE ReadMemberships(r)
  <2> DEFINE x == [v EXCEPT
               !.pc = IF @ = "workspaces" THEN "wanted" ELSE "live",
               !.scope = RolesIn(v.call.user, ActiveIn(v.call.user) \cap v.wanted)]
  <2>1. Read(r, x)
    BY <1>4 DEF ReadMemberships
  <2>2. ViewOrDone(x)
    BY <1>2, <1>4 DEF ViewOrDone, ReadMemberships, IsView, Parts, ViewPc, At
  <2> HIDE DEF x
  <2> QED BY <1>1, <2>1, <2>2
<1>5. CASE KeepWanted(r)
  <2> DEFINE x == [v EXCEPT !.pc = "memberships", !.wanted = DOMAIN InLive(v.scope)]
  <2>1. Read(r, x)
    BY <1>5 DEF KeepWanted
  <2>2. ViewOrDone(x)
    BY <1>2, <1>5 DEF ViewOrDone, KeepWanted, IsView, Parts, ViewPc, At
  <2> HIDE DEF x
  <2> QED BY <1>1, <2>1, <2>2
<1>6. CASE KeepLive(r)
  <2> DEFINE x == [v EXCEPT !.pc = "rows", !.scope = InLive(@)]
  <2>1. Read(r, x)
    BY <1>6 DEF KeepLive
  <2>2. ViewOrDone(x)
    BY <1>2, <1>6 DEF ViewOrDone, KeepLive, IsView, Parts, ViewPc, At
  <2> HIDE DEF x
  <2> QED BY <1>1, <2>1, <2>2
<1>7. CASE ReadRows(r)
  <2> DEFINE x == [v EXCEPT !.pc = "find", !.ids = MemberOf(v.call.user, Restricted(v.scope))]
  <2>1. Read(r, x)
    BY <1>7 DEF ReadRows
  <2>2. ViewOrDone(x)
    BY <1>2, <1>7 DEF ViewOrDone, ReadRows, IsView, Parts, ViewPc, At
  <2> HIDE DEF x
  <2> QED BY <1>1, <2>1, <2>2
<1>8. CASE FindProjects(r)
  <2> DEFINE x == [v EXCEPT !.pc = "query", !.pending = Queries(v.call.op),
               !.found = IF v.call.op = "list"
                         THEN VisibleFilter(v.call.workspace, v.scope[v.call.workspace], v.ids)
                         ELSE Found(v.scope, v.ids)]
  <2>1. Read(r, x)
    BY <1>8 DEF FindProjects
  <2>2. ViewOrDone(x)
    BY <1>2, <1>8 DEF ViewOrDone, FindProjects, IsView, Parts, ViewPc, At
  <2> HIDE DEF x
  <2> QED BY <1>1, <2>1, <2>2
<1>9. CASE Query(r)
  <2> DEFINE next(q, answer) ==
        [v EXCEPT !.pc = IF v.pending = {q} THEN "shown" ELSE @, !.pending = @ \ {q},
                  !.got = With(v.got, q, answer)]
  <2>1. PICK q, answer : Read(r, next(q, answer))
    BY <1>9 DEF Query
  <2>2. ViewOrDone(next(q, answer))
    BY <1>2, <1>9 DEF ViewOrDone, Query, IsView, Parts, ViewPc, At
  <2> HIDE DEF next
  <2> QED BY <1>1, <2>1, <2>2
<1> QED BY <1>3, <1>4, <1>5, <1>6, <1>7, <1>8, <1>9 DEF ViewStep

LEMMA ViewsKeepDatabase ==
  ASSUME Database, NEW r \in Requests, ViewStep(r)
  PROVE  Database'
<1>1. PICK x : req' = [req EXCEPT ![r] = x] /\ ViewOrDone(x)
  BY ViewMoves DEF Database
<1>2. UNCHANGED db
  BY ViewMoves DEF Database
<1>3. InsertsOK'
  BY <1>1, <1>2, InsertsKept DEF db, ViewOrDone, ViewPc
<1>4. Slots'
  BY <1>1, SlotsKept DEF Database, ViewOrDone
<1> QED BY <1>2, <1>3, <1>4 DEF db, Database, MemberType, ProjectType, TaskType, RowsFollow, TasksFollow

(* A write leaves an event that is due, or is done. *)
LEMMA WriteMoves ==
  ASSUME NEW r \in Requests, NEW w, NEW p, Publish(r, w, p) \/ Goto(r, Done)
  PROVE  \E x : req' = [req EXCEPT ![r] = x] /\ x.pc \in {"due", "done"}
<1> DEFINE x == [pc |-> "due", event |-> [by |-> r, workspace |-> w, project |-> p]]
<1>1. x.pc \in {"due", "done"} /\ Done.pc \in {"due", "done"}
  BY DEF Done
<1>2. req' = [req EXCEPT ![r] = x] \/ req' = [req EXCEPT ![r] = Done]
  BY DEF Publish, Goto
<1> HIDE DEF x
<1> QED BY <1>1, <1>2

(* Most writes leave the projects alone, and rows at most disappear. *)
LEMMA SmallWrites ==
  ASSUME Database, NEW r \in Requests, NEW x, req' = [req EXCEPT ![r] = x], x.pc \in {"due", "done"},
         calls' = calls, project' = project, live' \subseteq live, rows' \subseteq rows,
         MemberType', TaskType',
         \A t \in Tasks : task'[t].workspace = task[t].workspace /\ task'[t].project = task[t].project
  PROVE  Database'
<1>1. InsertsOK' /\ Slots'
  BY InsertsKept, SlotsKept DEF Database, ViewPc
<1>2. ProjectType' /\ RowsFollow(project, rows)' /\ TasksFollow(project, task)'
  BY DEF Database, ProjectType, RowsFollow, TasksFollow
<1> QED BY <1>1, <1>2 DEF Database

LEMMA WritesKeepDatabase ==
  ASSUME Database, NEW r \in Requests, WriteStep(r)
  PROVE  Database'
<1> USE DEF MemberType, ProjectType, TaskType
<1>0. ASSUME NEW x, req' = [req EXCEPT ![r] = x], x.pc \in {"due", "done"},
             \A p \in Projects : project[p].workspace \in Workspaces =>
               project'[p].workspace = project[p].workspace
      PROVE  InsertsOK' /\ Slots'
  BY <1>0, InsertsKept, SlotsKept DEF Database, ViewPc
<1>1. CASE CreateProject(r)
  <2>1. PICK c \in Asked(r, "createProject") :
          /\ project[c.project] = NoProject /\ Can(c.user, c.workspace, "project:create")
          /\ project' = [project EXCEPT ![c.project] = [live |-> TRUE, workspace |-> c.workspace]]
          /\ rows' = rows \cup {[project |-> c.project, workspace |-> c.workspace, user |-> c.user]}
          /\ Publish(r, c.workspace, c.project)
    BY <1>1 DEF CreateProject
  <2>2. c.user \in Users /\ c.project \in Projects /\ c.workspace \in Workspaces
    BY WriteCalls
  <2>3. UNCHANGED <<calls, live, member, task>>
    BY <1>1 DEF CreateProject, Write
  <2>4. project' \in [Projects -> ProjectDoc]
    BY <2>1, <2>2 DEF Database, ProjectDoc
  <2>5. \A p \in Projects : project[p].workspace \in Workspaces =>
               p # c.project /\ project'[p] = project[p]
    BY <2>1, <2>2, ViewsAssumption DEF Database, NoProject
  <2>6. rows' \subseteq ProjectMember
    BY <2>1, <2>2 DEF Database, ProjectMember
  <2>7. RowsFollow(project, rows)'
    BY <2>1, <2>2, <2>5, Documents DEF Database, RowsFollow
  <2>8. TasksFollow(project, task)'
    BY <2>3, <2>5, Documents DEF Database, TasksFollow
  <2>9. InsertsOK' /\ Slots'
    BY <1>0, <2>1, <2>5, WriteMoves
  <2> QED BY <2>3, <2>4, <2>6, <2>7, <2>8, <2>9 DEF Database
<1>2. CASE RemoveProject(r)
  <2>1. PICK c \in Asked(r, "removeProject") :
          /\ Authorized(c.user, c.project, "project:read")
          /\ project' = [project EXCEPT ![c.project].live = FALSE]
          /\ Publish(r, project[c.project].workspace, c.project)
    BY <1>2 DEF RemoveProject
  <2>2. UNCHANGED <<calls, live, member, rows, task>>
    BY <1>2 DEF RemoveProject, Write
  <2>3. c.project \in Projects /\ project[c.project].live
    BY <2>1, WriteCalls DEF Authorized
  <2>4. project[c.project] \in [live : BOOLEAN, workspace : Workspaces]
    BY <2>3 DEF Database, ProjectDoc, NoProject
  <2>5. /\ project' \in [Projects -> ProjectDoc]
        /\ \A p \in Projects : project'[p].workspace = project[p].workspace
    BY <2>1, <2>3, <2>4 DEF Database, ProjectDoc
  <2>6. RowsFollow(project, rows)' /\ TasksFollow(project, task)'
    BY <2>2, <2>5, Documents DEF Database, RowsFollow, TasksFollow
  <2>7. InsertsOK' /\ Slots'
    BY <1>0, <2>1, <2>5, WriteMoves
  <2> QED BY <2>2, <2>5, <2>6, <2>7 DEF Database
<1>3. CASE AddMember(r)
  <2>1. PICK c \in Asked(r, "add") :
          /\ Authorized(c.user, c.project, "project:manage_members")
          /\ Goto(r, [pc |-> "insert", call |-> c])
    BY <1>3 DEF AddMember
  <2>2. UNCHANGED db
    BY <1>3 DEF AddMember
  <2>3. /\ c.project \in Projects /\ c.target \in Users
        /\ project[c.project].workspace \in Workspaces
    BY <2>1, WriteCalls, Documents DEF Authorized
  <2>4. Slots'
    BY <2>1, SlotsKept DEF Goto, ViewPc, Database
  <2>5. InsertsOK'
    BY <2>1, <2>2, <2>3 DEF InsertsOK, Goto, At, Database, Slots, db
  <2> QED BY <2>2, <2>4, <2>5 DEF db, Database, RowsFollow, TasksFollow
<1>4. CASE AddMemberInsert(r)
  <2> DEFINE p == req[r].call.project
             u == req[r].call.target
             row == [project |-> p, workspace |-> project[p].workspace, user |-> u]
  <2>1. CASE Refused(r)
    <3>1. UNCHANGED db /\ req' = [req EXCEPT ![r] = Done]
      BY <2>1 DEF Refused, Goto
    <3>2. InsertsOK' /\ Slots'
      BY <1>0, <3>1 DEF Done, db
    <3> QED BY <3>1, <3>2 DEF db, Database, RowsFollow, TasksFollow
  <2>2. CASE rows' = rows \cup {row} /\ Publish(r, project[p].workspace, p)
             /\ UNCHANGED <<calls, live, member, project, task>>
    <3>1. p \in Projects /\ u \in Users /\ project[p].workspace \in Workspaces
      BY <1>4 DEF AddMemberInsert, Database, InsertsOK
    <3>2. rows' \subseteq ProjectMember /\ RowsFollow(project, rows)'
      BY <2>2, <3>1 DEF Database, ProjectMember, RowsFollow
    <3>3. InsertsOK' /\ Slots'
      BY <1>0, <2>2, WriteMoves
    <3> QED BY <2>2, <3>2, <3>3 DEF Database, TasksFollow
  <2> QED BY <1>4, <2>1, <2>2 DEF AddMemberInsert, Write
<1>5. CASE DropMember(r)
  <2>1. /\ UNCHANGED <<calls, live, member, project, task>> /\ rows' \subseteq rows
        /\ \E w, p : Publish(r, w, p)
    BY <1>5 DEF DropMember, Write
  <2> QED BY <2>1, SmallWrites, WriteMoves DEF Database
<1>6. CASE SetMember(r)
  <2>1. PICK c \in Asked(r, "member") :
          member' = [member EXCEPT ![c.workspace][c.user] = c.to] /\ Publish(r, c.workspace, None)
    BY <1>6 DEF SetMember
  <2>2. UNCHANGED <<calls, live, project, rows, task>>
    BY <1>6 DEF SetMember, Write
  <2>3. member' \in [Workspaces -> [Users -> Membership]]
    BY <2>1, WriteCalls DEF Database
  <2> QED BY <2>1, <2>2, <2>3, SmallWrites, WriteMoves DEF Database
<1>7. CASE RemoveMember(r)
  <2>1. PICK c \in Asked(r, "member") :
          /\ member' = [member EXCEPT ![c.workspace][c.user] = NoMember]
          /\ rows' \subseteq rows
          /\ task' = [t \in Tasks |->
               IF task[t].live /\ Open(t) /\ task[t].workspace = c.workspace
               THEN [task[t] EXCEPT !.assignees = @ \ {c.user}] ELSE task[t]]
          /\ Publish(r, c.workspace, None)
    BY <1>7 DEF RemoveMember
  <2>2. UNCHANGED <<calls, live, project>>
    BY <1>7 DEF RemoveMember, Write
  <2>3. member' \in [Workspaces -> [Users -> Membership]]
    BY <2>1, WriteCalls DEF Database, Membership
  <2>4. \A t \in Tasks : /\ task[t] \in TaskDoc
                        /\ [task[t] EXCEPT !.assignees = @ \ {c.user}] \in TaskDoc
    BY DEF Database, TaskDoc
  <2>5. \A t \in Tasks : /\ task'[t] \in TaskDoc
                        /\ task'[t].workspace = task[t].workspace /\ task'[t].project = task[t].project
    BY <2>1, <2>4 DEF TaskDoc
  <2>6. task' \in [Tasks -> TaskDoc]
    BY <2>1, <2>5
  <2> QED BY <2>1, <2>2, <2>3, <2>5, <2>6, SmallWrites, WriteMoves
<1>8. CASE DeleteWorkspace(r)
  <2>1. UNCHANGED <<calls, member, project, rows, task>> /\ live' \subseteq live /\ Goto(r, Done)
    BY <1>8 DEF DeleteWorkspace, Write
  <2> QED BY <2>1, SmallWrites, WriteMoves DEF Database
<1>9. CASE UpdateStatus(r)
  <2>1. PICK c \in Asked(r, "setStatus") :
          /\ task' = [task EXCEPT ![c.task] =
               [@ EXCEPT !.status = c.status, !.completed = IF c.status = "DONE" THEN Now ELSE NoDate]]
          /\ Publish(r, task[c.task].workspace, task[c.task].project)
    BY <1>9 DEF UpdateStatus
  <2>2. UNCHANGED <<calls, live, member, project, rows>>
    BY <1>9 DEF UpdateStatus, Write
  <2> DEFINE new == [task[c.task] EXCEPT !.status = c.status,
                                         !.completed = IF c.status = "DONE" THEN Now ELSE NoDate]
  <2>3. c.task \in Tasks /\ task[c.task] \in TaskDoc
    BY WriteCalls DEF Database
  <2>4. /\ new \in TaskDoc
        /\ new.workspace = task[c.task].workspace /\ new.project = task[c.task].project
    <3>1. \A n : n \in {Now, NoDate} => n \in 0 .. Now
      BY ViewsAssumption DEF NoDate
    <3>2. c.status \in TaskStatus
      BY WriteCalls
    <3>3. PICK n : n = IF c.status = "DONE" THEN Now ELSE NoDate
      OBVIOUS
    <3>4. n \in 0 .. Now
      BY <3>1, <3>3
    <3>5. /\ [task[c.task] EXCEPT !.status = c.status, !.completed = n] \in TaskDoc
          /\ [task[c.task] EXCEPT !.status = c.status, !.completed = n].workspace = task[c.task].workspace
          /\ [task[c.task] EXCEPT !.status = c.status, !.completed = n].project = task[c.task].project
      BY <2>3, <3>2, <3>4 DEF TaskDoc
    <3> QED BY <3>3, <3>5
  <2>5. task' = [task EXCEPT ![c.task] = new]
    BY <2>1
  <2> HIDE DEF new
  <2>6. /\ task' \in [Tasks -> TaskDoc]
        /\ \A t \in Tasks : task'[t].workspace = task[t].workspace /\ task'[t].project = task[t].project
    BY <2>3, <2>4, <2>5 DEF Database
  <2> QED BY <2>1, <2>2, <2>6, SmallWrites, WriteMoves DEF Database
<1>10. CASE RemoveTask(r)
  <2>1. PICK c \in Asked(r, "removeTask") :
          /\ task' = [t \in Tasks |->
               IF t = c.task \/ task[t].parent = c.task THEN [task[t] EXCEPT !.live = FALSE] ELSE task[t]]
          /\ Publish(r, task[c.task].workspace, task[c.task].project)
    BY <1>10 DEF RemoveTask
  <2>2. UNCHANGED <<calls, live, member, project, rows>>
    BY <1>10 DEF RemoveTask, Write
  <2>3. \A t \in Tasks : task[t] \in TaskDoc /\ [task[t] EXCEPT !.live = FALSE] \in TaskDoc
    BY DEF Database, TaskDoc
  <2>4. \A t \in Tasks : /\ task'[t] \in TaskDoc
                        /\ task'[t].workspace = task[t].workspace /\ task'[t].project = task[t].project
    BY <2>1, <2>3 DEF TaskDoc
  <2>5. task' \in [Tasks -> TaskDoc]
    BY <2>1, <2>4
  <2> QED BY <2>1, <2>2, <2>4, <2>5, SmallWrites, WriteMoves DEF Database
<1>11. CASE Record(r)
  <2>1. UNCHANGED db /\ Goto(r, Done)
    BY <1>11 DEF Record
  <2> QED BY <2>1, SmallWrites, WriteMoves DEF Database, db
<1> QED BY <1>1, <1>2, <1>3, <1>4, <1>5, <1>6, <1>7, <1>8, <1>9, <1>10, <1>11 DEF WriteStep

LEMMA DatabaseAlways == Spec => []Database
<1>1. Init => Database
  <2> SUFFICES ASSUME Init PROVE Database
    OBVIOUS
  <2>1. PICK plan \in Plans :
          /\ live = plan.live /\ member = plan.member /\ project = plan.project
          /\ rows = plan.rows /\ task = plan.task /\ calls = plan.calls
    BY DEF Init
  <2>2. Slots /\ InsertsOK
    BY DEF Init, Slots, InsertsOK, NoReq, At, ViewPc
  <2> QED BY <2>1, <2>2, ViewsAssumption DEF Database, MemberType, ProjectType, TaskType
<1>2. Database /\ [Next]_vars => Database'
  <2>1. Database /\ UNCHANGED vars => Database'
    BY DEF Database, vars, Slots, MemberType, ProjectType, TaskType, RowsFollow, TasksFollow, InsertsOK, At, IsView
  <2> QED BY <2>1, ViewsKeepDatabase, WritesKeepDatabase DEF Next
<1> QED BY <1>1, <1>2, PTL DEF Spec

(* The check of a project, the check of a list of people, the filter of a   *)
(* workspace's list and accessibleProjectIds agree in every state.         *)
THEOREM VisibilityCorrect == Spec => []SameVisibility
  BY DatabaseAlways, OneVisibility, PTL

-----------------------------------------------------------------------------
(* What a view may still come to show: at every read it has behind it, the  *)
(* projects that the reads to come can lead to are ones its user could see  *)
(* while it ran, or strays.                                                *)

Near(r, u, p) == p \in visible[r] \/ p \in Sees(u) \/ <<p, u>> \in strays

AllOf(v, p) == project[p].workspace \in DOMAIN v.scope /\ ReadsAll(v.scope[project[p].workspace])
InScope(v, p) ==
  project[p].workspace \in DOMAIN v.scope
  /\ (ReadsAll(v.scope[project[p].workspace]) \/ v.call.user \in OnProject(p))

Coming(v, p) ==
  \/ /\ project[p].live
     /\ \/ v.pc = "live" /\ project[p].workspace \in live /\ InScope(v, p)
        \/ v.pc = "rows" /\ InScope(v, p)
        \/ v.pc = "find" /\ (p \in v.ids \/ AllOf(v, p))
  \/ v.pc = "query" /\ p \in v.found

(* What the answers are about. *)
Says(v) ==
  LET has(q) == q \in DOMAIN v.got IN
  /\ has("projects") => v.got["projects"] = v.found
  /\ has("progress") => DOMAIN v.got["progress"] = v.found
  /\ has("tasks") => \A t \in v.got["tasks"] : t \in Tasks /\ task[t].project \in v.found
  /\ has("comments") => \A t \in v.got["comments"] : t \in Tasks /\ task[t].project \in v.found
  /\ has("page") => \A e \in v.got["page"] : e.project \in v.found \cup {None}

ViewPart(v) ==
  /\ v.call \in ViewCall
  /\ v.pc \in {"workspaces", "wanted", "memberships", "live"} => v.call.op # "list"
  /\ v.pc \in {"rows", "find"} /\ v.call.op = "list" => v.call.workspace \in DOMAIN v.scope
  /\ v.pc \notin {"query", "shown"} => DOMAIN v.got = {}
  /\ v.pc \in {"query", "shown"} =>
       DOMAIN v.got \cup v.pending = Queries(v.call.op) /\ v.found \subseteq Projects /\ Says(v)
  /\ v.pc = "shown" => v.pending = {}

ViewOK(r) ==
  LET v == req[r] IN
  v.pc \in ViewPc =>
    /\ ViewPart(v)
    /\ \A p \in Projects : Coming(v, p) => Near(r, v.call.user, p)
    /\ v.pc = "shown" => \A p \in v.found : p \in visible[r] \/ <<p, v.call.user>> \in strays

ViewsOK ==
  /\ visible = [r \in Requests |-> visible[r]]
  /\ \A r \in Requests : ViewOK(r)

-----------------------------------------------------------------------------
(* What any step does to what people can see: a project, or a row, that     *)
(* comes into being is one its user can see, or a stray.                   *)

Greeted(u, p) == p \in Sees(u)' \/ <<p, u>> \in strays'

Drift ==
  /\ live' \subseteq live /\ strays \subseteq strays'
  /\ \A t \in Tasks : task'[t].project = task[t].project
  /\ \A u \in Users, p \in Projects : project'[p].live =>
       \/ Greeted(u, p)
       \/ /\ project[p].live /\ project'[p].workspace = project[p].workspace
          /\ u \in OnProject(p)' => u \in OnProject(p)

LEMMA RowsOn ==
  \A u, p : u \in OnProject(p) <=> \E row \in rows : row.project = p /\ row.user = u
  BY DEF OnProject

LEMMA RowsOnNext ==
  \A u, p : u \in OnProject(p)' <=> \E row \in rows' : row.project = p /\ row.user = u
  BY DEF OnProject

(* With the projects as they are and no new rows, nobody has to be greeted. *)
LEMMA NothingNew ==
  ASSUME Database, live' \subseteq live, strays \subseteq strays', rows' \subseteq rows,
         \A p \in Projects : project'[p].live => project'[p] = project[p],
         \A t \in Tasks : task'[t].project = task[t].project
  PROVE  Drift
  BY RowsOn, RowsOnNext DEF Drift

(* Somebody with a role in the workspace of a live project sees it if the   *)
(* role reads everything or there is a row.                                *)
LEMMA SeesIt ==
  ASSUME Database, NEW u \in Users, NEW p \in Projects, project[p].live,
         Resolves(u, project[p].workspace),
         ReadsAll(member[project[p].workspace][u].role) \/ u \in OnProject(p)
  PROVE  p \in Sees(u)
  BY Documents, Readers DEF Sees, Authorized, CanSee, Can, Resolves

(* SeesIt after a step that leaves members and workspaces alone. *)
LEMMA SeesItNext ==
  ASSUME Database, live' = live, member' = member,
         NEW u \in Users, NEW p \in Projects, NEW w \in Workspaces, Resolves(u, w),
         project'[p].live, project'[p].workspace = w,
         ReadsAll(member[w][u].role) \/ u \in OnProject(p)'
  PROVE  (p \in Sees(u))'
<1>1. member[w][u].role \in WorkspaceRole
  BY Documents DEF Resolves
<1>2. RoleHasPermission(member[w][u].role, "project:read")
  BY <1>1, Readers
<1>3. Resolves(u, w)'
  BY DEF Resolves
<1>4. Can(u, w, "project:read")'
  BY <1>2, <1>3 DEF Can
<1>5. CanSee(u, w, p)'
  BY DEF CanSee
<1> QED BY <1>3, <1>4, <1>5 DEF Sees, Authorized

LEMMA DriftAlways ==
  ASSUME Database, Database', NEW r \in Requests, ViewStep(r) \/ WriteStep(r)
  PROVE  Drift
<1>1. CASE ViewStep(r)
  <2>1. UNCHANGED <<db, strays>>
    BY <1>1, ViewMoves DEF Database
  <2> QED BY <2>1, NothingNew DEF db
<1>2. CASE CreateProject(r)
  <2>1. PICK c \in Asked(r, "createProject") :
          /\ Can(c.user, c.workspace, "project:create")
          /\ project' = [project EXCEPT ![c.project] = [live |-> TRUE, workspace |-> c.workspace]]
          /\ rows' = rows \cup {[project |-> c.project, workspace |-> c.workspace, user |-> c.user]}
          /\ strays' = strays \cup
               {<<c.project, u>> : u \in {v \in Users :
                  ~Resolves(v, c.workspace) \/ ~ReadsAll(member[c.workspace][v].role)}}
    BY <1>2 DEF CreateProject
  <2>2. UNCHANGED <<calls, live, member, task>>
    BY <1>2 DEF CreateProject, Write
  <2>3. c.user \in Users /\ c.project \in Projects /\ c.workspace \in Workspaces
    BY WriteCalls
  <2>4. project'[c.project].live /\ project'[c.project].workspace = c.workspace
    BY <2>1, <2>3 DEF Database, ProjectType
  <2>5. ASSUME NEW u \in Users PROVE Greeted(u, c.project)
    <3>1. CASE Resolves(u, c.workspace) /\ ReadsAll(member[c.workspace][u].role)
      <4>1. (c.project \in Sees(u))'
        BY <2>2, <2>3, <2>4, <3>1, SeesItNext
      <4> QED BY <4>1 DEF Greeted
    <3>2. CASE ~(Resolves(u, c.workspace) /\ ReadsAll(member[c.workspace][u].role))
      BY <2>1, <3>2 DEF Greeted
    <3> QED BY <3>1, <3>2
  <2>6. ASSUME NEW u \in Users, NEW p \in Projects, p # c.project
        PROVE  project'[p] = project[p] /\ (u \in OnProject(p)' => u \in OnProject(p))
    BY <2>1, <2>6, RowsOn, RowsOnNext DEF Database, ProjectType
  <2> QED BY <2>1, <2>2, <2>5, <2>6 DEF Drift
<1>3. CASE RemoveProject(r)
  <2>1. PICK c \in Asked(r, "removeProject") : project' = [project EXCEPT ![c.project].live = FALSE]
    BY <1>3 DEF RemoveProject
  <2>2. UNCHANGED <<calls, live, member, rows, task, strays>>
    BY <1>3 DEF RemoveProject, Write
  <2>3. c.project \in Projects
    BY WriteCalls
  <2>4. ASSUME NEW p \in Projects, project'[p].live PROVE project'[p] = project[p]
    <3>1. CASE p = c.project
      <4>1. \/ project[p] = [live |-> FALSE, workspace |-> None]
            \/ project[p] \in [live : BOOLEAN, workspace : Workspaces]
        BY DEF Database, ProjectType, ProjectDoc, NoProject
      <4>2. project'[p] = [project[p] EXCEPT !.live = FALSE]
        BY <2>1, <3>1 DEF Database, ProjectType
      <4> QED BY <2>4, <4>1, <4>2
    <3>2. CASE p # c.project
      BY <2>1, <3>2 DEF Database, ProjectType
    <3> QED BY <3>1, <3>2
  <2> QED BY <2>2, <2>4, NothingNew
<1>4. CASE AddMember(r)
  BY <1>4, NothingNew DEF AddMember, db
<1>5. CASE AddMemberInsert(r)
  <2>0. PICK p, u, row :
          /\ p \in Projects /\ u \in Users
          /\ p = req[r].call.project /\ u = req[r].call.target
          /\ row = [project |-> p, workspace |-> project[p].workspace, user |-> u]
          /\ project[p].workspace \in Workspaces
    BY <1>5 DEF AddMemberInsert, Database, InsertsOK
  <2>1. CASE Refused(r)
    BY <2>1, NothingNew DEF Refused, db
  <2>2. CASE /\ rows' = rows \cup {row}
             /\ strays' = IF Resolves(u, project[p].workspace) THEN strays ELSE strays \cup {<<p, u>>}
             /\ UNCHANGED <<calls, live, member, project, task>>
    <3>1. row.project = p /\ row.user = u
      BY <2>0
    <3>2. ASSUME project'[p].live, Resolves(u, project[p].workspace) PROVE (p \in Sees(u))'
      <4>1. u \in OnProject(p)'
        BY <2>2, <3>1, RowsOnNext
      <4> QED BY <2>0, <2>2, <3>2, <4>1, SeesItNext
    <3>3. project'[p].live => Greeted(u, p)
      BY <2>2, <3>2 DEF Greeted
    <3>4. ASSUME NEW v \in Users, NEW q \in Projects, v # u \/ q # p
          PROVE  v \in OnProject(q)' => v \in OnProject(q)
      BY <2>2, <3>1, <3>4, RowsOn, RowsOnNext
    <3>5. strays \subseteq strays'
      BY <2>2
    <3> QED BY <2>2, <3>3, <3>4, <3>5 DEF Drift
  <2> QED BY <1>5, <2>0, <2>1, <2>2 DEF AddMemberInsert, Write
<1>6. CASE DropMember(r)
  <2>1. UNCHANGED <<calls, live, member, project, task, strays>> /\ rows' \subseteq rows
    BY <1>6 DEF DropMember, Write
  <2> QED BY <2>1, NothingNew
<1>7. CASE SetMember(r)
  BY <1>7, NothingNew DEF SetMember, Write
<1>8. CASE RemoveMember(r)
  <2>1. PICK c \in Asked(r, "member") :
          /\ rows' \subseteq rows
          /\ task' = [t \in Tasks |->
               IF task[t].live /\ Open(t) /\ task[t].workspace = c.workspace
               THEN [task[t] EXCEPT !.assignees = @ \ {c.user}] ELSE task[t]]
    BY <1>8 DEF RemoveMember
  <2>2. UNCHANGED <<live, project, strays>>
    BY <1>8 DEF RemoveMember, Write
  <2>3. \A t \in Tasks : task[t] \in TaskDoc
    BY DEF Database, TaskType
  <2>4. \A t \in Tasks : task'[t].project = task[t].project
    BY <2>1, <2>3 DEF TaskDoc
  <2> QED BY <2>1, <2>2, <2>4, NothingNew
<1>9. CASE DeleteWorkspace(r)
  BY <1>9, NothingNew DEF DeleteWorkspace, Write
<1>10. CASE UpdateStatus(r)
  <2>1. PICK c \in Asked(r, "setStatus") :
          task' = [task EXCEPT ![c.task] =
            [@ EXCEPT !.status = c.status, !.completed = IF c.status = "DONE" THEN Now ELSE NoDate]]
    BY <1>10 DEF UpdateStatus
  <2>2. UNCHANGED <<live, project, rows, strays>>
    BY <1>10 DEF UpdateStatus, Write
  <2>3. \A t \in Tasks : task[t] \in TaskDoc
    BY DEF Database, TaskType
  <2>4. \A t \in Tasks : task'[t].project = task[t].project
    BY <2>1, <2>3 DEF TaskDoc, Database, TaskType
  <2> QED BY <2>2, <2>4, NothingNew
<1>11. CASE RemoveTask(r)
  <2>1. PICK c \in Asked(r, "removeTask") :
          task' = [t \in Tasks |->
            IF t = c.task \/ task[t].parent = c.task THEN [task[t] EXCEPT !.live = FALSE] ELSE task[t]]
    BY <1>11 DEF RemoveTask
  <2>2. UNCHANGED <<live, project, rows, strays>>
    BY <1>11 DEF RemoveTask, Write
  <2>3. \A t \in Tasks : task[t] \in TaskDoc
    BY DEF Database, TaskType
  <2>4. \A t \in Tasks : task'[t].project = task[t].project
    BY <2>1, <2>3 DEF TaskDoc
  <2> QED BY <2>2, <2>4, NothingNew
<1>12. CASE Record(r)
  BY <1>12, NothingNew DEF Record, db
<1> QED BY <1>1, <1>2, <1>3, <1>4, <1>5, <1>6, <1>7, <1>8, <1>9, <1>10, <1>11, <1>12 DEF WriteStep

-----------------------------------------------------------------------------
(* A step of somebody else. *)

(* While a view runs, either its watcher looks or nothing is written. *)
Watched(r) ==
  LET u == req[r].call.user IN
  /\ visible[r] \subseteq visible'[r]
  /\ req[r].pc \in ViewPc \ {"shown"} => Sees(u) \subseteq visible'[r] \/ UNCHANGED db

LEMMA NearStays ==
  ASSUME Database, Drift, NEW r \in Requests, req[r].pc \in ViewPc \ {"shown"}, Watched(r),
         NEW p, Near(r, req[r].call.user, p)
  PROVE  p \in visible'[r] \/ <<p, req[r].call.user>> \in strays'
         \/ (UNCHANGED db /\ p \in Sees(req[r].call.user))
  BY DEF Watched, Near, Drift

LEMMA OthersKeepView ==
  ASSUME Database, Drift, NEW r \in Requests, ViewOK(r), req'[r] = req[r], Watched(r)
  PROVE  ViewOK(r)'
<1> DEFINE v == req[r]
           u == v.call.user
<1> SUFFICES ASSUME v.pc \in ViewPc PROVE ViewOK(r)'
  BY DEF ViewOK
<1>1. ViewPart(v)'
  BY DEF ViewOK, ViewPart, Says, Drift
<1>2. u \in Users
  BY DEF ViewOK, ViewPart, ViewCall
<1>3. ASSUME NEW p \in Projects, Coming(v, p)' PROVE Near(r, u, p)'
  <2>0. v.pc \in ViewPc \ {"shown"} /\ req'[r].call.user = u
    BY <1>3 DEF Coming, ViewPc
  <2>1. ASSUME Near(r, u, p) PROVE Near(r, u, p)'
    <3>1. UNCHANGED db /\ p \in Sees(u) => (p \in Sees(u))'
      BY <2>0 DEF db, Sees, Authorized, Resolves, CanSee, Can, OnProject
    <3> QED BY <2>0, <2>1, <3>1, NearStays DEF Near
  <2>2. CASE Greeted(u, p)
    BY <2>0, <2>2 DEF Greeted, Near
  <2>3. CASE /\ project[p].live /\ project'[p].workspace = project[p].workspace
             /\ u \in OnProject(p)' => u \in OnProject(p)
    <3>1. Coming(v, p)
      BY <1>3, <2>3 DEF Coming, InScope, AllOf, Drift
    <3> QED BY <2>1, <3>1 DEF ViewOK
  <2>4. CASE v.pc = "query" /\ p \in v.found
    BY <2>1, <2>4 DEF ViewOK, Coming
  <2> QED BY <1>2, <1>3, <2>2, <2>3, <2>4 DEF Coming, Drift
<1> QED BY <1>1, <1>3 DEF ViewOK, Drift, Watched

-----------------------------------------------------------------------------
(* A view's own step. *)

(* Nothing is written, and what was near is near. *)
LEMMA ReadKeepsNear ==
  ASSUME NEW r \in Requests, NEW x, Read(r, x), Viewing(r),
         visible = [s \in Requests |-> visible[s]], req = [s \in Requests |-> req[s]]
  PROVE  /\ req'[r] = x /\ UNCHANGED <<db, strays, log>>
         /\ \A p : Near(r, req[r].call.user, p) =>
              /\ p \in visible'[r] \/ <<p, req[r].call.user>> \in strays'
         /\ \A u, p : (p \in Sees(u))' <=> p \in Sees(u)
<1>1. UNCHANGED <<db, strays, log>> /\ req'[r] = x
  BY DEF Read, Goto
<1>2. visible'[r] = visible[r] \cup Sees(req[r].call.user)
  BY DEF Read, Watch
<1>3. \A u, p : (p \in Sees(u))' <=> p \in Sees(u)
  BY <1>1 DEF db, Sees, Authorized, Resolves, CanSee, Can, OnProject
<1> QED BY <1>1, <1>2, <1>3 DEF Near

LEMMA ReadsKeepView ==
  ASSUME Database, ViewsOK, NEW r \in Requests,
         ReadMemberships(r) \/ KeepWanted(r) \/ KeepLive(r) \/ ReadRows(r) \/ FindProjects(r)
  PROVE  ViewOK(r)'
<1> DEFINE v == req[r]
           u == v.call.user
<1>0. /\ v.pc \in ViewPc \ {"shown"} /\ Viewing(r) /\ IsView(v) /\ ViewOK(r) /\ ViewPart(v)
      /\ visible = [s \in Requests |-> visible[s]] /\ req = [s \in Requests |-> req[s]]
  BY DEF Database, Slots, ViewsOK, ViewOK, ViewPc, Viewing, At,
         ReadMemberships, KeepWanted, KeepLive, ReadRows, FindProjects
<1>1. u \in Users
  BY <1>0 DEF ViewPart, ViewCall
<1>2. ASSUME NEW x, Read(r, x), x.pc \in ViewPc \ {"shown"}, x.call = v.call, ViewPart(x),
             \A p \in Projects : Coming(x, p) => Near(r, u, p)
      PROVE  ViewOK(r)'
  <2>1. /\ req'[r] = x /\ UNCHANGED <<db, strays, log>>
        /\ \A p : Near(r, u, p) => p \in visible'[r] \/ <<p, u>> \in strays'
    BY <1>0, <1>2, ReadKeepsNear
  <2>2. \A p \in Projects : Coming(x, p)' => Coming(x, p)
    BY <2>1 DEF Coming, InScope, AllOf, OnProject, db
  <2>3. ViewPart(x)'
    BY <1>2, <2>1 DEF ViewPart, Says, db
  <2> QED BY <1>2, <2>1, <2>2, <2>3 DEF ViewOK, Near
<1>3. CASE ReadMemberships(r)
  <2>0. PICK x : x = [v EXCEPT !.pc = IF @ = "workspaces" THEN "wanted" ELSE "live",
                            !.scope = RolesIn(u, ActiveIn(u) \cap v.wanted)]
    OBVIOUS
  <2>1. Read(r, x) /\ v.pc \in {"workspaces", "memberships"}
    BY <1>3, <2>0 DEF ReadMemberships
  <2>2. /\ x.pc \in {"wanted", "live"} /\ x.call = v.call /\ x.got = v.got
        /\ DOMAIN x.scope \subseteq ActiveIn(u)
        /\ \A w \in DOMAIN x.scope : x.scope[w] = member[w][u].role
    BY <1>0, <2>0 DEF IsView, Parts, RolesIn
  <2>3. ViewPart(x)
    BY <1>0, <2>1, <2>2 DEF ViewPart
  <2>4. ASSUME NEW p \in Projects, Coming(x, p) PROVE Near(r, u, p)
    <3>1. /\ project[p].live /\ project[p].workspace \in live /\ project[p].workspace \in ActiveIn(u)
          /\ ReadsAll(member[project[p].workspace][u].role) \/ u \in OnProject(p)
      BY <2>2, <2>4 DEF Coming, InScope
    <3>2. Resolves(u, project[p].workspace)
      BY <3>1 DEF Resolves, ActiveIn
    <3> QED BY <1>1, <3>1, <3>2, SeesIt DEF Near
  <2> QED BY <1>2, <2>1, <2>2, <2>3, <2>4 DEF ViewPc
<1>4. CASE KeepWanted(r)
  <2>0. PICK x : x = [v EXCEPT !.pc = "memberships", !.wanted = DOMAIN InLive(v.scope)]
    OBVIOUS
  <2>1. Read(r, x) /\ v.pc = "wanted"
    BY <1>4, <2>0 DEF KeepWanted, At
  <2>2. x.pc = "memberships" /\ x.call = v.call /\ x.got = v.got
    BY <1>0, <2>0 DEF IsView, Parts
  <2>3. ViewPart(x)
    BY <1>0, <2>1, <2>2 DEF ViewPart
  <2>4. \A p \in Projects : ~Coming(x, p)
    BY <2>2 DEF Coming
  <2> QED BY <1>2, <2>1, <2>2, <2>3, <2>4 DEF ViewPc
<1>5. CASE KeepLive(r)
  <2>0. PICK x : x = [v EXCEPT !.pc = "rows", !.scope = InLive(@)]
    OBVIOUS
  <2>1. Read(r, x) /\ v.pc = "live"
    BY <1>5, <2>0 DEF KeepLive, At
  <2>2. /\ x.pc = "rows" /\ x.call = v.call /\ x.got = v.got
        /\ DOMAIN x.scope = DOMAIN v.scope \cap live
        /\ \A w \in DOMAIN x.scope : x.scope[w] = v.scope[w]
    BY <1>0, <2>0 DEF IsView, Parts, InLive
  <2>3. ViewPart(x)
    BY <1>0, <2>1, <2>2 DEF ViewPart
  <2>4. \A p \in Projects : Coming(x, p) => Coming(v, p)
    BY <2>1, <2>2 DEF Coming, InScope
  <2> QED BY <1>0, <1>2, <2>1, <2>2, <2>3, <2>4 DEF ViewPc, ViewOK
<1>6. CASE ReadRows(r)
  <2>0. PICK x : x = [v EXCEPT !.pc = "find", !.ids = MemberOf(u, Restricted(v.scope))]
    OBVIOUS
  <2>1. Read(r, x) /\ v.pc = "rows"
    BY <1>6, <2>0 DEF ReadRows, At
  <2>2. /\ x.pc = "find" /\ x.call = v.call /\ x.got = v.got /\ x.scope = v.scope
        /\ x.ids = MemberOf(u, Restricted(v.scope))
    BY <1>0, <2>0 DEF IsView, Parts
  <2>3. ViewPart(x)
    BY <1>0, <2>1, <2>2 DEF ViewPart
  <2>4. ASSUME NEW p \in Projects, Coming(x, p) PROVE Coming(v, p)
    <3>1. p \in x.ids => project[p].workspace \in DOMAIN v.scope /\ u \in OnProject(p)
      BY <2>2, RowsOn DEF MemberOf, Restricted, Database, RowsFollow
    <3> QED BY <2>1, <2>2, <2>4, <3>1 DEF Coming, InScope, AllOf
  <2> QED BY <1>0, <1>2, <2>1, <2>2, <2>3, <2>4 DEF ViewPc, ViewOK
<1>7. CASE FindProjects(r)
  <2> DEFINE found == IF v.call.op = "list"
                      THEN VisibleFilter(v.call.workspace, v.scope[v.call.workspace], v.ids)
                      ELSE Found(v.scope, v.ids)
  <2>0. PICK x : x = [v EXCEPT !.pc = "query", !.pending = Queries(v.call.op), !.found = found]
    OBVIOUS
  <2>1. Read(r, x) /\ v.pc = "find"
    BY <1>7, <2>0 DEF FindProjects, At
  <2>2. /\ x.pc = "query" /\ x.call = v.call /\ x.got = v.got /\ x.pending = Queries(v.call.op)
        /\ x.found = found
    BY <1>0, <2>0 DEF IsView, Parts
  <2>3. found \subseteq Projects
    BY DEF VisibleFilter, Found
  <2>4. \A p \in found : Coming(v, p)
    BY <1>0, <2>1 DEF VisibleFilter, Found, Restricted, Coming, AllOf, ViewPart
  <2> HIDE DEF found
  <2>5. ViewPart(x)
    BY <1>0, <2>1, <2>2, <2>3 DEF ViewPart, Says
  <2>6. \A p \in Projects : Coming(x, p) => p \in found
    BY <2>2 DEF Coming
  <2> QED BY <1>0, <1>2, <2>1, <2>2, <2>3, <2>4, <2>5, <2>6 DEF ViewPc, ViewOK
<1> QED BY <1>3, <1>4, <1>5, <1>6, <1>7

(* The answer to a query says of the projects found what Says wants. *)
LEMMA AnswersSay ==
  ASSUME NEW c, NEW ps, NEW q, NEW a \in Answers(c, ps, q)
  PROVE  /\ q = "projects" => a = ps
         /\ q = "progress" => DOMAIN a = ps
         /\ q = "tasks" => \A t \in a : t \in Tasks /\ task[t].project \in ps
         /\ q = "comments" => \A t \in a : t \in Tasks /\ task[t].project \in ps
         /\ q = "page" => \A e \in a : e.project \in ps \cup {None}
<1>1. q = "projects" => a = ps
  BY DEF Answers
<1>2. q = "progress" => DOMAIN a = ps
  <2>1. q = "progress" => a = ProgressBy(ps)
    BY DEF Answers
  <2> QED BY <2>1 DEF ProgressBy
<1>3. q = "tasks" => a = TasksOf(ps)
  BY DEF Answers
<1>4. q = "comments" => a = {t \in Tasks : task[t].project \in ps}
  BY DEF Answers
<1>5. q = "page" => a = {e \in log : e.workspace = c.workspace /\ e.project \in ps \cup {None}}
  BY DEF Answers
<1> QED BY <1>1, <1>2, <1>3, <1>4, <1>5 DEF TasksOf

LEMMA QueryKeepsView ==
  ASSUME Database, ViewsOK, NEW r \in Requests, Query(r)
  PROVE  ViewOK(r)'
<1> DEFINE v == req[r]
           u == v.call.user
<1>0. /\ v.pc = "query" /\ Viewing(r) /\ IsView(v) /\ ViewOK(r) /\ ViewPart(v)
      /\ visible = [s \in Requests |-> visible[s]] /\ req = [s \in Requests |-> req[s]]
  BY DEF Database, Slots, ViewsOK, ViewOK, ViewPc, Viewing, At, Query
<1>1. PICK q, answer, x :
        /\ q \in v.pending
        /\ answer \in Answers(v.call, v.found, q)
        /\ x = [v EXCEPT !.pc = IF v.pending = {q} THEN "shown" ELSE @, !.pending = @ \ {q},
                         !.got = With(v.got, q, answer)]
        /\ Read(r, x)
  BY DEF Query
<1>2. /\ x.pc = IF v.pending = {q} THEN "shown" ELSE "query"
      /\ x.call = v.call /\ x.found = v.found /\ x.pending = v.pending \ {q}
      /\ x.got = With(v.got, q, answer)
  BY <1>0, <1>1 DEF IsView, Parts
<1>3. /\ DOMAIN x.got = DOMAIN v.got \cup {q}
      /\ x.got[q] = answer
      /\ \A k \in DOMAIN v.got : k # q => x.got[k] = v.got[k]
  BY <1>2 DEF With
<1>4. Says(v)
  BY <1>0 DEF ViewPart
<1>5. Says(x)
  BY <1>1, <1>2, <1>3, <1>4, AnswersSay DEF Says
<1>6. ViewPart(x)
  <2>1. x.pc \in {"query", "shown"} /\ (x.pc = "shown" => x.pending = {})
    BY <1>2
  <2>2. DOMAIN x.got \cup x.pending = DOMAIN v.got \cup v.pending
    BY <1>1, <1>2, <1>3
  <2>3. v.call \in ViewCall /\ v.found \subseteq Projects
        /\ DOMAIN v.got \cup v.pending = Queries(v.call.op)
    BY <1>0 DEF ViewPart
  <2> QED BY <1>2, <1>5, <2>1, <2>2, <2>3 DEF ViewPart
<1>7. /\ req'[r] = x /\ UNCHANGED <<db, strays, log>>
      /\ \A p : Near(r, u, p) => p \in visible'[r] \/ <<p, u>> \in strays'
  BY <1>0, <1>1, ReadKeepsNear
<1>8. ViewPart(x)'
  BY <1>6, <1>7 DEF ViewPart, Says, db
<1>9. \A p \in Projects : p \in v.found => p \in visible'[r] \/ <<p, u>> \in strays'
  BY <1>0, <1>7 DEF ViewOK, Coming, ViewPc
<1>10. v.found \subseteq Projects
  BY <1>0 DEF ViewPart
<1>11. \A p : Coming(x, p)' => p \in v.found
  BY <1>2 DEF Coming
<1> QED BY <1>2, <1>7, <1>8, <1>9, <1>10, <1>11 DEF ViewOK, Near

(* A project list starts from the membership it was authorized by. *)
LEMMA StartKeepsView ==
  ASSUME Database, ViewsOK, NEW r \in Requests, Start(r)
  PROVE  ViewOK(r)'
<1>0. /\ visible = [s \in Requests |-> visible[s]] /\ req = [s \in Requests |-> req[s]]
  BY DEF Database, Slots, ViewsOK
<1>01. PICK c \in ViewCall : Goto(r, Started(c)) /\ visible' = [visible EXCEPT ![r] = Sees(c.user)]
  BY DEF Start
<1>02. PICK x : x = Started(c)
  OBVIOUS
<1>1. x = Started(c) /\ Goto(r, x) /\ visible' = [visible EXCEPT ![r] = Sees(c.user)]
  BY <1>01, <1>02
<1>2. UNCHANGED <<db, strays>> /\ req'[r] = x /\ visible'[r] = Sees(c.user)
  BY <1>0, <1>1 DEF Start, Goto
<1>3. c.user \in Users /\ (c.op = "list" => c.workspace \in Workspaces)
  BY DEF ViewCall
<1>4. \/ x = Done
      \/ /\ x.pc \in {"workspaces", "memberships"} /\ c.op # "list"
         /\ x.call = c /\ x.got = <<>>
      \/ /\ c.op = "list" /\ Can(c.user, c.workspace, "project:read")
         /\ x.pc = "rows" /\ x.call = c /\ x.got = <<>>
         /\ x.scope = RolesIn(c.user, {c.workspace})
  BY <1>1 DEF Started, ViewState, Needs
<1>5. CASE x = Done
  BY <1>2, <1>5 DEF ViewOK, Done, ViewPc
<1>6. CASE x.pc \in {"workspaces", "memberships"} /\ c.op # "list" /\ x.call = c /\ x.got = <<>>
  <2>1. ViewPart(x)'
    BY <1>6 DEF ViewPart
  <2>2. \A p : ~Coming(x, p)'
    BY <1>6 DEF Coming
  <2> QED BY <1>2, <1>6, <2>1, <2>2 DEF ViewOK
<1>7. CASE /\ c.op = "list" /\ Can(c.user, c.workspace, "project:read")
           /\ x.pc = "rows" /\ x.call = c /\ x.got = <<>>
           /\ x.scope = RolesIn(c.user, {c.workspace})
  <2>1. DOMAIN x.scope = {c.workspace} /\ x.scope[c.workspace] = member[c.workspace][c.user].role
    BY <1>7 DEF RolesIn
  <2>2. ViewPart(x)'
    BY <1>7, <2>1 DEF ViewPart
  <2>3. ASSUME NEW p \in Projects, Coming(x, p)' PROVE p \in Sees(c.user)
    <3>1. /\ project[p].live /\ project[p].workspace = c.workspace
          /\ ReadsAll(member[c.workspace][c.user].role) \/ c.user \in OnProject(p)
      BY <1>2, <1>7, <2>1, <2>3 DEF Coming, InScope, OnProject, db
    <3>2. Resolves(c.user, c.workspace)
      BY <1>7 DEF Can
    <3> QED BY <1>3, <3>1, <3>2, SeesIt
  <2> QED BY <1>2, <1>7, <2>2, <2>3 DEF ViewOK, Near
<1> QED BY <1>4, <1>5, <1>6, <1>7

-----------------------------------------------------------------------------
(* Any step. *)

(* A write shows nothing, and every running view looks on. *)
LEMMA WritesWatch ==
  ASSUME NEW s \in Requests, WriteStep(s)
  PROVE  Watch /\ \E x : req' = [req EXCEPT ![s] = x] /\ x.pc \notin ViewPc
<1>1. ASSUME NEW w, NEW p, Publish(s, w, p) \/ Goto(s, Done)
      PROVE  \E x : req' = [req EXCEPT ![s] = x] /\ x.pc \notin ViewPc
  BY <1>1, WriteMoves DEF ViewPc
<1>2. CASE CreateProject(s)
  BY <1>1, <1>2 DEF CreateProject, Write
<1>3. CASE RemoveProject(s)
  BY <1>1, <1>3 DEF RemoveProject, Write
<1>4. CASE AddMember(s)
  <2>1. PICK c, x : x = [pc |-> "insert", call |-> c] /\ req' = [req EXCEPT ![s] = x]
    BY <1>4 DEF AddMember, Goto
  <2>2. x.pc \notin ViewPc
    BY <2>1 DEF ViewPc
  <2> QED BY <1>4, <2>1, <2>2 DEF AddMember
<1>5. CASE AddMemberInsert(s)
  BY <1>1, <1>5 DEF AddMemberInsert, Refused, Write
<1>6. CASE DropMember(s)
  BY <1>1, <1>6 DEF DropMember, Write
<1>7. CASE SetMember(s)
  BY <1>1, <1>7 DEF SetMember, Write
<1>8. CASE RemoveMember(s)
  BY <1>1, <1>8 DEF RemoveMember, Write
<1>9. CASE DeleteWorkspace(s)
  BY <1>1, <1>9 DEF DeleteWorkspace, Write
<1>10. CASE UpdateStatus(s)
  BY <1>1, <1>10 DEF UpdateStatus, Write
<1>11. CASE RemoveTask(s)
  BY <1>1, <1>11 DEF RemoveTask, Write
<1>12. CASE Record(s)
  BY <1>1, <1>12 DEF Record
<1> QED BY <1>2, <1>3, <1>4, <1>5, <1>6, <1>7, <1>8, <1>9, <1>10, <1>11, <1>12 DEF WriteStep

(* A step is another's Start, which writes nothing, or every view looks on. *)
LEMMA StepsWatch ==
  ASSUME Slots, NEW s \in Requests, ViewStep(s) \/ WriteStep(s)
  PROVE  Watch \/ (Start(s) /\ UNCHANGED db)
BY WritesWatch, ViewMoves DEF ViewStep, ReadMemberships, KeepWanted, KeepLive, ReadRows, FindProjects,
   Query, Read

LEMMA OthersWatched ==
  ASSUME Database, ViewsOK, NEW s \in Requests, ViewStep(s) \/ WriteStep(s),
         NEW r \in Requests, r # s
  PROVE  req'[r] = req[r] /\ Watched(r)
<1>1. req'[r] = req[r]
  <2>1. PICK x : req' = [req EXCEPT ![s] = x]
    BY ViewMoves, WritesWatch DEF Database
  <2> QED BY <2>1 DEF Database, Slots
<1>2. CASE Watch
  BY <1>1, <1>2 DEF Watch, Watched, Viewing, ViewPc
<1>3. CASE Start(s) /\ UNCHANGED db
  <2>1. visible'[r] = visible[r]
    BY <1>3 DEF Start, ViewsOK
  <2> QED BY <1>1, <1>3, <2>1 DEF Watched
<1> QED BY <1>1, <1>2, <1>3, StepsWatch DEF Database

LEMMA StepsKeepViews ==
  ASSUME Database, Database', ViewsOK, NEW s \in Requests, ViewStep(s) \/ WriteStep(s)
  PROVE  ViewsOK'
<1>1. visible' = [r \in Requests |-> visible'[r]]
  BY StepsWatch DEF Database, Watch, Start, ViewsOK
<1>2. ViewOK(s)'
  <2>1. CASE ViewStep(s)
    BY <2>1, StartKeepsView, ReadsKeepView, QueryKeepsView DEF ViewStep
  <2>2. CASE WriteStep(s)
    <3>1. PICK x : req' = [req EXCEPT ![s] = x] /\ x.pc \notin ViewPc
      BY <2>2, WritesWatch
    <3> QED BY <3>1 DEF Database, Slots, ViewOK
  <2> QED BY <2>1, <2>2
<1>3. ASSUME NEW r \in Requests, r # s PROVE ViewOK(r)'
  BY <1>3, OthersWatched, OthersKeepView, DriftAlways DEF ViewsOK
<1> QED BY <1>1, <1>2, <1>3 DEF ViewsOK

LEMMA ViewsAlways == Spec => []ViewsOK
<1>1. Init => ViewsOK
  BY DEF Init, ViewsOK, ViewOK, NoReq, ViewPc
<1>2. Database /\ Database' /\ ViewsOK /\ [Next]_vars => ViewsOK'
  <2>1. ASSUME ViewsOK, UNCHANGED vars PROVE ViewsOK'
    <3>1. /\ \A u, p : (p \in Sees(u))' <=> p \in Sees(u)
          /\ \A u, p : (u \in OnProject(p))' <=> u \in OnProject(p)
      BY <2>1 DEF vars, Sees, Authorized, Resolves, CanSee, Can, OnProject
    <3>2. ASSUME NEW r \in Requests PROVE ViewOK(r)'
      <4>1. PICK v : v = req[r] /\ req'[r] = v
        BY <2>1 DEF vars
      <4>2. ViewPart(v) => ViewPart(v)'
        BY <2>1 DEF vars, ViewPart, Says
      <4>3. \A p : Coming(v, p)' => Coming(v, p)
        BY <2>1, <3>1 DEF vars, Coming, InScope, AllOf
      <4>4. \A p : Near(r, v.call.user, p) => Near(r, v.call.user, p)'
        BY <2>1, <3>1 DEF vars, Near
      <4> QED BY <2>1, <4>1, <4>2, <4>3, <4>4 DEF vars, ViewsOK, ViewOK
    <3> QED BY <2>1, <3>2 DEF vars, ViewsOK
  <2> QED BY <2>1, StepsKeepViews DEF Next
<1> QED BY <1>1, <1>2, DatabaseAlways, PTL DEF Spec

(* Whatever a view shows of a project, its user could see at some moment    *)
(* while the view ran, or it is a stray.                                   *)
THEOREM ShownCorrect == Spec => []ShownWasVisible
<1>1. ViewsOK => ShownWasVisible
  <2> SUFFICES ASSUME ViewsOK, NEW r \in Requests, Shown(r), NEW p \in ProjectsShown(r)
               PROVE  p \in visible[r] \/ <<p, req[r].call.user>> \in strays
    BY DEF ShownWasVisible
  <2> DEFINE v == req[r]
  <2>1. /\ ViewPart(v) /\ v.pc = "shown"
        /\ \A q \in v.found : q \in visible[r] \/ <<q, v.call.user>> \in strays
    BY DEF ViewsOK, ViewOK, ViewPc, Shown, At
  <2>2. DOMAIN v.got = Queries(v.call.op) /\ Says(v)
    BY <2>1 DEF ViewPart
  <2>3. v.call.op \in {"list", "feed", "dashboard", "summary", "search"}
    BY <2>1 DEF ViewPart, ViewCall
  <2>4. CASE v.call.op = "search"
    BY <2>1, <2>2, <2>4 DEF ProjectsShown, Says, Queries
  <2>5. CASE v.call.op = "feed"
    BY <2>1, <2>2, <2>5 DEF ProjectsShown, Says, Queries
  <2>6. CASE v.call.op \in {"list", "dashboard"}
    BY <2>1, <2>2, <2>6 DEF ProjectsShown, Says, Queries
  <2>7. CASE v.call.op = "summary"
    BY <2>1, <2>7 DEF ProjectsShown
  <2> QED BY <2>3, <2>4, <2>5, <2>6, <2>7
<1> QED BY <1>1, ViewsAlways, PTL

-----------------------------------------------------------------------------
(* Sums.  A sum over a finite set is the value that a recursive function    *)
(* has there; two functions that satisfy the recursion agree, by the least *)
(* number principle.                                                       *)

Less == {ss \in Nat \X Nat : ss[1] < ss[2]}

LEMMA LeastNumber ==
  ASSUME NEW T, T \subseteq Nat, T # {}
  PROVE  \E n \in T : \A m \in T : ~(m < n)
<1>1. IsWellFoundedOn(Less, Nat)
  <2>1. OpToRel(<, Nat) = Less
    BY DEF OpToRel, Less
  <2>2. IsWellFoundedOn(OpToRel(<, Nat), Nat)
    BY NatLessThanWellFounded
  <2> QED BY <2>1, <2>2
<1>2. \E n \in T : \A m \in T : <<m, n>> \notin Less
  BY <1>1, WFMin
<1> QED BY <1>2 DEF Less

Pick(s) == CHOOSE x \in s : TRUE
Sums(f, S, g) == g = [s \in SUBSET S |-> IF s = {} THEN 0 ELSE f[Pick(s)] + g[s \ {Pick(s)}]]

LEMMA SumsAgree ==
  ASSUME NEW f, NEW S, IsFiniteSet(S), NEW g, NEW h, Sums(f, S, g), Sums(f, S, h)
  PROVE  g[S] = h[S]
<1> DEFINE T == {n \in Nat : \E s \in SUBSET S : Cardinality(s) = n /\ g[s] # h[s]}
<1>0. \A s \in SUBSET S : IsFiniteSet(s) /\ Cardinality(s) \in Nat
  BY FS_Subset, FS_CardinalityType
<1>1. CASE T = {}
  BY <1>0, <1>1
<1>2. CASE T # {}
  <2>1. PICK n \in T : \A m \in T : ~(m < n)
    BY <1>2, LeastNumber
  <2>2. PICK s \in SUBSET S : Cardinality(s) = n /\ g[s] # h[s]
    BY <2>1
  <2>3. \A k \in {g, h} : k[s] = IF s = {} THEN 0 ELSE f[Pick(s)] + k[s \ {Pick(s)}]
    BY DEF Sums
  <2>4. s # {}
    BY <2>2, <2>3
  <2>5. PICK x : x = Pick(s)
    OBVIOUS
  <2>6. x \in s
    BY <2>4, <2>5 DEF Pick
  <2>7. Cardinality(s \ {x}) = n - 1 /\ s \ {x} \in SUBSET S
    BY <1>0, <2>2, <2>6, FS_RemoveElement
  <2>8. Cardinality(s \ {x}) \in Nat
    BY <1>0, <2>7
  <2>9. g[s \ {x}] = h[s \ {x}]
    BY <2>1, <2>7, <2>8
  <2> QED BY <2>2, <2>3, <2>4, <2>5, <2>9
<1> QED BY <1>1, <1>2

LEMMA DisjointSizes ==
  ASSUME NEW A, IsFiniteSet(A), NEW B, IsFiniteSet(B), A \cap B = {}
  PROVE  Cardinality(A \cup B) = Cardinality(A) + Cardinality(B)
<1>1. Cardinality(A \cap B) = 0
  BY FS_EmptySet
<1>2. Cardinality(A \cup B) = Cardinality(A) + Cardinality(B) - Cardinality(A \cap B)
  BY FS_Union
<1>3. Cardinality(A) \in Nat /\ Cardinality(B) \in Nat
  BY FS_CardinalityType
<1> QED BY <1>1, <1>2, <1>3

(* The sum of the sizes of a finite set's parts is its size. *)
LEMMA TotalOfParts ==
  ASSUME NEW S, IsFiniteSet(S), NEW T, IsFiniteSet(T),
         NEW part, \A t \in T : part[t] \in S,
         NEW f, DOMAIN f = S, \A x \in S : f[x] = Cardinality({t \in T : part[t] = x})
  PROVE  Total(f) = Cardinality(T)
<1> DEFINE In(s) == {t \in T : part[t] \in s}
           h == [s \in SUBSET S |-> Cardinality(In(s))]
<1>1. Sums(f, S, h)
  <2>1. ASSUME NEW s \in SUBSET S, s # {} PROVE Cardinality(In(s)) = f[Pick(s)] + h[s \ {Pick(s)}]
    <3>1. PICK x : x = Pick(s)
      OBVIOUS
    <3>2. x \in s
      BY <2>1, <3>1 DEF Pick
    <3>3. IsFiniteSet({t \in T : part[t] = x}) /\ IsFiniteSet(In(s \ {x}))
      BY FS_Subset
    <3>4. {t \in T : part[t] = x} \cap In(s \ {x}) = {} /\ {t \in T : part[t] = x} \cup In(s \ {x}) = In(s)
      BY <3>2
    <3>6. Cardinality(In(s)) = Cardinality({t \in T : part[t] = x}) + Cardinality(In(s \ {x}))
      BY <3>3, <3>4, DisjointSizes
    <3>7. f[x] = Cardinality({t \in T : part[t] = x}) /\ h[s \ {x}] = Cardinality(In(s \ {x}))
      BY <3>2
    <3> QED BY <3>1, <3>6, <3>7
  <2>2. In({}) = {} /\ Cardinality({}) = 0
    BY FS_EmptySet
  <2>3. \A s \in SUBSET S : h[s] = IF s = {} THEN 0 ELSE f[Pick(s)] + h[s \ {Pick(s)}]
    BY <2>1, <2>2
  <2> QED BY <2>3 DEF Sums
<1>2. In(S) = T
  OBVIOUS
<1>3. h[S] = Cardinality(T)
  BY <1>2
<1> HIDE DEF h
<1>4. PICK g : g = CHOOSE k : Sums(f, S, k)
  OBVIOUS
<1>5. Sums(f, S, g)
  BY <1>1, <1>4
<1>6. Total(f) = (CHOOSE k : Sums(f, DOMAIN f, k))[DOMAIN f]
  BY DEF Total, MapThenSumSet, MapThenFoldSet, Sums, Pick
<1> QED BY <1>1, <1>3, <1>4, <1>5, <1>6, SumsAgree

-----------------------------------------------------------------------------
(* The calendar. *)

LEMMA Scaled ==
  ASSUME NEW a \in Int, NEW b \in Int, NEW n \in Nat \ {0}
  PROVE  a * n <= b * n <=> a <= b
  OBVIOUS

LEMMA Quotient ==
  ASSUME NEW a \in Int, NEW n \in Nat \ {0}
  PROVE  a \div n \in Int /\ (a \div n) * n <= a /\ a < (a \div n) * n + n
  OBVIOUS

(* An instant is not before the start of a day if its day is not before it. *)
LEMMA NotBefore ==
  ASSUME NEW a \in Int, NEW q \in Int, NEW n \in Nat \ {0}
  PROVE  a >= q * n <=> a \div n >= q
<1> DEFINE d == a \div n
<1>1. d \in Int /\ d * n <= a /\ a < d * n + n
  BY Quotient
<1> HIDE DEF d
<1>2. CASE d >= q
  <2>1. q * n <= d * n
    BY <1>1, <1>2, Scaled
  <2> QED BY <1>1, <1>2, <2>1 DEF d
<1>3. CASE d < q
  <2>1. (d + 1) * n <= q * n
    BY <1>1, <1>3, Scaled
  <2>2. (d + 1) * n = d * n + n
    BY <1>1
  <2> QED BY <1>1, <1>3, <2>1, <2>2 DEF d
<1> QED BY <1>1, <1>2, <1>3

LEMMA Multiple ==
  ASSUME NEW q \in Int, NEW n \in Nat \ {0}
  PROVE  (q * n) \div n = q
  BY NotBefore, Quotient

LEMMA Clock ==
  ASSUME NEW tz \in Int
  PROVE  /\ Now \in Int /\ LocalDay(Now, tz) \in Int
         /\ DayStart(Now, tz) \in Int /\ DayEnd(Now, tz) \in Int /\ SoonEnd(tz) \in Int
         /\ DayStart(Now, tz) < DayEnd(Now, tz) /\ DayEnd(Now, tz) <= SoonEnd(tz)
         /\ DayStart(Now, tz) <= Now /\ Now < DayEnd(Now, tz)
<1>1. Now \in Nat /\ Day \in Nat \ {0}
  BY ViewsAssumption, DayAssumption
<1>2. /\ LocalDay(Now, tz) \in Int
      /\ LocalDay(Now, tz) * Day <= Now - tz /\ Now - tz < LocalDay(Now, tz) * Day + Day
  BY <1>1, Quotient DEF LocalDay
<1>3. LocalDay(Now, tz) * Day \in Int
  BY <1>1, <1>2
<1> QED BY <1>1, <1>2, <1>3 DEF DayStart, DayEnd, SoonEnd, WeekDays

(* The chart covers today and the six days before. *)
LEMMA ChartDays ==
  ASSUME NEW tz \in Int, NEW c \in 0 .. Now
  PROVE  /\ c >= WeekFrom(tz) /\ c < DayEnd(Now, tz) <=>
              LocalDay(Now, tz) - LocalDay(c, tz) \in 0 .. WeekDays - 1
         /\ DateToString(c, MongoTimezone(tz)) = LocalDay(c, tz)
         /\ LocalDay(c, tz) \in Int
<1> DEFINE L == LocalDay(Now, tz)
           d == LocalDay(c, tz)
<1>1. Now \in Nat /\ Day \in Nat \ {0} /\ c \in Int
  BY ViewsAssumption, DayAssumption
<1>2. L \in Int /\ c < DayEnd(Now, tz)
  BY <1>1, Clock
<1>3. d \in Int
  BY <1>1, Quotient DEF LocalDay
<1>4. (L - 6) * Day = L * Day - 6 * Day
  BY <1>1, <1>2
<1>5. L * Day \in Int /\ (L - 6) * Day \in Int
  BY <1>1, <1>2
<1>6. c >= WeekFrom(tz) <=> c - tz >= (L - 6) * Day
  BY <1>1, <1>4, <1>5 DEF WeekFrom, DayStart, WeekDays
<1>7. c - tz >= (L - 6) * Day <=> d >= L - 6
  <2>1. PICK q : q = L - 6
    OBVIOUS
  <2>2. c - tz \in Int /\ q \in Int
    BY <1>1, <1>2, <2>1
  <2>3. c - tz >= q * Day <=> (c - tz) \div Day >= q
    BY <1>1, <2>2, NotBefore
  <2> QED BY <2>1, <2>3 DEF LocalDay
<1>8. d <= L
  <2>1. c - tz <= Now - tz
    BY <1>1
  <2>2. d * Day <= c - tz
    BY <1>1, Quotient DEF LocalDay
  <2>3. Now - tz >= d * Day
    BY <1>1, <1>3, <2>1, <2>2
  <2> QED BY <1>1, <1>3, <2>3, NotBefore DEF LocalDay
<1>9. DateToString(c, MongoTimezone(tz)) = d
  BY <1>1 DEF DateToString, MongoTimezone, LocalDay
<1> HIDE DEF L, d
<1>10. c >= WeekFrom(tz) /\ c < DayEnd(Now, tz) <=> L - d \in 0 .. 6
  BY <1>2, <1>3, <1>6, <1>7, <1>8
<1> QED BY <1>3, <1>9, <1>10 DEF WeekDays, L, d

LEMMA ChartKeys ==
  ASSUME NEW tz \in Int, NEW i \in 0 .. WeekDays - 1
  PROVE  LocalDateKey(WeekFrom(tz) + i * Day, tz) = LocalDay(Now, tz) - 6 + i
<1> DEFINE L == LocalDay(Now, tz)
<1>1. Day \in Nat \ {0} /\ i \in Int /\ L \in Int
  BY DayAssumption, Clock DEF WeekDays
<1>2. L * Day \in Int /\ i * Day \in Int
  BY <1>1
<1>3. (L - 6 + i) * Day = L * Day - 6 * Day + i * Day
  BY <1>1
<1>4. PICK t : t = WeekFrom(tz) + i * Day
  OBVIOUS
<1>5. ((L - 6 + i) * Day) \div Day = L - 6 + i
  <2>1. PICK q : q = L - 6 + i
    OBVIOUS
  <2>2. q \in Int
    BY <1>1, <2>1
  <2> QED BY <1>1, <2>1, <2>2, Multiple
<1>6. PICK a : a = (L - 6 + i) * Day
  OBVIOUS
<1>7. t - tz = a
  BY <1>1, <1>2, <1>3, <1>4, <1>6 DEF WeekFrom, DayStart, WeekDays
<1>8. LocalDateKey(t, tz) = L - 6 + i
  BY <1>5, <1>6, <1>7 DEF LocalDateKey
<1> QED BY <1>4, <1>8

(* A week starts on Monday. *)
LEMMA ThisWeek ==
  ASSUME NEW tz \in Int, NEW c \in 0 .. Now
  PROVE  c >= WeekStart(Now, tz) <=> WeekOf(c, tz) = WeekOf(Now, tz)
<1> DEFINE L == LocalDay(Now, tz)
           d == LocalDay(c, tz)
<1>1. Now \in Nat /\ Day \in Nat \ {0} /\ c \in Int
  BY ViewsAssumption, DayAssumption
<1>2. L \in Int /\ d \in Int
  BY <1>1, Clock, Quotient DEF LocalDay
<1>3. LocalDay(DayStart(Now, tz), tz) = L
  <2>1. DayStart(Now, tz) - tz = L * Day
    BY <1>1, <1>2 DEF DayStart
  <2> QED BY <1>1, <1>2, <2>1, Multiple DEF LocalDay
<1>4. SinceMonday(L) = (L + 3) % 7 /\ SinceMonday(L) \in 0 .. 6
  BY <1>2 DEF SinceMonday
<1>5. PICK m : m = SinceMonday(L)
  OBVIOUS
<1>6. (L - m) * Day = L * Day - m * Day
  BY <1>1, <1>2, <1>4, <1>5
<1>7. c >= WeekStart(Now, tz) <=> c - tz >= (L - m) * Day
  <2>1. L * Day \in Int /\ m * Day \in Int
    BY <1>1, <1>2, <1>4, <1>5
  <2> QED BY <1>1, <1>3, <1>5, <1>6, <2>1 DEF WeekStart, DayStart
<1>8. c - tz >= (L - m) * Day <=> d >= L - m
  <2>1. PICK q : q = L - m
    OBVIOUS
  <2>2. c - tz \in Int /\ q \in Int
    BY <1>1, <1>2, <1>4, <1>5, <2>1
  <2>3. c - tz >= q * Day <=> (c - tz) \div Day >= q
    BY <1>1, <2>2, NotBefore
  <2> QED BY <2>1, <2>3 DEF LocalDay
<1>9. d <= L
  <2>2. d * Day <= c - tz
    BY <1>1, Quotient DEF LocalDay
  <2>3. Now - tz >= d * Day
    BY <1>1, <1>2, <2>2
  <2> QED BY <1>1, <1>2, <2>3, NotBefore DEF LocalDay
<1> HIDE DEF L, d
<1>10. d >= L - m <=> (d + 3) \div 7 = (L + 3) \div 7
  BY <1>2, <1>4, <1>5, <1>9
<1> QED BY <1>7, <1>8, <1>10 DEF WeekOf, L, d

-----------------------------------------------------------------------------
(* Figures of one moment. *)

LEMMA TaskFacts ==
  ASSUME Database, NEW t \in Tasks
  PROVE  /\ task[t].project \in Projects /\ task[t].status \in TaskStatus
         /\ task[t].priority \in TaskPriority
         /\ task[t].due \in Nat /\ task[t].completed \in 0 .. Now
  BY DEF Database, TaskType, TaskDoc

LEMMA FiniteTasks ==
  ASSUME NEW S \in SUBSET Tasks
  PROVE  IsFiniteSet(S) /\ Cardinality(S) \in Nat
  BY ViewsAssumption, FS_Subset, FS_CardinalityType

LEMMA Shorter ==
  ASSUME NEW S \in SUBSET Tasks, NEW T \in SUBSET S
  PROVE  Cardinality(T) <= Cardinality(S)
  BY FiniteTasks, FS_Subset

(* The totals of the projects make the total of them all. *)
LEMMA ProgressTotals ==
  ASSUME Database, NEW ps \in SUBSET Projects,
         NEW S, S = TopLevel(TasksOf(ps))
  PROVE  /\ Total([p \in ps |-> ProgressBy(ps)[p].total]) = Cardinality(S)
         /\ Total([p \in ps |-> ProgressBy(ps)[p].completed]) = Cardinality({t \in S : task[t].status = "DONE"})
<1>1. IsFiniteSet(ps)
  BY ViewsAssumption, FS_Subset
<1>2. \A p \in ps : /\ ProgressBy(ps)[p].total = Cardinality(TopLevel(TasksOf({p})))
                    /\ ProgressBy(ps)[p].completed =
                         Cardinality({t \in TopLevel(TasksOf({p})) : task[t].status = "DONE"})
  BY DEF ProgressBy, ProgressOf
<1>3. S \in SUBSET Tasks /\ \A t \in S : task[t].project \in ps
  BY DEF TopLevel, TasksOf
<1>4. \A p \in ps : TopLevel(TasksOf({p})) = {t \in S : task[t].project = p}
  BY DEF TopLevel, TasksOf
<1>5. ASSUME NEW T \in SUBSET S, NEW f, DOMAIN f = ps,
             \A p \in ps : f[p] = Cardinality({t \in T : task[t].project = p})
      PROVE  Total(f) = Cardinality(T)
  <2>1. PICK part : part = [t \in T |-> task[t].project]
    OBVIOUS
  <2>2. IsFiniteSet(T) /\ \A t \in T : part[t] \in ps /\ part[t] = task[t].project
    BY <1>3, <2>1, FiniteTasks
  <2>3. \A p \in ps : {t \in T : task[t].project = p} = {t \in T : part[t] = p}
    BY <2>2
  <2>4. \A p \in ps : f[p] = Cardinality({t \in T : part[t] = p})
    BY <1>5, <2>3
  <2> QED BY <1>1, <1>5, <2>2, <2>4, TotalOfParts
<1>6. PICK f : f = [p \in ps |-> ProgressBy(ps)[p].total]
  OBVIOUS
<1>7. PICK g : g = [p \in ps |-> ProgressBy(ps)[p].completed]
  OBVIOUS
<1>8. Total(f) = Cardinality(S)
  BY <1>2, <1>4, <1>5, <1>6
<1>9. Total(g) = Cardinality({t \in S : task[t].status = "DONE"})
  <2>1. \A p \in ps : {t \in TopLevel(TasksOf({p})) : task[t].status = "DONE"}
                      = {t \in {x \in S : task[x].status = "DONE"} : task[t].project = p}
    BY <1>4
  <2>2. \A p \in ps : g[p] = Cardinality({t \in {x \in S : task[x].status = "DONE"} : task[t].project = p})
    BY <1>2, <1>7, <2>1
  <2>3. DOMAIN g = ps
    BY <1>7
  <2> QED BY <1>5, <2>2, <2>3
<1> QED BY <1>6, <1>7, <1>8, <1>9

(* So do the numbers by status, by priority and by workspace. *)
LEMMA Partitioned ==
  ASSUME NEW T \in SUBSET Tasks, NEW K, IsFiniteSet(K), NEW value, DOMAIN value = T,
         \A t \in T : value[t] \in K,
         NEW f, DOMAIN f = K, \A k \in K : f[k] = Cardinality({t \in T : value[t] = k})
  PROVE  Total(f) = Cardinality(T)
  BY FiniteTasks, TotalOfParts

LEMMA SmallSets ==
  IsFiniteSet(TaskStatus) /\ IsFiniteSet(TaskPriority) /\ IsFiniteSet(0 .. 6)
<1>1. IsFiniteSet({}) /\ \A S, x : IsFiniteSet(S) => IsFiniteSet(S \cup {x})
  BY FS_EmptySet, FS_AddElement
<1>2. IsFiniteSet({} \cup {"TODO"} \cup {"IN_PROGRESS"} \cup {"IN_REVIEW"} \cup {"BLOCKED"} \cup {"DONE"})
  BY <1>1
<1>3. IsFiniteSet({} \cup {"LOW"} \cup {"MEDIUM"} \cup {"HIGH"} \cup {"URGENT"})
  BY <1>1
<1>4. TaskStatus = {} \cup {"TODO"} \cup {"IN_PROGRESS"} \cup {"IN_REVIEW"} \cup {"BLOCKED"} \cup {"DONE"}
  BY DEF TaskStatus
<1>5. TaskPriority = {} \cup {"LOW"} \cup {"MEDIUM"} \cup {"HIGH"} \cup {"URGENT"}
  BY DEF TaskPriority
<1>6. IsFiniteSet(0 .. 6)
  <2>1. 0 \in Int /\ 6 \in Int
    OBVIOUS
  <2> QED BY <2>1, FS_Interval
<1> QED BY <1>2, <1>3, <1>4, <1>5, <1>6

LEMMA StatsAddUp ==
  ASSUME Database, NEW ps \in SUBSET Projects, NEW tz, NEW s, s = TaskStats(ps, tz),
         NEW S, S = TopLevel(TasksOf(ps))
  PROVE  /\ s.total = Cardinality(S) /\ s.completed = Cardinality({t \in S : task[t].status = "DONE"})
         /\ s.total = Total(s.byStatus) /\ s.completed = s.byStatus["DONE"]
         /\ s.total - s.completed = Total(s.openByPriority)
         /\ s.overdue = Cardinality(OverdueTasks(ps, tz))
<1>0. PICK open : open = {t \in S : Open(t)}
  OBVIOUS
<1>1. S \in SUBSET Tasks
  BY DEF TopLevel, TasksOf
<1>2. /\ s.total = Cardinality(S) /\ s.completed = Cardinality(S \ open)
      /\ s.overdue = Cardinality(OverdueAt(S, DayStart(Now, tz)))
      /\ s.byStatus = [x \in TaskStatus |-> Cardinality({t \in S : task[t].status = x})]
      /\ s.openByPriority = [k \in TaskPriority |-> Cardinality({t \in open : task[t].priority = k})]
  BY <1>0 DEF TaskStats
<1>3. S \ open = {t \in S : task[t].status = "DONE"}
  BY <1>0 DEF Open
<1>4. Total(s.byStatus) = Cardinality(S)
  <2>1. PICK value : value = [t \in S |-> task[t].status]
    OBVIOUS
  <2>2. DOMAIN value = S /\ \A t \in S : value[t] = task[t].status /\ value[t] \in TaskStatus
    BY <1>1, <2>1, TaskFacts
  <2>3. \A x : {t \in S : task[t].status = x} = {t \in S : value[t] = x}
    BY <2>2
  <2>4. PICK f : f = s.byStatus
    OBVIOUS
  <2>5. DOMAIN f = TaskStatus /\ \A x \in TaskStatus : f[x] = Cardinality({t \in S : value[t] = x})
    BY <1>2, <2>3, <2>4
  <2> QED BY <1>1, <2>2, <2>4, <2>5, SmallSets, Partitioned
<1>5. Total(s.openByPriority) = Cardinality(open)
  <2>1. PICK value : value = [t \in open |-> task[t].priority]
    OBVIOUS
  <2>2. DOMAIN value = open /\ \A t \in open : value[t] = task[t].priority /\ value[t] \in TaskPriority
    BY <1>0, <1>1, <2>1, TaskFacts
  <2>3. \A x : {t \in open : task[t].priority = x} = {t \in open : value[t] = x}
    BY <2>2
  <2>4. PICK f : f = s.openByPriority
    OBVIOUS
  <2>5. DOMAIN f = TaskPriority /\ \A x \in TaskPriority : f[x] = Cardinality({t \in open : value[t] = x})
    BY <1>2, <2>3, <2>4
  <2>6. open \in SUBSET Tasks
    BY <1>0, <1>1
  <2> QED BY <2>2, <2>4, <2>5, <2>6, SmallSets, Partitioned
<1>6. Cardinality(S) - Cardinality(S \ open) = Cardinality(open)
  <2>1. PICK A, B : A = S \ open /\ B = open
    OBVIOUS
  <2>2. A \cap B = {} /\ A \cup B = S /\ A \in SUBSET Tasks /\ B \in SUBSET Tasks
    BY <1>0, <1>1, <2>1
  <2>3. Cardinality(S) = Cardinality(A) + Cardinality(B)
    BY <2>2, FiniteTasks, DisjointSizes
  <2>4. Cardinality(A) \in Nat /\ Cardinality(B) \in Nat
    BY <2>2, FiniteTasks
  <2>5. Cardinality(S) - Cardinality(A) = Cardinality(B)
    BY <2>3, <2>4
  <2> QED BY <2>1, <2>5
<1>7. "DONE" \in TaskStatus
  BY DEF TaskStatus
<1>8. OverdueAt(S, DayStart(Now, tz)) = OverdueTasks(ps, tz)
  BY DEF OverdueAt, OverdueTasks, OpenTopLevel
<1>9. s.completed = s.byStatus["DONE"]
  BY <1>2, <1>3, <1>7
<1>10. s.total - s.completed = Total(s.openByPriority)
  BY <1>2, <1>5, <1>6
<1> QED BY <1>2, <1>3, <1>4, <1>8, <1>9, <1>10

LEMMA ChartAddsUp ==
  ASSUME Database, NEW ps \in SUBSET Projects, NEW tz \in Int
  PROVE  Total(CompletedByDay(ps, tz)) =
           Cardinality({t \in TopLevel(TasksOf(ps)) : ~Open(t) /\
             LocalDay(Now, tz) - LocalDay(task[t].completed, tz) \in 0 .. WeekDays - 1})
<1>1. PICK S : S = {t \in TopLevel(TasksOf(ps)) : ~Open(t) /\
                     task[t].completed >= WeekFrom(tz) /\ task[t].completed < DayEnd(Now, tz)}
  OBVIOUS
<1>2. S \in SUBSET Tasks
  BY <1>1 DEF TopLevel, TasksOf
<1>3. \A t \in TopLevel(TasksOf(ps)) : t \in Tasks
  BY DEF TopLevel, TasksOf
<1>4. S = {t \in TopLevel(TasksOf(ps)) : ~Open(t) /\
             LocalDay(Now, tz) - LocalDay(task[t].completed, tz) \in 0 .. WeekDays - 1}
  BY <1>1, <1>3, TaskFacts, ChartDays
<1>5. PICK f, days : f = CompletedByDay(ps, tz) /\ days = 0 .. WeekDays - 1
  OBVIOUS
<1>6. PICK first : first = LocalDay(Now, tz) - 6
  OBVIOUS
<1>7. PICK value : value = [t \in S |-> LocalDay(task[t].completed, tz) - first]
  OBVIOUS
<1>8. DOMAIN value = S /\ \A t \in S : value[t] = LocalDay(task[t].completed, tz) - first
  BY <1>7
<1>9. first \in Int
  BY <1>6, Clock
<1>10. \A t \in S : /\ LocalDay(task[t].completed, tz) \in Int
                    /\ LocalDay(Now, tz) - LocalDay(task[t].completed, tz) \in 0 .. WeekDays - 1
                    /\ DateToString(task[t].completed, MongoTimezone(tz)) = LocalDay(task[t].completed, tz)
  BY <1>2, <1>4, TaskFacts, ChartDays
<1>11. \A t \in S : value[t] \in days
  <2> SUFFICES ASSUME NEW t \in S PROVE value[t] \in days
    OBVIOUS
  <2>1. PICK d \in Int : d = LocalDay(task[t].completed, tz)
    BY <1>10
  <2>2. PICK n \in Int : n = LocalDay(Now, tz)
    BY Clock
  <2>3. n - d \in 0 .. 6 /\ value[t] = d - (n - 6)
    BY <1>6, <1>8, <1>10, <2>1, <2>2 DEF WeekDays
  <2>4. d - (n - 6) \in 0 .. 6
    BY <2>3
  <2> QED BY <1>5, <2>3, <2>4 DEF WeekDays
<1>12. DOMAIN f = days
  BY <1>5 DEF CompletedByDay
<1>13. ASSUME NEW i \in days PROVE f[i] = Cardinality({t \in S : value[t] = i})
  <2>1. f[i] = Cardinality({t \in S : DateToString(task[t].completed, MongoTimezone(tz)) =
                                        LocalDateKey(WeekFrom(tz) + i * Day, tz)})
    BY <1>1, <1>5 DEF CompletedByDay
  <2>2. PICK k : k = LocalDateKey(WeekFrom(tz) + i * Day, tz)
    OBVIOUS
  <2>3. k = first + i /\ i \in Int
    BY <1>5, <1>6, <2>2, ChartKeys DEF WeekDays
  <2>4. \A t \in S : DateToString(task[t].completed, MongoTimezone(tz)) = k <=> value[t] = i
    BY <1>8, <1>9, <1>10, <2>3
  <2>5. {t \in S : DateToString(task[t].completed, MongoTimezone(tz)) = k} = {t \in S : value[t] = i}
    BY <2>4
  <2> QED BY <2>1, <2>2, <2>5
<1>14. IsFiniteSet(days)
  <2>1. days = 0 .. 6
    BY <1>5 DEF WeekDays
  <2> QED BY <2>1, SmallSets
<1>15. Total(f) = Cardinality(S)
  BY <1>2, <1>8, <1>11, <1>12, <1>13, <1>14, Partitioned
<1> QED BY <1>4, <1>5, <1>15

(* A list is cut, not changed. *)
LEMMA ListsCut ==
  ASSUME NEW S \in SUBSET Tasks, NEW a \in Shortened(S)
  PROVE  Cardinality(a) = AtMost(Cardinality(S))
<1>1. CASE Cardinality(S) <= ListLimit
  BY <1>1 DEF Shortened, AtMost
<1>2. CASE ~(Cardinality(S) <= ListLimit)
  BY <1>2 DEF Shortened, AtMost, kSubset
<1> QED BY <1>1, <1>2

LEMMA SoonCounts ==
  ASSUME Database, NEW ps \in SUBSET Projects, NEW tz \in Timezone
  PROVE  TaskStats(ps, tz).dueToday <= Cardinality(DueSoon(ps, tz))
<1>1. tz \in Int /\ DayStart(Now, tz) > 0
  BY DEF Timezone, NoDate
<1>2. PICK start, end, soon : start = DayStart(Now, tz) /\ end = DayEnd(Now, tz) /\ soon = SoonEnd(tz)
  OBVIOUS
<1>3. start \in Int /\ end \in Int /\ soon \in Int /\ start > 0 /\ end <= soon
  BY <1>1, <1>2, Clock
<1>4. PICK T : T = {t \in {x \in TopLevel(TasksOf(ps)) : Open(x)} : task[t].due >= start /\ task[t].due < end}
  OBVIOUS
<1>5. TaskStats(ps, tz).dueToday = Cardinality(T)
  BY <1>2, <1>4 DEF TaskStats
<1>6. DueSoon(ps, tz) \in SUBSET Tasks
  BY DEF DueSoon, DueIn, OpenTopLevel, TopLevel, TasksOf
<1>7. T \in SUBSET DueSoon(ps, tz)
  <2> SUFFICES ASSUME NEW t \in T PROVE t \in DueSoon(ps, tz)
    OBVIOUS
  <2>1. t \in OpenTopLevel(ps) /\ task[t].due >= start /\ task[t].due < end
    BY <1>4 DEF OpenTopLevel
  <2>2. task[t].due \in Nat
    BY <2>1, TaskFacts DEF OpenTopLevel, TopLevel, TasksOf
  <2>3. task[t].due # NoDate /\ task[t].due < soon
    BY <1>3, <2>1, <2>2 DEF NoDate
  <2> QED BY <1>2, <2>1, <2>3 DEF DueSoon, DueIn, HasDue
<1> QED BY <1>5, <1>6, <1>7, Shorter

LEMMA WorkloadOrdered ==
  ASSUME NEW ps, NEW tz, NEW u \in DOMAIN Workload(ps, tz)
  PROVE  Workload(ps, tz)[u].overdue <= Workload(ps, tz)[u].open
<1>1. PICK mine : mine = {t \in {x \in TasksOf(ps) : Open(x)} : u \in task[t].assignees}
  OBVIOUS
<1>2. PICK late : late = {t \in mine : HasDue(t) /\ task[t].due < DayStart(Now, tz)}
  OBVIOUS
<1>3. Workload(ps, tz)[u] = [open |-> Cardinality(mine), overdue |-> Cardinality(late)]
  BY <1>1, <1>2 DEF Workload
<1>4. mine \in SUBSET Tasks /\ late \in SUBSET mine
  BY <1>1, <1>2 DEF TasksOf
<1> QED BY <1>3, <1>4, Shorter

LEMMA WorkspaceTotals ==
  ASSUME NEW T \in SUBSET Tasks, NEW U \in SUBSET T, NEW f,
         DOMAIN f = {task[t].workspace : t \in T},
         \A w \in DOMAIN f : f[w] = Cardinality({t \in U : task[t].workspace = w})
  PROVE  Total(f) = Cardinality(U)
<1>1. PICK K : K = {task[t].workspace : t \in T}
  OBVIOUS
<1>2. PICK g : g = [t \in T |-> task[t].workspace]
  OBVIOUS
<1>3. g \in Surjection(T, K)
  BY <1>1, <1>2 DEF Surjection
<1>4. IsFiniteSet(K)
  BY <1>3, FiniteTasks, FS_Surjection
<1>5. PICK value : value = [t \in U |-> task[t].workspace]
  OBVIOUS
<1>6. DOMAIN value = U /\ \A t \in U : value[t] = task[t].workspace /\ value[t] \in K
  BY <1>1, <1>5
<1>7. \A w : {t \in U : task[t].workspace = w} = {t \in U : value[t] = w}
  BY <1>6
<1>8. DOMAIN f = K /\ \A w \in K : f[w] = Cardinality({t \in U : value[t] = w})
  BY <1>1, <1>7
<1>9. U \in SUBSET Tasks
  OBVIOUS
<1> QED BY <1>4, <1>6, <1>8, <1>9, Partitioned

LEMMA SummaryRight ==
  ASSUME Database, NEW u, NEW ps \in SUBSET Projects, NEW tz \in Timezone
  PROVE  SummaryAddsUp(u, ps, Summary(u, ps, tz), tz)
<1>1. tz \in Int /\ DayStart(Now, tz) > 0
  BY DEF Timezone, NoDate
<1>2. PICK start, end : start = DayStart(Now, tz) /\ end = DayEnd(Now, tz)
  OBVIOUS
<1>3. start \in Int /\ end \in Int /\ 0 < start /\ start < end
  BY <1>1, <1>2, Clock
<1>4. PICK S, f : S = MyTasks(u, ps) /\ f = Summary(u, ps, tz)
  OBVIOUS
<1>5. PICK open : open = {t \in S : Open(t)}
  OBVIOUS
<1>6. S \in SUBSET Tasks /\ open \in SUBSET Tasks
  BY <1>4, <1>5 DEF MyTasks, TasksOf
<1>7. PICK late, today, later, undated :
        /\ late = {t \in open : HasDue(t) /\ task[t].due < start}
        /\ today = {t \in open : HasDue(t) /\ task[t].due >= start /\ task[t].due < end}
        /\ later = {t \in open : HasDue(t) /\ task[t].due >= end}
        /\ undated = {t \in open : ~HasDue(t)}
  OBVIOUS
<1>8. OverdueAt(S, start) = late /\ DueIn(open, start, end) = today
  BY <1>5, <1>7 DEF OverdueAt, DueIn
<1>9. PICK week : week = {t \in S : ~Open(t) /\ task[t].completed >= WeekStart(Now, tz)}
  OBVIOUS
<1>10. /\ f.open = Cardinality(open) /\ f.overdue = Cardinality(late)
       /\ f.dueToday = Cardinality(today) /\ f.upcoming = Cardinality(later)
       /\ f.noDueDate = Cardinality(undated) /\ f.completedThisWeek = Cardinality(week)
       /\ DOMAIN f.byWorkspace = {task[t].workspace : t \in open}
       /\ \A w \in DOMAIN f.byWorkspace :
            /\ f.byWorkspace[w].open = Cardinality({t \in open : task[t].workspace = w})
            /\ f.byWorkspace[w].overdue =
                 Cardinality(OverdueAt({t \in open : task[t].workspace = w}, start))
  BY <1>2, <1>4, <1>5, <1>7, <1>8, <1>9 DEF Summary
<1>11. \A w : OverdueAt({t \in open : task[t].workspace = w}, start) = {t \in late : task[t].workspace = w}
  BY <1>5, <1>7 DEF OverdueAt
<1>12. \A t \in open : task[t].due \in Nat /\ (HasDue(t) <=> task[t].due # 0)
  BY <1>6, TaskFacts DEF HasDue, NoDate
<1>13. /\ Cardinality(open) = Cardinality(late) + Cardinality(today) + Cardinality(later) + Cardinality(undated)
       /\ Cardinality(late \cup today) = Cardinality(late) + Cardinality(today)
  <2>1. late \cup today \cup later \cup undated = open
    BY <1>3, <1>7, <1>12
  <2>2. late \cap today = {} /\ (late \cup today) \cap later = {} /\ (late \cup today \cup later) \cap undated = {}
    BY <1>3, <1>7, <1>12
  <2>3. \A T \in {late, today, later, undated, late \cup today, late \cup today \cup later} :
          IsFiniteSet(T) /\ Cardinality(T) \in Nat
    BY <1>6, <2>1, FiniteTasks
  <2>4. Cardinality(late \cup today) = Cardinality(late) + Cardinality(today)
    BY <2>2, <2>3, DisjointSizes
  <2>5. Cardinality(late \cup today \cup later) = Cardinality(late \cup today) + Cardinality(later)
    BY <2>2, <2>3, DisjointSizes
  <2>6. Cardinality(open) = Cardinality(late \cup today \cup later) + Cardinality(undated)
    BY <2>1, <2>2, <2>3, DisjointSizes
  <2> QED BY <2>4, <2>5, <2>6
<1>14. f.open = Total([w \in DOMAIN f.byWorkspace |-> f.byWorkspace[w].open])
  <2>1. PICK g : g = [w \in DOMAIN f.byWorkspace |-> f.byWorkspace[w].open]
    OBVIOUS
  <2>2. /\ DOMAIN g = {task[t].workspace : t \in open}
        /\ \A w \in DOMAIN g : g[w] = Cardinality({t \in open : task[t].workspace = w})
    BY <1>10, <2>1
  <2>8. f.open = Cardinality(open)
    BY <1>10
  <2>9. Total(g) = Cardinality(open)
    BY <1>6, <2>2, WorkspaceTotals
  <2> QED BY <2>1, <2>8, <2>9
<1>15. f.overdue = Total([w \in DOMAIN f.byWorkspace |-> f.byWorkspace[w].overdue])
  <2>1. PICK g : g = [w \in DOMAIN f.byWorkspace |-> f.byWorkspace[w].overdue]
    OBVIOUS
  <2>2. /\ DOMAIN g = {task[t].workspace : t \in open}
        /\ \A w \in DOMAIN g : g[w] = Cardinality({t \in late : task[t].workspace = w})
    BY <1>10, <1>11, <2>1
  <2>3. late \in SUBSET open
    BY <1>7
  <2>8. f.overdue = Cardinality(late)
    BY <1>10
  <2>9. Total(g) = Cardinality(late)
    BY <1>6, <2>2, <2>3, WorkspaceTotals
  <2> QED BY <2>1, <2>8, <2>9
<1>16. /\ ViewFilter(S, "all", tz) = open
       /\ ViewFilter(S, "overdue", tz) = late
       /\ ViewFilter(S, "today", tz) = today
       /\ ViewFilter(S, "completed", tz) = S \ open
       /\ ViewFilter(S, "upcoming", tz) = {t \in open : task[t].due >= end}
       /\ ViewFilter(S, "my-day", tz) = {t \in open : HasDue(t) /\ task[t].due < end}
  BY <1>2, <1>5, <1>7, <1>8 DEF ViewFilter
<1>17. {t \in open : task[t].due >= end} = later
  BY <1>3, <1>7, <1>12
<1>18. {t \in open : HasDue(t) /\ task[t].due < end} = late \cup today
  BY <1>3, <1>7, <1>12
<1>19. week = {t \in S \ open : WeekOf(task[t].completed, tz) = WeekOf(Now, tz)}
  BY <1>1, <1>5, <1>6, <1>9, TaskFacts, ThisWeek
<1> QED BY <1>4, <1>10, <1>13, <1>14, <1>15, <1>16, <1>17, <1>18, <1>19 DEF SummaryAddsUp

-----------------------------------------------------------------------------
(* While nothing is written, the answers a view has are the current ones,   *)
(* but for the page of the log.                                            *)
Current(v) ==
  \A q \in DOMAIN v.got \ {"page"} : v.got[q] \in Answers(v.call, v.found, q)

CalmOK ==
  /\ calm \subseteq Requests
  /\ \A r \in calm : \A v \in {req[r]} : v.pc \in {"query", "shown"} => Current(v)

LEMMA SameAnswers ==
  ASSUME UNCHANGED <<project, task>>, NEW c, NEW ps, NEW q, q # "page"
  PROVE  Answers(c, ps, q)' = Answers(c, ps, q)
  BY DEF Answers, ProgressBy, ProgressOf, TopLevel, TasksOf, Summary, MyTasks, Open, HasDue,
         OverdueAt, DueIn, TaskStats, Workload, CompletedByDay, Shortened, OverdueTasks, DueSoon, OpenTopLevel

LEMMA StillCurrent ==
  ASSUME UNCHANGED <<project, task>>, NEW v, Current(v)
  PROVE  Current(v)'
<1> SUFFICES ASSUME NEW q \in DOMAIN v.got \ {"page"}
             PROVE  v.got[q] \in Answers(v.call, v.found, q)'
  BY DEF Current
<1>1. v.got[q] \in Answers(v.call, v.found, q)
  BY DEF Current
<1> QED BY <1>1, SameAnswers

LEMMA CalmStays ==
  ASSUME CalmOK, Slots, UNCHANGED <<project, task>>, NEW s \in Requests, calm' \subseteq calm \cup {s},
         NEW x, req' = [req EXCEPT ![s] = x],
         s \in calm' /\ x.pc \in {"query", "shown"} => Current(x)
  PROVE  CalmOK'
<1>1. req'[s] = x /\ \A r \in Requests : r # s => req'[r] = req[r]
  BY DEF Slots
<1>2. ASSUME NEW r \in calm', NEW v \in {req'[r]}, v.pc \in {"query", "shown"} PROVE Current(v)'
  <2>1. Current(v)
    BY <1>1, <1>2 DEF CalmOK
  <2> QED BY <2>1, StillCurrent
<1>3. calm' \subseteq Requests
  BY DEF CalmOK
<1> QED BY <1>2, <1>3 DEF CalmOK

LEMMA WritesDisturb ==
  ASSUME NEW s \in Requests, WriteStep(s)
  PROVE  calm' = {} \/ UNCHANGED <<project, task, calm>>
<1>1. CASE CreateProject(s) \/ RemoveProject(s) \/ DropMember(s) \/ SetMember(s) \/ RemoveMember(s)
  BY <1>1 DEF CreateProject, RemoveProject, DropMember, SetMember, RemoveMember, Write
<1>2. CASE DeleteWorkspace(s) \/ UpdateStatus(s) \/ RemoveTask(s)
  BY <1>2 DEF DeleteWorkspace, UpdateStatus, RemoveTask, Write
<1>3. CASE AddMember(s) \/ AddMemberInsert(s) \/ Record(s)
  BY <1>3 DEF AddMember, AddMemberInsert, Record, Refused, Write, db
<1> QED BY <1>1, <1>2, <1>3 DEF WriteStep

LEMMA QueryIsCurrent ==
  ASSUME Database, ViewsOK, CalmOK, NEW s \in Requests, Query(s)
  PROVE  CalmOK'
<1> DEFINE v == req[s]
<1>0. v.pc = "query" /\ IsView(v)
  BY DEF Database, Slots, ViewPc, At, Query
<1>1. PICK q, answer, x :
        /\ answer \in Answers(v.call, v.found, q)
        /\ x = [v EXCEPT !.pc = IF v.pending = {q} THEN "shown" ELSE @, !.pending = @ \ {q},
                         !.got = With(v.got, q, answer)]
        /\ Read(s, x)
  BY DEF Query
<1>2. x.call = v.call /\ x.found = v.found /\ x.got = With(v.got, q, answer)
  BY <1>0, <1>1 DEF IsView, Parts
<1>3. /\ DOMAIN x.got = DOMAIN v.got \cup {q}
      /\ x.got[q] = answer
      /\ \A k \in DOMAIN v.got : k # q => x.got[k] = v.got[k]
  BY <1>2 DEF With
<1>4. s \in calm => Current(x)
  BY <1>0, <1>1, <1>2, <1>3 DEF CalmOK, Current
<1> QED BY <1>1, <1>4, CalmStays DEF Database, Read, Goto, db

LEMMA StepsKeepCalm ==
  ASSUME Database, ViewsOK, CalmOK, NEW s \in Requests, ViewStep(s) \/ WriteStep(s)
  PROVE  CalmOK'
<1>1. CASE WriteStep(s)
  <2>1. PICK x : req' = [req EXCEPT ![s] = x] /\ x.pc \notin ViewPc
    BY <1>1, WritesWatch
  <2>2. CASE calm' = {}
    BY <2>2 DEF CalmOK
  <2>3. CASE UNCHANGED <<project, task, calm>>
    BY <2>1, <2>3, CalmStays DEF Database, ViewPc
  <2> QED BY <1>1, <2>2, <2>3, WritesDisturb
<1>2. CASE Start(s)
  <2>1. PICK c : Goto(s, Started(c))
    BY <1>2 DEF Start
  <2>2. Started(c).pc \notin {"query", "shown"}
    BY DEF Started, ViewState, Done
  <2>3. calm' = calm \cup {s} /\ UNCHANGED db
    BY <1>2 DEF Start
  <2> QED BY <2>1, <2>2, <2>3, CalmStays DEF Database, Goto, db
<1>3. CASE FindProjects(s)
  <2> DEFINE v == req[s]
  <2>1. PICK x : /\ x = [v EXCEPT !.pc = "query", !.pending = Queries(v.call.op),
                     !.found = IF v.call.op = "list"
                               THEN VisibleFilter(v.call.workspace, v.scope[v.call.workspace], v.ids)
                               ELSE Found(v.scope, v.ids)]
                 /\ Read(s, x)
    BY <1>3 DEF FindProjects
  <2>2. IsView(v) /\ v.pc = "find" /\ ViewPart(v)
    BY <1>3 DEF Database, Slots, ViewPc, At, FindProjects, ViewsOK, ViewOK
  <2>3. DOMAIN x.got = {}
    BY <2>1, <2>2 DEF IsView, Parts, ViewPart
  <2>4. Current(x)
    BY <2>3 DEF Current
  <2> QED BY <2>1, <2>4, CalmStays DEF Database, Read, Goto, db
<1>4. CASE ReadMemberships(s) \/ KeepWanted(s) \/ KeepLive(s) \/ ReadRows(s)
  <2> DEFINE v == req[s]
  <2>1. IsView(v)
    BY <1>4 DEF Database, Slots, ViewPc, At, ReadMemberships, KeepWanted, KeepLive, ReadRows
  <2>2. ASSUME NEW x, Read(s, x), x.pc \notin {"query", "shown"} PROVE CalmOK'
    BY <2>2, CalmStays DEF Database, Read, Goto, db
  <2>3. CASE ReadMemberships(s)
    <3>1. PICK x : Read(s, x) /\ x = [v EXCEPT !.pc = IF @ = "workspaces" THEN "wanted" ELSE "live",
                         !.scope = RolesIn(v.call.user, ActiveIn(v.call.user) \cap v.wanted)]
      BY <2>3 DEF ReadMemberships
    <3>2. x.pc \notin {"query", "shown"}
      BY <2>1, <3>1 DEF IsView, Parts
    <3> QED BY <2>2, <3>1, <3>2
  <2>4. CASE KeepWanted(s)
    <3>1. PICK x : Read(s, x) /\ x = [v EXCEPT !.pc = "memberships", !.wanted = DOMAIN InLive(v.scope)]
      BY <2>4 DEF KeepWanted
    <3>2. x.pc \notin {"query", "shown"}
      BY <2>1, <3>1 DEF IsView, Parts
    <3> QED BY <2>2, <3>1, <3>2
  <2>5. CASE KeepLive(s)
    <3>1. PICK x : Read(s, x) /\ x = [v EXCEPT !.pc = "rows", !.scope = InLive(@)]
      BY <2>5 DEF KeepLive
    <3>2. x.pc \notin {"query", "shown"}
      BY <2>1, <3>1 DEF IsView, Parts
    <3> QED BY <2>2, <3>1, <3>2
  <2>6. CASE ReadRows(s)
    <3>1. PICK x : Read(s, x) /\ x = [v EXCEPT !.pc = "find", !.ids = MemberOf(v.call.user, Restricted(v.scope))]
      BY <2>6 DEF ReadRows
    <3>2. x.pc \notin {"query", "shown"}
      BY <2>1, <3>1 DEF IsView, Parts
    <3> QED BY <2>2, <3>1, <3>2
  <2> QED BY <1>4, <2>3, <2>4, <2>5, <2>6
<1>5. CASE Query(s)
  BY <1>5, QueryIsCurrent
<1> QED BY <1>1, <1>2, <1>3, <1>4, <1>5 DEF ViewStep

LEMMA CalmAlways == Spec => []CalmOK
<1>1. Init => CalmOK
  BY DEF Init, CalmOK
<1>2. Database /\ ViewsOK /\ CalmOK /\ [Next]_vars => CalmOK'
  <2>1. ASSUME CalmOK, UNCHANGED vars PROVE CalmOK'
    <3>1. ASSUME NEW r \in calm', NEW v \in {req'[r]}, v.pc \in {"query", "shown"} PROVE Current(v)'
      <4>1. Current(v)
        BY <2>1, <3>1 DEF CalmOK, vars
      <4> QED BY <2>1, <4>1, StillCurrent DEF vars
    <3> QED BY <2>1, <3>1 DEF CalmOK, vars
  <2> QED BY <2>1, StepsKeepCalm DEF Next
<1> QED BY <1>1, <1>2, DatabaseAlways, ViewsAlways, PTL DEF Spec

(* When nothing was written since a view began, its figures add up.        *)
THEOREM FiguresCorrect == Spec => []FiguresAddUp
<1>1. Database /\ ViewsOK /\ CalmOK => FiguresAddUp
  <2> SUFFICES ASSUME Database, ViewsOK, CalmOK, NEW r \in calm, Shown(r)
               PROVE  LET v == req[r] c == v.call IN
                 CASE c.op = "dashboard" -> DashboardAddsUp(v.found, v.got, c.tz)
                   [] c.op = "summary" -> SummaryAddsUp(c.user, v.found, v.got["facets"], c.tz)
                   [] c.op = "list" -> \A p \in v.found :
                        v.got["progress"][p].total = TaskStats({p}, 0).total
                        /\ v.got["progress"][p].completed = TaskStats({p}, 0).completed
                   [] OTHER -> TRUE
    BY DEF FiguresAddUp
  <2>1. PICK v : v = req[r]
    OBVIOUS
  <2>2. PICK c, ps, got : c = v.call /\ ps = v.found /\ got = v.got
    OBVIOUS
  <2>3. ViewPart(v) /\ v.pc = "shown" /\ Current(v)
    BY <2>1 DEF ViewsOK, ViewOK, ViewPc, Shown, At, CalmOK
  <2>4. c \in ViewCall /\ DOMAIN got = Queries(c.op) /\ ps \in SUBSET Projects
        /\ \A q \in DOMAIN got \ {"page"} : got[q] \in Answers(c, ps, q)
    BY <2>2, <2>3 DEF ViewPart, Current
  <2>5. PICK S : S = TopLevel(TasksOf(ps))
    OBVIOUS
  <2>6. got["progress"] = ProgressBy(ps) <=> got["progress"] \in Answers(c, ps, "progress")
    BY DEF Answers
  <2>7. ASSUME c.op = "dashboard" PROVE DashboardAddsUp(ps, got, c.tz)
    <3>1. c.tz \in Timezone /\ c.tz \in Int
      BY <2>4, <2>7 DEF ViewCall, Timezone
    <3>2. DOMAIN got = {"stats", "workload", "projects", "progress", "byDay",
                        "overdueTasks", "dueSoon", "dueSoonCount"}
      BY <2>4, <2>7 DEF Queries
    <3>3. /\ got["stats"] = TaskStats(ps, c.tz) /\ got["workload"] = Workload(ps, c.tz)
          /\ got["progress"] = ProgressBy(ps) /\ got["byDay"] = CompletedByDay(ps, c.tz)
          /\ got["overdueTasks"] \in Shortened(OverdueTasks(ps, c.tz))
          /\ got["dueSoon"] \in Shortened(DueSoon(ps, c.tz))
          /\ got["dueSoonCount"] = Cardinality(DueSoon(ps, c.tz))
      BY <2>4, <3>2 DEF Answers
    <3>4. OverdueTasks(ps, c.tz) \in SUBSET Tasks /\ DueSoon(ps, c.tz) \in SUBSET Tasks
      BY DEF OverdueTasks, DueSoon, DueIn, OpenTopLevel, TopLevel, TasksOf
    <3>5. PICK s : s = TaskStats(ps, c.tz)
      OBVIOUS
    <3>6. /\ s.total = Cardinality(S) /\ s.completed = Cardinality({t \in S : task[t].status = "DONE"})
          /\ s.total = Total(s.byStatus) /\ s.completed = s.byStatus["DONE"]
          /\ s.total - s.completed = Total(s.openByPriority)
          /\ s.overdue = Cardinality(OverdueTasks(ps, c.tz))
      BY <2>4, <2>5, <3>5, StatsAddUp
    <3>7. /\ Total([p \in ps |-> ProgressBy(ps)[p].total]) = s.total
          /\ Total([p \in ps |-> ProgressBy(ps)[p].completed]) = s.completed
      BY <2>4, <2>5, <3>6, ProgressTotals
    <3>8. /\ Cardinality(got["overdueTasks"]) = AtMost(s.overdue)
          /\ Cardinality(got["dueSoon"]) = AtMost(got["dueSoonCount"])
      BY <3>3, <3>4, <3>6, ListsCut
    <3>9. s.dueToday <= got["dueSoonCount"]
      BY <2>4, <3>1, <3>3, <3>5, SoonCounts
    <3>10. \A u \in DOMAIN got["workload"] : got["workload"][u].overdue <= got["workload"][u].open
      BY <3>3, WorkloadOrdered
    <3>11. Total(got["byDay"]) =
             Cardinality({t \in TopLevel(TasksOf(ps)) : ~Open(t) /\
               LocalDay(Now, c.tz) - LocalDay(task[t].completed, c.tz) \in 0 .. WeekDays - 1})
      BY <2>4, <3>1, <3>3, ChartAddsUp
    <3> QED BY <3>3, <3>5, <3>6, <3>7, <3>8, <3>9, <3>10, <3>11 DEF DashboardAddsUp
  <2>8. ASSUME c.op = "summary" PROVE SummaryAddsUp(c.user, ps, got["facets"], c.tz)
    <3>1. c.tz \in Timezone
      BY <2>4, <2>8 DEF ViewCall
    <3>2. DOMAIN got = {"facets"}
      BY <2>4, <2>8 DEF Queries
    <3>3. got["facets"] = Summary(c.user, ps, c.tz)
      BY <2>4, <3>2 DEF Answers
    <3> QED BY <2>4, <3>1, <3>3, SummaryRight
  <2>9. ASSUME c.op = "list", NEW p \in ps
        PROVE  got["progress"][p].total = TaskStats({p}, 0).total
               /\ got["progress"][p].completed = TaskStats({p}, 0).completed
    <3>1. DOMAIN got = {"progress"}
      BY <2>4, <2>9 DEF Queries
    <3>2. got["progress"] = ProgressBy(ps)
      BY <2>4, <2>6, <3>1
    <3>3. PICK one : one = {p}
      OBVIOUS
    <3>4. one \in SUBSET Projects
      BY <2>4, <2>9, <3>3
    <3>5. PICK s, T : s = TaskStats(one, 0) /\ T = TopLevel(TasksOf(one))
      OBVIOUS
    <3>6. s.total = Cardinality(T) /\ s.completed = Cardinality({t \in T : task[t].status = "DONE"})
      BY <3>4, <3>5, StatsAddUp
    <3>7. /\ ProgressBy(ps)[p].total = Cardinality(T)
          /\ ProgressBy(ps)[p].completed = Cardinality({t \in T : task[t].status = "DONE"})
      BY <2>9, <3>3, <3>5 DEF ProgressBy, ProgressOf
    <3> QED BY <3>2, <3>3, <3>5, <3>6, <3>7
  <2> QED BY <2>1, <2>2, <2>7, <2>8, <2>9
<1> QED BY <1>1, DatabaseAlways, ViewsAlways, CalmAlways, PTL
=============================================================================
