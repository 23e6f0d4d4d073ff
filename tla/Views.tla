------------------------------- MODULE Views --------------------------------
(***************************************************************************)
(* What people are shown of the projects and tasks they can see: the       *)
(* access checks of projects/project-access.service.ts, and the views that *)
(* read across projects, which are the project list, my tasks and its      *)
(* summary, the workspace dashboard, search and the activity feed.  A view *)
(* reads in several operations, between which projects, members and tasks  *)
(* change.                                                                 *)
(*                                                                         *)
(* The writes are what other modules take apart; here each is one step,    *)
(* but for adding a project member, which inserts its row some time after  *)
(* its check, and the activity log, which a listener writes later.  Names  *)
(* and texts are left out: a search matches every text, and pages are long *)
(* enough for what there is.                                               *)
(***************************************************************************)
EXTENDS Permissions, Calendar, FiniteSetsExt

CONSTANTS
  Users, Workspaces, Projects, Tasks,
  Requests,      \* slots: each makes one call
  Plans,         \* what the database holds in the beginning, and the calls
  Now,           \* the instant everything happens at
  ListLimit      \* DASHBOARD_LIST_LIMIT

VARIABLES
  calls,     \* what each request may be asked to do
  live,      \* workspaces that are not deleted
  member,    \* workspace_members, by workspace and user
  project,   \* projects
  rows,      \* project_members
  task,      \* tasks
  log,       \* activity logs
  req,       \* what each request is doing
  visible,   \* history: the projects its user could see while a view ran
  calm,      \* history: views since whose start nothing was written
  strays     \* history: rows inserted for somebody who had lost the workspace

db == <<calls, live, member, project, rows, task>>
vars == <<calls, live, member, project, rows, task, log, req, visible, calm, strays>>

-----------------------------------------------------------------------------
(* Documents.  A date is an instant; NoDate is null, which sorts first. *)
NoDate == 0
TaskStatus == {"TODO", "IN_PROGRESS", "IN_REVIEW", "BLOCKED", "DONE"}
TaskPriority == {"LOW", "MEDIUM", "HIGH", "URGENT"}
NoMember == [role |-> NoRole, status |-> "none"]
Membership == [role : WorkspaceRole, status : {"ACTIVE", "SUSPENDED"}] \cup {NoMember}
None == "none"
NoProject == [live |-> FALSE, workspace |-> None]
ProjectDoc == [live : BOOLEAN, workspace : Workspaces] \cup {NoProject}
ProjectMember == [project : Projects, workspace : Workspaces, user : Users]
TaskDoc ==
  [live : BOOLEAN, workspace : Workspaces, project : Projects, parent : Tasks \cup {None},
   status : TaskStatus, priority : TaskPriority, due : Nat, completed : 0 .. Now,
   assignees : SUBSET Users]

(* Today began after the epoch, wherever the client is. *)
Timezone == {tz \in Int : DayStart(Now, tz) > NoDate}

(* What a request may be asked to do. *)
ViewCall ==
  [op : {"list", "feed"}, user : Users, workspace : Workspaces]
  \cup [op : {"dashboard"}, user : Users, workspace : Workspaces, tz : Timezone]
  \cup [op : {"summary"}, user : Users, tz : Timezone]
  \cup [op : {"search"}, user : Users]
WriteCall ==
  [op : {"createProject", "removeProject"}, user : Users, project : Projects, workspace : Workspaces]
  \cup [op : {"add", "drop"}, user : Users, project : Projects, target : Users]
  \cup [op : {"member"}, workspace : Workspaces, user : Users, to : Membership]
  \cup [op : {"deleteWorkspace"}, workspace : Workspaces]
  \cup [op : {"setStatus"}, task : Tasks, status : TaskStatus]
  \cup [op : {"removeTask"}, task : Tasks]
Call == ViewCall \cup WriteCall

(* Every row and every task carries the workspace of its project. *)
RowsFollow(ps, ks) == \A row \in ks : row.workspace = ps[row.project].workspace
TasksFollow(ps, ts) == \A t \in Tasks : ts[t].workspace = ps[ts[t].project].workspace

ASSUME ViewsAssumption ==
  /\ \A plan \in Plans :
       /\ plan.calls \in [Requests -> SUBSET Call]
       /\ plan.live \subseteq Workspaces
       /\ plan.member \in [Workspaces -> [Users -> Membership]]
       /\ plan.project \in [Projects -> ProjectDoc]
       /\ plan.rows \subseteq ProjectMember
       /\ plan.task \in [Tasks -> TaskDoc]
       /\ RowsFollow(plan.project, plan.rows)
       /\ TasksFollow(plan.project, plan.task)
  /\ None \notin Workspaces
  /\ Now \in Nat /\ ListLimit \in Nat
  /\ IsFiniteSet(Projects) /\ IsFiniteSet(Tasks)

NoReq == [pc |-> "new"]
Done == [pc |-> "done"]
At(r, pc) == req[r].pc = pc
Goto(r, state) == req' = [req EXCEPT ![r] = state]

-----------------------------------------------------------------------------
(* Access. *)

Resolves(u, w) == w \in live /\ member[w][u].status = "ACTIVE"
ReadsAll(role) == RoleHasPermission(role, "project:read_all")
Can(u, w, permission) == Resolves(u, w) /\ RoleHasPermission(member[w][u].role, permission)
OnProject(p) == {row.user : row \in {k \in rows : k.project = p}}

CanSee(u, w, p) == ReadsAll(member[w][u].role) \/ u \in OnProject(p)

Authorized(u, p, permission) ==
  /\ project[p].live
  /\ Resolves(u, project[p].workspace)
  /\ CanSee(u, project[p].workspace, p)
  /\ Can(u, project[p].workspace, permission)

TaskAuthorized(u, t, permission) ==
  /\ task[t].live
  /\ Authorized(u, task[t].project, permission)
  /\ task[t].workspace = project[task[t].project].workspace

UsersWithAccess(p) ==
  IF ~project[p].live \/ project[p].workspace \notin live THEN {}
  ELSE LET members == {u \in Users : member[project[p].workspace][u].status = "ACTIVE"}
           allowed == {u \in members : ReadsAll(member[project[p].workspace][u].role)}
           restricted == members \ allowed
       IN  allowed \cup (restricted \cap OnProject(p))

(* The slip of taking every row of a user, suspended there or not. *)
MutMemberOf(u, spaces) == {row.project : row \in {k \in rows : k.user = u}}

(* The rows a restricted user has in some workspaces. *)
MemberOf(u, spaces) == {row.project : row \in {k \in rows : k.workspace \in spaces /\ k.user = u}}

(* visibleProjectsFilter, by the membership found and the rows read. *)
VisibleFilter(w, role, ids) ==
  {p \in Projects : project[p].live /\ project[p].workspace = w /\ (ReadsAll(role) \/ p \in ids)}
VisibleProjects(u, w) == VisibleFilter(w, member[w][u].role, MemberOf(u, {w}))

(* accessibleProjectIds, in its four reads: active memberships, those of    *)
(* live workspaces, the rows in the workspaces where the role reads some    *)
(* projects only, and the projects.                                        *)
ActiveIn(u) == {w \in Workspaces : member[w][u].status = "ACTIVE"}
Restricted(scope) == {w \in DOMAIN scope : ~ReadsAll(scope[w])}
Found(scope, ids) ==
  {p \in Projects : project[p].live /\
    (project[p].workspace \in DOMAIN scope \ Restricted(scope) \/ p \in ids)}

RolesIn(u, spaces) == [w \in spaces |-> member[w][u].role]

AccessibleProjectIds(u) ==
  LET scope == RolesIn(u, ActiveIn(u) \cap live)
  IN  Found(scope, MemberOf(u, Restricted(scope)))

Sees(u) == {p \in Projects : Authorized(u, p, "project:read")}

-----------------------------------------------------------------------------
(* What the views compute of the live tasks in the projects found. *)

Open(t) == task[t].status # "DONE"
HasDue(t) == task[t].due # NoDate
TasksOf(ps) == {t \in Tasks : task[t].live /\ task[t].project \in ps}
TopLevel(S) == {t \in S : task[t].parent = None}
DueIn(S, from, to) == {t \in S : HasDue(t) /\ task[t].due >= from /\ task[t].due < to}
OverdueAt(S, start) == {t \in S : Open(t) /\ HasDue(t) /\ task[t].due < start}

ProgressOf(S) ==
  [total |-> Cardinality(S), completed |-> Cardinality({t \in S : task[t].status = "DONE"})]
(* The slip of counting subtasks in a project's progress. *)
MutProgressBy(ps) == [p \in ps |-> ProgressOf(TasksOf({p}))]

ProgressBy(ps) == [p \in ps |-> ProgressOf(TopLevel(TasksOf({p})))]

(* My tasks: the list of each view, and the summary. *)
MyTasks(u, ps) == {t \in TasksOf(ps) : u \in task[t].assignees}
ViewFilter(S, view, tz) ==
  LET start == DayStart(Now, tz) end == DayEnd(Now, tz) open == {t \in S : Open(t)} IN
  CASE view = "my-day" -> {t \in open : HasDue(t) /\ task[t].due < end}
    [] view = "today" -> DueIn(open, start, end)
    [] view = "upcoming" -> {t \in open : task[t].due >= end}
    [] view = "overdue" -> {t \in open : HasDue(t) /\ task[t].due < start}
    [] view = "completed" -> S \ open
    [] view = "all" -> open

Summary(u, ps, tz) ==
  LET S == MyTasks(u, ps) start == DayStart(Now, tz) end == DayEnd(Now, tz)
      open == {t \in S : Open(t)}
      count(T) == Cardinality(T) IN
  [open |-> count(open),
   overdue |-> count(OverdueAt(S, start)),
   dueToday |-> count(DueIn(open, start, end)),
   upcoming |-> count({t \in open : HasDue(t) /\ task[t].due >= end}),
   noDueDate |-> count({t \in open : ~HasDue(t)}),
   completedThisWeek |->
     count({t \in S : ~Open(t) /\ task[t].completed >= WeekStart(Now, tz)}),
   byWorkspace |->
     [w \in {task[t].workspace : t \in open} |->
       LET T == {t \in open : task[t].workspace = w}
       IN  [open |-> count(T), overdue |-> count(OverdueAt(T, start))]]]

(* The dashboard's figures. *)
WeekDays == 7
WeekFrom(tz) == DayStart(Now, tz) - (WeekDays - 1) * Day
SoonEnd(tz) == DayStart(Now, tz) + WeekDays * Day

TaskStats(ps, tz) ==
  LET S == TopLevel(TasksOf(ps)) start == DayStart(Now, tz) end == DayEnd(Now, tz)
      open == {t \in S : Open(t)}
      count(T) == Cardinality(T) IN
  [total |-> count(S),
   completed |-> count(S \ open),
   overdue |-> count(OverdueAt(S, start)),
   dueToday |-> count({t \in open : task[t].due >= start /\ task[t].due < end}),
   byStatus |-> [s \in TaskStatus |-> count({t \in S : task[t].status = s})],
   openByPriority |-> [k \in TaskPriority |-> count({t \in open : task[t].priority = k})]]

CompletedByDay(ps, tz) ==
  LET S == {t \in TopLevel(TasksOf(ps)) : ~Open(t) /\
              task[t].completed >= WeekFrom(tz) /\ task[t].completed < DayEnd(Now, tz)}
      byDay(date) == {t \in S : DateToString(task[t].completed, MongoTimezone(tz)) = date}
  IN  [i \in 0 .. WeekDays - 1 |-> Cardinality(byDay(LocalDateKey(WeekFrom(tz) + i * Day, tz)))]

OpenTopLevel(ps) == {t \in TopLevel(TasksOf(ps)) : Open(t)}
OverdueTasks(ps, tz) == {t \in OpenTopLevel(ps) : HasDue(t) /\ task[t].due < DayStart(Now, tz)}
DueSoon(ps, tz) == DueIn(OpenTopLevel(ps), DayStart(Now, tz), SoonEnd(tz))
Shortened(S) == IF Cardinality(S) <= ListLimit THEN {S} ELSE kSubset(ListLimit, S)

Workload(ps, tz) ==
  LET S == {t \in TasksOf(ps) : Open(t)}
      mine(u) == {t \in S : u \in task[t].assignees} IN
  [u \in UNION {task[t].assignees : t \in S} |->
     [open |-> Cardinality(mine(u)),
      overdue |-> Cardinality({t \in mine(u) : HasDue(t) /\ task[t].due < DayStart(Now, tz)})]]

-----------------------------------------------------------------------------
(* Views.  A view in progress: the workspaces wanted and the memberships it *)
(* has read of them, the projects of its rows, what it has found, the      *)
(* queries still to answer, which run side by side, and the answers.       *)
ViewState(pc, c, wanted) ==
  [pc |-> pc, call |-> c, wanted |-> wanted, scope |-> <<>>, ids |-> {}, found |-> {},
   pending |-> {}, got |-> <<>>]
Viewing(r) ==
  req[r].pc \in {"workspaces", "wanted", "memberships", "live", "rows", "find", "query"}
Shown(r) == At(r, "shown")

Init ==
  /\ \E plan \in Plans :
       /\ live = plan.live /\ member = plan.member /\ project = plan.project
       /\ rows = plan.rows /\ task = plan.task /\ calls = plan.calls
  /\ log = {}
  /\ req = [r \in Requests |-> NoReq]
  /\ visible = [r \in Requests |-> {}]
  /\ calm = {} /\ strays = {}

(* What each running view could see in the state a step begins in. *)
Watch ==
  visible' = [r \in Requests |->
                IF Viewing(r) THEN visible[r] \cup Sees(req[r].call.user) ELSE visible[r]]
Read(r, state) == Goto(r, state) /\ Watch /\ UNCHANGED <<db, log, calm, strays>>

(* The views of a workspace authorize first; the project list goes on with  *)
(* the membership it was authorized by.                                    *)
Needs(op) ==
  CASE op = "list" -> "project:read" [] op = "dashboard" -> "workspace:read"
    [] op = "feed" -> "activity:read"

Started(c) ==
  IF c.op \notin {"list", "dashboard", "feed"}
  THEN ViewState(IF c.op = "search" THEN "workspaces" ELSE "memberships", c, Workspaces)
  ELSE IF ~Can(c.user, c.workspace, Needs(c.op)) THEN Done
  ELSE IF c.op = "list"
       THEN [ViewState("rows", c, {c.workspace}) EXCEPT !.scope = RolesIn(c.user, {c.workspace})]
       ELSE ViewState("memberships", c, {c.workspace})

Start(r) ==
  /\ At(r, "new")
  /\ \E c \in calls[r] \cap ViewCall :
       /\ Goto(r, Started(c))
       /\ visible' = [visible EXCEPT ![r] = Sees(c.user)]
  /\ calm' = calm \cup {r}
  /\ UNCHANGED <<db, log, strays>>

(* memberships: active ones, of which those in live workspaces stay.        *)
ReadMemberships(r) ==
  /\ req[r].pc \in {"workspaces", "memberships"}
  /\ LET v == req[r] IN
       Read(r, [v EXCEPT !.pc = IF @ = "workspaces" THEN "wanted" ELSE "live",
                         !.scope = RolesIn(v.call.user, ActiveIn(v.call.user) \cap v.wanted)])

(* The slip of leaving out the deleted workspaces' check. *)
MutInLive(scope) == scope

InLive(scope) == [w \in DOMAIN scope \cap live |-> scope[w]]

(* A search reads them for the workspaces it wants, *)
KeepWanted(r) ==
  /\ At(r, "wanted")
  /\ Read(r, [req[r] EXCEPT !.pc = "memberships", !.wanted = DOMAIN InLive(req[r].scope)])

(* and again, as every other view, in accessibleProjectIds. *)
KeepLive(r) ==
  /\ At(r, "live")
  /\ Read(r, [req[r] EXCEPT !.pc = "rows", !.scope = InLive(@)])

ReadRows(r) ==
  /\ At(r, "rows")
  /\ LET v == req[r] IN
       Read(r, [v EXCEPT !.pc = "find", !.ids = MemberOf(v.call.user, Restricted(v.scope))])

Queries(op) ==
  CASE op = "list" -> {"progress"}
    [] op = "dashboard" -> {"stats", "workload", "projects", "progress", "byDay",
                            "overdueTasks", "dueSoon", "dueSoonCount"}
    [] op = "summary" -> {"facets"}
    [] op = "search" -> {"tasks", "projects", "comments"}
    [] op = "feed" -> {"page"}

FindProjects(r) ==
  /\ At(r, "find")
  /\ LET v == req[r] IN
       Read(r, [v EXCEPT !.pc = "query", !.pending = Queries(v.call.op),
         !.found = IF v.call.op = "list"
                   THEN VisibleFilter(v.call.workspace, v.scope[v.call.workspace], v.ids)
                   ELSE Found(v.scope, v.ids)])

(* The answers a query may give; a list is cut at ListLimit, after sorting. *)
Answers(c, ps, q) ==
  CASE q = "progress" -> {ProgressBy(ps)}
    [] q = "facets" -> {Summary(c.user, ps, c.tz)}
    [] q = "stats" -> {TaskStats(ps, c.tz)}
    [] q = "workload" -> {Workload(ps, c.tz)}
    [] q = "byDay" -> {CompletedByDay(ps, c.tz)}
    [] q = "projects" -> {ps}
    [] q = "overdueTasks" -> Shortened(OverdueTasks(ps, c.tz))
    [] q = "dueSoon" -> Shortened(DueSoon(ps, c.tz))
    [] q = "dueSoonCount" -> {Cardinality(DueSoon(ps, c.tz))}
    [] q = "tasks" -> {TasksOf(ps)}
    [] q = "comments" -> {{t \in Tasks : task[t].project \in ps}}
    [] q = "page" -> {{e \in log : e.workspace = c.workspace /\ e.project \in ps \cup {None}}}

With(got, q, answer) == [x \in DOMAIN got \cup {q} |-> IF x = q THEN answer ELSE got[x]]

Query(r) ==
  /\ At(r, "query")
  /\ LET v == req[r] IN
       \E q \in v.pending : \E answer \in Answers(v.call, v.found, q) :
         Read(r, [v EXCEPT !.pc = IF v.pending = {q} THEN "shown" ELSE @,
                           !.pending = @ \ {q},
                           !.got = With(v.got, q, answer)])

-----------------------------------------------------------------------------
(* Writes.  Each publishes an event, which the activity log takes down some *)
(* time later, unless the process dies first.                              *)
Publish(r, workspace, p) ==
  Goto(r, [pc |-> "due", event |-> [by |-> r, workspace |-> workspace, project |-> p]])
Write == Watch /\ calm' = {} /\ UNCHANGED <<calls, log>>
Refused(r) == Goto(r, Done) /\ Watch /\ UNCHANGED <<db, log, calm, strays>>

Asked(r, op) == {c \in calls[r] : c.op = op}

CreateProject(r) ==
  /\ At(r, "new")
  /\ \E c \in Asked(r, "createProject") :
       /\ project[c.project] = NoProject /\ Can(c.user, c.workspace, "project:create")
       /\ project' = [project EXCEPT ![c.project] = [live |-> TRUE, workspace |-> c.workspace]]
       /\ rows' = rows \cup {[project |-> c.project, workspace |-> c.workspace, user |-> c.user]}
       /\ strays' = strays \cup
            {<<c.project, u>> : u \in {v \in Users :
               ~Resolves(v, c.workspace) \/ ~ReadsAll(member[c.workspace][v].role)}}
       /\ Publish(r, c.workspace, c.project)
  /\ Write /\ UNCHANGED <<live, member, task>>

(* Soft delete: the tasks stay. *)
RemoveProject(r) ==
  /\ At(r, "new")
  /\ \E c \in Asked(r, "removeProject") :
       /\ Authorized(c.user, c.project, "project:read")
       /\ Can(c.user, project[c.project].workspace, "project:delete")
       /\ project' = [project EXCEPT ![c.project].live = FALSE]
       /\ Publish(r, project[c.project].workspace, c.project)
  /\ Write /\ UNCHANGED <<live, member, rows, task, strays>>

AddMember(r) ==
  /\ At(r, "new")
  /\ \E c \in Asked(r, "add") :
       /\ Authorized(c.user, c.project, "project:manage_members")
       /\ member[project[c.project].workspace][c.target].status = "ACTIVE"
       /\ Goto(r, [pc |-> "insert", call |-> c])
  /\ Watch /\ UNCHANGED <<db, log, calm, strays>>

AddMemberInsert(r) ==
  /\ At(r, "insert")
  /\ LET p == req[r].call.project u == req[r].call.target w == project[p].workspace IN
       IF u \in OnProject(p) THEN Refused(r)
       ELSE /\ rows' = rows \cup {[project |-> p, workspace |-> w, user |-> u]}
            /\ strays' = IF Resolves(u, w) THEN strays ELSE strays \cup {<<p, u>>}
            /\ Publish(r, w, p)
            /\ Write /\ UNCHANGED <<live, member, project, task>>

DropMember(r) ==
  /\ At(r, "new")
  /\ \E c \in Asked(r, "drop") :
       /\ Authorized(c.user, c.project,
            IF c.user = c.target THEN "project:read" ELSE "project:manage_members")
       /\ c.target \in OnProject(c.project)
       /\ rows' = {k \in rows : k.project # c.project \/ k.user # c.target}
       /\ Publish(r, project[c.project].workspace, c.project)
  /\ Write /\ UNCHANGED <<live, member, project, task, strays>>

(* An invitation accepted, or a member's role or status updated. *)
SetMember(r) ==
  /\ At(r, "new")
  /\ \E c \in Asked(r, "member") :
       /\ c.to # NoMember /\ c.workspace \in live
       /\ member[c.workspace][c.user] # c.to /\ member[c.workspace][c.user].role # "OWNER"
       /\ member' = [member EXCEPT ![c.workspace][c.user] = c.to]
       /\ Publish(r, c.workspace, None)
  /\ Write /\ UNCHANGED <<live, project, rows, task, strays>>

RemoveMember(r) ==
  /\ At(r, "new")
  /\ \E c \in Asked(r, "member") :
       /\ c.to = NoMember /\ c.workspace \in live
       /\ member[c.workspace][c.user].role \notin {"OWNER", NoRole}
       /\ member' = [member EXCEPT ![c.workspace][c.user] = NoMember]
       /\ rows' = {k \in rows : k.workspace # c.workspace \/ k.user # c.user}
       /\ task' = [t \in Tasks |->
            IF task[t].live /\ Open(t) /\ task[t].workspace = c.workspace
            THEN [task[t] EXCEPT !.assignees = @ \ {c.user}] ELSE task[t]]
       /\ Publish(r, c.workspace, None)
  /\ Write /\ UNCHANGED <<live, project, strays>>

(* No event is published for a workspace. *)
DeleteWorkspace(r) ==
  /\ At(r, "new")
  /\ \E c \in Asked(r, "deleteWorkspace") : live' = live \ {c.workspace}
  /\ Goto(r, Done)
  /\ Write /\ UNCHANGED <<member, project, rows, task, strays>>

UpdateStatus(r) ==
  /\ At(r, "new")
  /\ \E c \in Asked(r, "setStatus") :
       /\ task[c.task].live /\ task[c.task].status # c.status
       /\ task' = [task EXCEPT ![c.task] =
            [@ EXCEPT !.status = c.status, !.completed = IF c.status = "DONE" THEN Now ELSE NoDate]]
       /\ Publish(r, task[c.task].workspace, task[c.task].project)
  /\ Write /\ UNCHANGED <<live, member, project, rows, strays>>

RemoveTask(r) ==
  /\ At(r, "new")
  /\ \E c \in Asked(r, "removeTask") :
       /\ task[c.task].live
       /\ task' = [t \in Tasks |->
            IF t = c.task \/ task[t].parent = c.task THEN [task[t] EXCEPT !.live = FALSE] ELSE task[t]]
       /\ Publish(r, task[c.task].workspace, task[c.task].project)
  /\ Write /\ UNCHANGED <<live, member, project, rows, strays>>

Record(r) ==
  /\ At(r, "due")
  /\ log' = log \cup {req[r].event}
  /\ Goto(r, Done) /\ Watch
  /\ UNCHANGED <<db, calm, strays>>

ViewStep(r) ==
  \/ Start(r) \/ ReadMemberships(r) \/ KeepWanted(r) \/ KeepLive(r) \/ ReadRows(r)
  \/ FindProjects(r) \/ Query(r)
WriteStep(r) ==
  \/ CreateProject(r) \/ RemoveProject(r) \/ AddMember(r) \/ AddMemberInsert(r) \/ DropMember(r)
  \/ SetMember(r) \/ RemoveMember(r) \/ DeleteWorkspace(r) \/ UpdateStatus(r) \/ RemoveTask(r)
  \/ Record(r)
Next == \E r \in Requests : ViewStep(r) \/ WriteStep(r)
Spec == Init /\ [][Next]_vars

-----------------------------------------------------------------------------
(* Properties. *)

TypeOK ==
  /\ calls \in [Requests -> SUBSET Call]
  /\ live \subseteq Workspaces
  /\ member \in [Workspaces -> [Users -> Membership]]
  /\ project \in [Projects -> ProjectDoc]
  /\ rows \subseteq ProjectMember
  /\ task \in [Tasks -> TaskDoc]
  /\ \A r \in Requests : req[r].pc = "insert" =>
       req[r].call \in WriteCall /\ req[r].call.op = "add" /\ project[req[r].call.project] # NoProject

(* The four ways the code has to say who sees a project agree in every      *)
(* state, whatever suspensions, roles, rows left behind by a crossing       *)
(* removal and deleted workspaces there are: the check of a project         *)
(* (authorize), the check of a list of people (usersWithAccess), the filter *)
(* of a workspace's list and accessibleProjectIds, "the single scoping      *)
(* primitive"; and a live task is seen by whoever sees its project.         *)
SameVisibility ==
  /\ \A u \in Users, p \in Projects :
       LET sees == Authorized(u, p, "project:read") IN
       /\ sees <=> u \in UsersWithAccess(p)
       /\ sees <=> p \in AccessibleProjectIds(u)
       /\ \A w \in Workspaces : project[p].workspace = w =>
            (sees <=> Resolves(u, w) /\ p \in VisibleProjects(u, w))
  /\ \A u \in Users, t \in Tasks :
       TaskAuthorized(u, t, "task:read") <=> task[t].live /\ Authorized(u, task[t].project, "project:read")

(* Whatever a view shows of a project, its user could see at some moment    *)
(* while the view ran, though it reads memberships, rows, projects and      *)
(* tasks one after the other.  The exceptions are in strays: projects and   *)
(* rows that came into being when the user had no access, which a view      *)
(* joins with a membership it has read before.                              *)
ProjectsShown(r) ==
  LET v == req[r] got == v.got IN
  CASE v.call.op = "search" -> got["projects"] \cup {task[t].project : t \in got["tasks"] \cup got["comments"]}
    [] v.call.op = "feed" -> {e.project : e \in got["page"]} \ {None}
    [] v.call.op \in {"list", "dashboard"} -> DOMAIN got["progress"]
    [] v.call.op = "summary" -> v.found

ShownWasVisible ==
  \A r \in Requests : Shown(r) =>
    \A p \in ProjectsShown(r) : p \in visible[r] \/ <<p, req[r].call.user>> \in strays

(* When nothing was written since a view began, its figures add up: those   *)
(* of one answer with each other, with the answers computed by other        *)
(* queries, with the lists a user would open next, and with the calendar.   *)
Total(f) == MapThenSumSet(LAMBDA x : f[x], DOMAIN f)
AtMost(n) == IF n <= ListLimit THEN n ELSE ListLimit

DashboardAddsUp(ps, got, tz) ==
  LET s == got["stats"] progress == got["progress"] IN
  /\ s.total = Total([p \in ps |-> progress[p].total])
  /\ s.completed = Total([p \in ps |-> progress[p].completed])
  /\ s.total = Total(s.byStatus)
  /\ s.completed = s.byStatus["DONE"]
  /\ s.total - s.completed = Total(s.openByPriority)
  /\ Cardinality(got["overdueTasks"]) = AtMost(s.overdue)
  /\ Cardinality(got["dueSoon"]) = AtMost(got["dueSoonCount"])
  /\ s.dueToday <= got["dueSoonCount"]
  /\ \A u \in DOMAIN got["workload"] : got["workload"][u].overdue <= got["workload"][u].open
  /\ Total(got["byDay"]) =
       Cardinality({t \in TopLevel(TasksOf(ps)) : ~Open(t) /\
         LocalDay(Now, tz) - LocalDay(task[t].completed, tz) \in 0 .. WeekDays - 1})

WeekOf(t, tz) == (LocalDay(t, tz) + 3) \div 7
SummaryAddsUp(u, ps, f, tz) ==
  LET S == MyTasks(u, ps) list(view) == Cardinality(ViewFilter(S, view, tz)) IN
  /\ f.open = f.overdue + f.dueToday + f.upcoming + f.noDueDate
  /\ f.open = Total([w \in DOMAIN f.byWorkspace |-> f.byWorkspace[w].open])
  /\ f.overdue = Total([w \in DOMAIN f.byWorkspace |-> f.byWorkspace[w].overdue])
  /\ f.open = list("all") /\ f.overdue = list("overdue") /\ f.dueToday = list("today")
  /\ f.upcoming = list("upcoming") /\ f.overdue + f.dueToday = list("my-day")
  /\ f.completedThisWeek =
       Cardinality({t \in ViewFilter(S, "completed", tz) : WeekOf(task[t].completed, tz) = WeekOf(Now, tz)})

FiguresAddUp ==
  \A r \in calm : Shown(r) =>
    LET v == req[r] c == v.call IN
    CASE c.op = "dashboard" -> DashboardAddsUp(v.found, v.got, c.tz)
      [] c.op = "summary" -> SummaryAddsUp(c.user, v.found, v.got["facets"], c.tz)
      [] c.op = "list" -> \A p \in v.found :
           v.got["progress"][p].total = TaskStats({p}, 0).total
           /\ v.got["progress"][p].completed = TaskStats({p}, 0).completed
      [] OTHER -> TRUE
=============================================================================
