----------------------------- MODULE TaskFields -----------------------------
(***************************************************************************)
(* What a task says besides its place in the tree: status and completedAt, *)
(* due date and reminder, assignees and labels, and what takes people and  *)
(* labels out from under it.                                               *)
(*                                                                         *)
(*   src/src/tasks/tasks.service.ts, src/src/labels/labels.service.ts      *)
(*   src/src/notifications/due-date-reminder.scheduler.ts                  *)
(*   src/src/projects/project-members.service.ts, project-access.service.ts*)
(*   src/src/workspaces/workspace-members.service.ts                       *)
(*                                                                         *)
(* One live project of one workspace.  A request occupies a slot of `req`  *)
(* and stops at every await whose result it uses later; usersWithAccess is *)
(* one read.  Transactions as in TaskGraph: the writes are to what the     *)
(* snapshot had, again from a new snapshot when somebody else wrote that.  *)
(* The clock is left out: any due date may be the one that is near.        *)
(***************************************************************************)
EXTENDS Naturals, FiniteSets

CONSTANTS
  Tasks, NoTask,
  Users, NoUser,
  Labels, NoLabel,
  Requests,   \* request slots
  Bodies,     \* what clients send to create or update a task
  Dates, NoDate

TaskStatus == {"TODO", "IN_PROGRESS", "IN_REVIEW", "BLOCKED", "DONE"}

(* completedAt and dueReminderSentAt: whether they are set. *)
TaskDoc == [state             : {"ABSENT", "LIVE", "DELETED"},
            status            : TaskStatus,
            completedAt       : BOOLEAN,
            dueDate           : Dates \cup {NoDate},
            dueReminderSentAt : BOOLEAN,
            assignees         : SUBSET Users,
            labels            : SUBSET Labels]

BodyFields == {"status", "dueDate", "assignees", "labels"}
Fields == BodyFields \cup {"completedAt", "dueReminderSentAt"}

NoDoc == [state |-> "ABSENT", status |-> "TODO", completedAt |-> FALSE,
          dueDate |-> NoDate, dueReminderSentAt |-> FALSE,
          assignees |-> {}, labels |-> {}]

(* A patch: the fields that are given, and a document that has them. *)
Patch == [given : SUBSET Fields, doc : TaskDoc]
NoPatch == [given |-> {}, doc |-> NoDoc]

ASSUME TaskFieldsAssumption ==
  /\ NoTask \notin Tasks /\ NoUser \notin Users /\ NoLabel \notin Labels /\ NoDate \notin Dates
  /\ Bodies \subseteq [given : SUBSET BodyFields, doc : TaskDoc]

VARIABLES
  member,     \* workspace_members, as far as projects are concerned
  onProject,  \* users with a row in project_members
  label,      \* labels collection
  task,       \* tasks collection
  reminders,  \* times a reminder was claimed since the due date last changed
  req         \* what each request slot is doing

vars == <<member, onProject, label, task, reminders, req>>

(* No row, SUSPENDED, ACTIVE in a role without PROJECT_READ_ALL, or with. *)
Standing == {"NONE", "SUSPENDED", "NARROW", "WIDE"}

CanSee(u) == member[u] = "WIDE" \/ (member[u] = "NARROW" /\ u \in onProject)

Live(t) == task[t].state = "LIVE"

Open(doc) == doc.state = "LIVE" /\ doc.status # "DONE"

(* findByIdAndUpdate sets the fields that are given. *)
Patched(doc, patch) ==
  [doc EXCEPT
     !.status      = IF "status" \in patch.given THEN patch.doc.status ELSE @,
     !.completedAt = IF "completedAt" \in patch.given THEN patch.doc.completedAt ELSE @,
     !.dueDate     = IF "dueDate" \in patch.given THEN patch.doc.dueDate ELSE @,
     !.dueReminderSentAt = IF "dueReminderSentAt" \in patch.given
                           THEN patch.doc.dueReminderSentAt ELSE @,
     !.assignees   = IF "assignees" \in patch.given THEN patch.doc.assignees ELSE @,
     !.labels      = IF "labels" \in patch.given THEN patch.doc.labels ELSE @]

-----------------------------------------------------------------------------
(* Requests. *)

RequestPc == {"idle", "assign", "labels", "write", "join:insert",
              "leave:begin", "leave:commit", "unlabel:begin", "unlabel:commit"}

(* on, patch: the task to update and the patch decided on what was read.    *)
(* adds: the assignees to check.  who, tag: the person or label to add or   *)
(* remove.  row: the membership row that was read still exists.  hits: the  *)
(* tasks the transaction's snapshot has to pull from.  conflict: somebody   *)
(* has written what the transaction writes.  clean, which the code does not *)
(* have: nobody else wrote since the first read, or since the snapshot.     *)
Request == [pc : RequestPc, on : Tasks \cup {NoTask}, patch : Patch,
            adds : SUBSET Users, who : Users \cup {NoUser}, tag : Labels \cup {NoLabel},
            row : BOOLEAN, hits : SUBSET Tasks, conflict : BOOLEAN, clean : BOOLEAN]

NoRequest == [pc |-> "idle", on |-> NoTask, patch |-> NoPatch, adds |-> {},
              who |-> NoUser, tag |-> NoLabel, row |-> FALSE, hits |-> {},
              conflict |-> FALSE, clean |-> TRUE]

Idle(s) == req[s].pc = "idle"
At(s, pc) == req[s].pc = pc
Goto(s, pc) == req' = [req EXCEPT ![s].pc = pc]
Done(s) == req' = [req EXCEPT ![s] = NoRequest]
Again(s, pc) == req' = [req EXCEPT ![s].pc = pc, ![s].hits = {}, ![s].conflict = FALSE]

(* The requests left running when the requests S have ended, and tasks T    *)
(* and rows of the people U were written; gone: whose membership row went.  *)
(* A row written that came after the snapshot counts as a conflict too: the *)
(* transaction could as well have begun later.                              *)
Disturbed(S, T, U, gone) ==
  [s \in Requests |->
     IF s \in S \/ Idle(s) THEN NoRequest
     ELSE [req[s] EXCEPT
             !.row      = @ /\ req[s].who \notin gone,
             !.conflict = @ \/ (req[s].pc \in {"leave:commit", "unlabel:commit"}
                                /\ (req[s].hits \cap T # {} \/ req[s].who \in U)),
             !.clean    = FALSE]]

AfterAssign(patch) ==
  IF "labels" \in patch.given /\ patch.doc.labels # {} THEN "labels" ELSE "write"

AfterRead(adds, patch) == IF adds # {} THEN "assign" ELSE AfterAssign(patch)

-----------------------------------------------------------------------------
(* TasksService.create and update *)

(* create, with what the body leaves out at its default. *)
Create(s, body) ==
  LET doc   == Patched([NoDoc EXCEPT !.state = "LIVE"], body)
      patch == [given |-> Fields,
                doc   |-> [doc EXCEPT !.completedAt = doc.status = "DONE"]]
  IN /\ Idle(s)
     /\ req' = [req EXCEPT ![s] = [NoRequest EXCEPT !.pc = AfterRead(doc.assignees, patch),
                                                    !.patch = patch,
                                                    !.adds = doc.assignees]]
     /\ UNCHANGED <<member, onProject, label, task, reminders>>

(* assigneeIds that name who is assigned already are no change. *)
Asked(doc, body) ==
  IF body.doc.assignees = doc.assignees THEN body.given \ {"assignees"} ELSE body.given

Changes(doc, body) ==
  {f \in Asked(doc, body) :
     \/ f = "status" /\ body.doc.status # doc.status
     \/ f = "dueDate" /\ body.doc.dueDate # doc.dueDate
     \/ f = "assignees"
     \/ f = "labels" /\ body.doc.labels # doc.labels}

(* The slip of leaving completedAt when a task is reopened. *)
MutNeverReopens(doc, body) ==
  LET changes == Changes(doc, body)
  IN [given |-> Asked(doc, body)
                \cup (IF "status" \in changes /\ body.doc.status = "DONE"
                      THEN {"completedAt"} ELSE {})
                \cup (IF "dueDate" \in changes THEN {"dueReminderSentAt"} ELSE {}),
      doc   |-> [body.doc EXCEPT !.completedAt = TRUE, !.dueReminderSentAt = FALSE]]

(* The patch update writes, decided on the document as read. *)
UpdatePatch(doc, body) ==
  LET changes == Changes(doc, body)
  IN [given |-> Asked(doc, body)
                \cup (IF "status" \in changes THEN {"completedAt"} ELSE {})
                \cup (IF "dueDate" \in changes THEN {"dueReminderSentAt"} ELSE {}),
      doc   |-> [body.doc EXCEPT !.completedAt = body.doc.status = "DONE",
                                 !.dueReminderSentAt = FALSE]]

(* update; one that changes nothing returns without a write. *)
Update(s, t, body) ==
  LET patch == UpdatePatch(task[t], body)
      adds  == IF "assignees" \in patch.given
               THEN body.doc.assignees \ task[t].assignees ELSE {}
  IN /\ Idle(s)
     /\ Live(t)
     /\ Changes(task[t], body) # {}
     /\ req' = [req EXCEPT ![s] = [NoRequest EXCEPT !.pc = AfterRead(adds, patch),
                                                    !.on = t,
                                                    !.patch = patch,
                                                    !.adds = adds]]
     /\ UNCHANGED <<member, onProject, label, task, reminders>>

(* The slip of asking for a membership only. *)
MutAnyMember(users) == \A u \in users : member[u] \in {"NARROW", "WIDE"}

Assignable(users) == \A u \in users : CanSee(u)

CheckAssignees(s) ==
  /\ At(s, "assign")
  /\ IF Assignable(req[s].adds) THEN Goto(s, AfterAssign(req[s].patch)) ELSE Done(s)
  /\ UNCHANGED <<member, onProject, label, task, reminders>>

ResolveForWorkspace(labels) == \A l \in labels : label[l] = "LIVE"

CheckLabels(s) ==
  /\ At(s, "labels")
  /\ IF ResolveForWorkspace(req[s].patch.doc.labels) THEN Goto(s, "write") ELSE Done(s)
  /\ UNCHANGED <<member, onProject, label, task, reminders>>

CreateInsert(s, t) ==
  /\ At(s, "write")
  /\ req[s].on = NoTask
  /\ task[t].state = "ABSENT"
  /\ task' = [task EXCEPT ![t] = req[s].patch.doc]
  /\ req' = Disturbed({s}, {t}, {}, {})
  /\ UNCHANGED <<member, onProject, label, reminders>>

(* findByIdAndUpdate, of the task as it is by now. *)
UpdateWrite(s) ==
  LET t == req[s].on
      doc == Patched(task[t], req[s].patch)
  IN /\ At(s, "write")
     /\ t # NoTask
     /\ task' = [task EXCEPT ![t] = doc]
     /\ reminders' = [reminders EXCEPT ![t] = IF doc.dueDate = task[t].dueDate THEN @ ELSE 0]
     /\ req' = Disturbed({s}, {t}, {}, {})
     /\ UNCHANGED <<member, onProject, label>>

(* TasksService.remove; subtasks are in module TaskGraph. *)
RemoveTask(t) ==
  /\ Live(t)
  /\ task' = [task EXCEPT ![t].state = "DELETED"]
  /\ req' = Disturbed({}, {t}, {}, {})
  /\ UNCHANGED <<member, onProject, label, reminders>>

-----------------------------------------------------------------------------
(* DueDateReminderScheduler *)

(* The slip of not looking whether the reminder was sent. *)
MutForgets(doc) ==
  /\ Open(doc) /\ doc.assignees # {}
  /\ doc.dueDate # NoDate

DueSoon(doc) ==
  /\ Open(doc) /\ doc.assignees # {}
  /\ ~doc.dueReminderSentAt
  /\ doc.dueDate # NoDate

(* The findOneAndUpdate of sendDueSoonReminders, by any instance. *)
ClaimReminder(t) ==
  /\ DueSoon(task[t])
  /\ task' = [task EXCEPT ![t].dueReminderSentAt = TRUE]
  /\ reminders' = [reminders EXCEPT ![t] = @ + 1]
  /\ req' = Disturbed({}, {t}, {}, {})
  /\ UNCHANGED <<member, onProject, label>>

-----------------------------------------------------------------------------
(* People. *)

(* An accepted invitation, a new role, a suspension: module Membership. *)
Join(u, standing) ==
  /\ member[u] = "NONE"
  /\ standing \in {"NARROW", "WIDE"}
  /\ member' = [member EXCEPT ![u] = standing]
  /\ req' = Disturbed({}, {}, {}, {})
  /\ UNCHANGED <<onProject, label, task, reminders>>

UpdateMember(u, standing) ==
  /\ member[u] # "NONE"
  /\ standing \in Standing \ {"NONE", member[u]}
  /\ member' = [member EXCEPT ![u] = standing]
  /\ req' = Disturbed({}, {}, {u}, {})
  /\ UNCHANGED <<onProject, label, task, reminders>>

(* ProjectMembersService.add: isActiveMember, *)
AddProjectMember(s, u) ==
  /\ Idle(s)
  /\ member[u] \in {"NARROW", "WIDE"}
  /\ req' = [req EXCEPT ![s] = [NoRequest EXCEPT !.pc = "join:insert", !.who = u]]
  /\ UNCHANGED <<member, onProject, label, task, reminders>>

(* and the insert, which the unique index refuses a second time. *)
AddProjectMemberInsert(s) ==
  LET u == req[s].who
  IN /\ At(s, "join:insert")
     /\ IF u \in onProject
        THEN Done(s) /\ UNCHANGED onProject
        ELSE /\ onProject' = onProject \cup {u}
             /\ req' = Disturbed({s}, {}, {}, {})
     /\ UNCHANGED <<member, label, task, reminders>>

(* ProjectMembersService.remove *)
RemoveProjectMember(u) ==
  /\ u \in onProject
  /\ onProject' = onProject \ {u}
  /\ req' = Disturbed({}, {}, {u}, {})
  /\ UNCHANGED <<member, label, task, reminders>>

(* WorkspaceMembersService.remove, from the read of the membership row, *)
RemoveMember(s, u) ==
  /\ Idle(s)
  /\ member[u] # "NONE"
  /\ req' = [req EXCEPT ![s] = [NoRequest EXCEPT !.pc = "leave:begin", !.who = u, !.row = TRUE]]
  /\ UNCHANGED <<member, onProject, label, task, reminders>>

(* The slip of counting work in review as finished. *)
MutUnfinished(u) ==
  {t \in Tasks : u \in task[t].assignees /\ Live(t)
                 /\ task[t].status \notin {"DONE", "IN_REVIEW"}}

OpenWork(u) == {t \in Tasks : u \in task[t].assignees /\ Open(task[t])}

RemoveMemberBegin(s) ==
  /\ At(s, "leave:begin")
  /\ req' = [req EXCEPT ![s].pc = "leave:commit", ![s].hits = OpenWork(req[s].who),
                        ![s].conflict = FALSE, ![s].clean = TRUE]
  /\ UNCHANGED <<member, onProject, label, task, reminders>>

(* The row is deleted by its id, project memberships and assignments by the *)
(* person: they go even when the row had gone before and there is a new one.*)
RemoveMemberCommit(s) ==
  LET r == req[s]
  IN /\ At(s, "leave:commit")
     /\ IF r.conflict
        THEN Again(s, "leave:begin") /\ UNCHANGED <<member, onProject, task>>
        ELSE /\ member' = [member EXCEPT ![r.who] = IF r.row THEN "NONE" ELSE @]
             /\ onProject' = onProject \ {r.who}
             /\ task' = [t \in Tasks |-> IF t \in r.hits
                                         THEN [task[t] EXCEPT !.assignees = @ \ {r.who}]
                                         ELSE task[t]]
             /\ req' = Disturbed({s}, r.hits, {r.who}, IF r.row THEN {r.who} ELSE {})
     /\ UNCHANGED <<label, reminders>>

-----------------------------------------------------------------------------
(* LabelsService *)

CreateLabel(l) ==
  /\ label[l] = "ABSENT"
  /\ label' = [label EXCEPT ![l] = "LIVE"]
  /\ req' = Disturbed({}, {}, {}, {})
  /\ UNCHANGED <<member, onProject, task, reminders>>

RemoveLabel(s, l) ==
  /\ Idle(s)
  /\ label[l] = "LIVE"
  /\ req' = [req EXCEPT ![s] = [NoRequest EXCEPT !.pc = "unlabel:begin", !.tag = l]]
  /\ UNCHANGED <<member, onProject, label, task, reminders>>

(* The slip of sparing deleted tasks. *)
MutLiveTagged(l) == {t \in Tasks : l \in task[t].labels /\ Live(t)}

Tagged(l) == {t \in Tasks : l \in task[t].labels}

RemoveLabelBegin(s) ==
  /\ At(s, "unlabel:begin")
  /\ req' = [req EXCEPT ![s].pc = "unlabel:commit", ![s].hits = Tagged(req[s].tag),
                        ![s].conflict = FALSE, ![s].clean = TRUE]
  /\ UNCHANGED <<member, onProject, label, task, reminders>>

RemoveLabelCommit(s) ==
  LET r == req[s]
  IN /\ At(s, "unlabel:commit")
     /\ IF r.conflict
        THEN Again(s, "unlabel:begin") /\ UNCHANGED <<label, task>>
        ELSE /\ label' = [label EXCEPT ![r.tag] = "DELETED"]
             /\ task' = [t \in Tasks |-> IF t \in r.hits
                                         THEN [task[t] EXCEPT !.labels = @ \ {r.tag}]
                                         ELSE task[t]]
             /\ req' = Disturbed({s}, r.hits, {}, {})
     /\ UNCHANGED <<member, onProject, reminders>>

-----------------------------------------------------------------------------
Init ==
  /\ member = [u \in Users |-> "NONE"]
  /\ onProject = {}
  /\ label = [l \in Labels |-> "ABSENT"]
  /\ task = [t \in Tasks |-> NoDoc]
  /\ reminders = [t \in Tasks |-> 0]
  /\ req = [s \in Requests |-> NoRequest]

Next ==
  \/ \E s \in Requests, body \in Bodies : Create(s, body)
  \/ \E s \in Requests, t \in Tasks, body \in Bodies : Update(s, t, body)
  \/ \E s \in Requests : CheckAssignees(s)
  \/ \E s \in Requests : CheckLabels(s)
  \/ \E s \in Requests, t \in Tasks : CreateInsert(s, t)
  \/ \E s \in Requests : UpdateWrite(s)
  \/ \E t \in Tasks : RemoveTask(t)
  \/ \E t \in Tasks : ClaimReminder(t)
  \/ \E u \in Users, standing \in Standing : Join(u, standing)
  \/ \E u \in Users, standing \in Standing : UpdateMember(u, standing)
  \/ \E s \in Requests, u \in Users : AddProjectMember(s, u)
  \/ \E s \in Requests : AddProjectMemberInsert(s)
  \/ \E u \in Users : RemoveProjectMember(u)
  \/ \E s \in Requests, u \in Users : RemoveMember(s, u)
  \/ \E s \in Requests : RemoveMemberBegin(s)
  \/ \E s \in Requests : RemoveMemberCommit(s)
  \/ \E l \in Labels : CreateLabel(l)
  \/ \E s \in Requests, l \in Labels : RemoveLabel(s, l)
  \/ \E s \in Requests : RemoveLabelBegin(s)
  \/ \E s \in Requests : RemoveLabelCommit(s)

Spec == Init /\ [][Next]_vars

-----------------------------------------------------------------------------
(* Properties. *)

(* The shape of the collections; a task has content only once it exists. *)
TypeOK ==
  /\ member \in [Users -> Standing]
  /\ onProject \subseteq Users
  /\ label \in [Labels -> {"ABSENT", "LIVE", "DELETED"}]
  /\ task \in [Tasks -> TaskDoc]
  /\ reminders \in [Tasks -> Nat]
  /\ req \in [Requests -> Request]
  /\ \A t \in Tasks : task[t].state = "ABSENT" => task[t] = NoDoc

(* The request whose write this step is. *)
Writing(s) ==
  req[s].pc \in {"write", "join:insert", "leave:commit", "unlabel:commit"} /\ Idle(s)'

(* Nobody else wrote while the request of this step ran. *)
Undisturbed == \A s \in Requests : Writing(s) => req[s].clean

(* completedAt is set when the status becomes DONE and cleared when the     *)
(* task is reopened (DATA_MODEL.md, tasks; task.schema.ts).                 *)
CompletedIffDone == \A t \in Tasks : task[t].completedAt <=> task[t].status = "DONE"

(* An update whose decision rests on the task as it still is keeps          *)
(* completedAt in step with the status.                                     *)
CompletionFollows == [][CompletedIffDone /\ Undisturbed => CompletedIffDone']_vars

OneReminder ==
  \A t \in Tasks : reminders[t] = 0 \/ (reminders[t] = 1 /\ task[t].dueReminderSentAt)

(* Every due date is reminded of once, however many instances run the cron  *)
(* and whatever is changed besides ("sent once per task", WORKFLOW.md).     *)
RemindsOnce == [][OneReminder /\ Undisturbed => OneReminder']_vars

Untagged(t, l) == l \in task[t].labels /\ label[l] # "LIVE"

(* A label that is deleted goes from every task, deleted ones too, and no   *)
(* task gets one that does not exist (missingRef, integrity-checks.ts).     *)
LabelsExist ==
  [][Undisturbed => \A t \in Tasks, l \in Labels : Untagged(t, l)' => Untagged(t, l)]_vars

Stranded(t, u) == Open(task[t]) /\ u \in task[t].assignees /\ member[u] = "NONE"

(* Who leaves the workspace keeps no open work and no project ("unassigns   *)
(* their open tasks", WORKFLOW.md), and nothing hands them some later but   *)
(* reopening what they had finished.                                        *)
LeaversLetGo ==
  [][Undisturbed =>
       /\ \A t \in Tasks, u \in Users :
            Stranded(t, u)' => Stranded(t, u) \/ (task[t].status = "DONE" /\ u \in task[t].assignees)
       /\ \A u \in onProject' : member'[u] = "NONE" => u \in onProject /\ member[u] = "NONE"]_vars

(* Whoever is newly assigned to a task can see its project ("Assignee must  *)
(* be a workspace member who can see that project", WORKFLOW.md).           *)
AssigneesSeeProject ==
  [][Undisturbed =>
       \A t \in Tasks : \A u \in task'[t].assignees \ task[t].assignees : CanSee(u)]_vars
=============================================================================
