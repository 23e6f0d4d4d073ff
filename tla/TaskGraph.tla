------------------------------ MODULE TaskGraph ------------------------------
(***************************************************************************)
(* Tasks, subtasks and dependencies.                                       *)
(*                                                                         *)
(*   src/src/tasks/tasks.service.ts                                        *)
(*   src/src/task-dependencies/task-dependencies.service.ts                *)
(*                                                                         *)
(* A request occupies a slot of `req` from its first read to its write and *)
(* stops at every await whose result it uses later.  The transaction of    *)
(* TasksService.remove reads the subtasks and the edges of its snapshot    *)
(* and is repeated when somebody else wrote one of them before it commits; *)
(* what is inserted meanwhile it does not see.                             *)
(*                                                                         *)
(* Callers may do what they ask for: who may is in module Membership.  The *)
(* other fields of a task, its assignees and labels are left out.          *)
(***************************************************************************)
EXTENDS Naturals, FiniteSets

CONSTANTS
  Tasks,      \* ids tasks may get
  NoTask,
  Projects,   \* live projects
  NoProject,
  Requests    \* request slots: how many requests may be in flight

ASSUME TaskGraphAssumption ==
  /\ NoTask \notin Tasks
  /\ NoProject \notin Projects

VARIABLES
  task,    \* tasks collection
  edges,   \* task_dependencies: <<blockingTask, blockedTask>>
  req      \* what each request slot is doing

vars == <<task, edges, req>>

(* parent: parentTask.  deletedAt makes a task DELETED. *)
TaskDoc == [state   : {"ABSENT", "LIVE", "DELETED"},
            project : Projects \cup {NoProject},
            parent  : Tasks \cup {NoTask}]

NoDoc == [state |-> "ABSENT", project |-> NoProject, parent |-> NoTask]

Live(t) == task[t].state = "LIVE"
Touches(e, S) == e[1] \in S \/ e[2] \in S
Subtasks(t) == {u \in Tasks : Live(u) /\ task[u].parent = t}

-----------------------------------------------------------------------------
(* Requests. *)

RequestPc == {"idle", "create:insert", "add:blocking", "add:cycle", "add:insert",
              "remove:begin", "remove:commit"}

(* on: the parent, the blocked task, the task to remove, as the request     *)
(* read it.  other: the blocking task.  ids, gone: the live tasks and the   *)
(* edges of the remove transaction's snapshot.  clean, which the code does  *)
(* not have, is FALSE once somebody else has written since the first read.  *)
Request == [pc    : RequestPc,
            on    : Tasks \cup {NoTask},
            other : Tasks \cup {NoTask},
            ids   : SUBSET Tasks,
            gone  : SUBSET (Tasks \X Tasks),
            clean : BOOLEAN]

NoRequest == [pc |-> "idle", on |-> NoTask, other |-> NoTask,
              ids |-> {}, gone |-> {}, clean |-> TRUE]

Idle(s) == req[s].pc = "idle"
At(s, pc) == req[s].pc = pc
Goto(s, pc) == req' = [req EXCEPT ![s].pc = pc]
Done(s) == req' = [req EXCEPT ![s] = NoRequest]

(* The requests left running when the requests S have written and ended. *)
Disturbed(S) ==
  [s \in Requests |-> IF s \in S THEN NoRequest ELSE [req[s] EXCEPT !.clean = Idle(s)]]

-----------------------------------------------------------------------------
(* TasksService.create *)

(* A task that is no subtask needs nothing read before but permission. *)
Create(t, p) ==
  /\ task[t].state = "ABSENT"
  /\ task' = [task EXCEPT ![t] = [state |-> "LIVE", project |-> p, parent |-> NoTask]]
  /\ req' = Disturbed({})
  /\ UNCHANGED edges

FoundIn(t, p) == Live(t) /\ task[t].project = p

(* The slip of letting subtasks have subtasks. *)
MutAnyDepth(t) == TRUE

TopLevel(t) == task[t].parent = NoTask

(* create with parentTaskId: resolveParent, *)
CreateUnder(s, t, p) ==
  /\ Idle(s)
  /\ FoundIn(t, p)
  /\ TopLevel(t)
  /\ req' = [req EXCEPT ![s] = [NoRequest EXCEPT !.pc = "create:insert", !.on = t]]
  /\ UNCHANGED <<task, edges>>

(* and the insert. *)
CreateInsert(s, t) ==
  LET parent == req[s].on
  IN /\ At(s, "create:insert")
     /\ task[t].state = "ABSENT"
     /\ task' = [task EXCEPT ![t] = [state   |-> "LIVE",
                                     project |-> task[parent].project,
                                     parent  |-> parent]]
     /\ req' = Disturbed({s})
     /\ UNCHANGED edges

-----------------------------------------------------------------------------
(* TaskDependenciesService.add: "t is blocked by blocking" *)

AddAuthorize(s, t, blocking) ==
  /\ Idle(s)
  /\ Live(t)
  /\ t # blocking
  /\ req' = [req EXCEPT ![s] =
               [NoRequest EXCEPT !.pc = "add:blocking", !.on = t, !.other = blocking]]
  /\ UNCHANGED <<task, edges>>

AddBlocking(s) ==
  LET r == req[s]
  IN /\ At(s, "add:blocking")
     /\ IF FoundIn(r.other, task[r.on].project) THEN Goto(s, "add:cycle") ELSE Done(s)
     /\ UNCHANGED <<task, edges>>

(* What t blocks, directly or through others: the $graphLookup. *)
Downstream(E, t) ==
  {u \in Tasks :
     \A S \in SUBSET Tasks :
       (\A e \in E : e[1] = t \/ e[1] \in S => e[2] \in S) => u \in S}

(* The slip of looking at the direct edges only. *)
MutDirectCycle(E, blocking, t) == <<t, blocking>> \in E

WouldCreateCycle(E, blocking, t) == blocking \in Downstream(E, t)

AddCycle(s) ==
  /\ At(s, "add:cycle")
  /\ IF WouldCreateCycle(edges, req[s].other, req[s].on) THEN Done(s) ELSE Goto(s, "add:insert")
  /\ UNCHANGED <<task, edges>>

(* The unique index {blockingTask, blockedTask} refuses an edge twice. *)
AddInsert(s) ==
  LET e == <<req[s].other, req[s].on>>
  IN /\ At(s, "add:insert")
     /\ IF e \in edges
        THEN Done(s) /\ UNCHANGED edges
        ELSE /\ edges' = edges \cup {e}
             /\ req' = Disturbed({s})
     /\ UNCHANGED task

(* TaskDependenciesService.remove, of an edge that exists; it was there     *)
(* before the permission was checked, so one step.                          *)
RemoveDependency(e, t) ==
  /\ Live(t)
  /\ Touches(e, {t})
  /\ edges' = edges \ {e}
  /\ req' = Disturbed({})
  /\ UNCHANGED task

-----------------------------------------------------------------------------
(* TasksService.remove *)

RemoveAuthorize(s, t) ==
  /\ Idle(s)
  /\ Live(t)
  /\ req' = [req EXCEPT ![s] = [NoRequest EXCEPT !.pc = "remove:begin", !.on = t]]
  /\ UNCHANGED <<task, edges>>

Removed(t) == {t} \cup Subtasks(t)

(* The transaction's snapshot, *)
RemoveBegin(s) ==
  LET ids == Removed(req[s].on)
  IN /\ At(s, "remove:begin")
     /\ req' = [req EXCEPT ![s].pc   = "remove:commit",
                           ![s].ids  = {t \in ids : Live(t)},
                           ![s].gone = {e \in edges : Touches(e, ids)}]
     /\ UNCHANGED <<task, edges>>

(* and its commit, unless somebody wrote what it writes. *)
RemoveCommit(s) ==
  LET r == req[s]
  IN /\ At(s, "remove:commit")
     /\ IF (\A t \in r.ids : Live(t)) /\ r.gone \subseteq edges
        THEN /\ task' = [t \in Tasks |->
                           IF t \in r.ids THEN [task[t] EXCEPT !.state = "DELETED"] ELSE task[t]]
             /\ edges' = edges \ r.gone
             /\ req' = Disturbed({s})
        ELSE /\ req' = [req EXCEPT ![s].pc = "remove:begin", ![s].ids = {}, ![s].gone = {}]
             /\ UNCHANGED <<task, edges>>

-----------------------------------------------------------------------------
Init ==
  /\ task = [t \in Tasks |-> NoDoc]
  /\ edges = {}
  /\ req = [s \in Requests |-> NoRequest]

Next ==
  \/ \E t \in Tasks, p \in Projects : Create(t, p)
  \/ \E s \in Requests, t \in Tasks, p \in Projects : CreateUnder(s, t, p)
  \/ \E s \in Requests, t \in Tasks : CreateInsert(s, t)
  \/ \E s \in Requests, t \in Tasks, blocking \in Tasks : AddAuthorize(s, t, blocking)
  \/ \E s \in Requests : AddBlocking(s)
  \/ \E s \in Requests : AddCycle(s)
  \/ \E s \in Requests : AddInsert(s)
  \/ \E e \in edges, t \in Tasks : RemoveDependency(e, t)
  \/ \E s \in Requests, t \in Tasks : RemoveAuthorize(s, t)
  \/ \E s \in Requests : RemoveBegin(s)
  \/ \E s \in Requests : RemoveCommit(s)

Spec == Init /\ [][Next]_vars

-----------------------------------------------------------------------------
(* Properties. *)

(* The shape of the collections; every reference is to a task that exists   *)
(* or existed (the missingRef checks of integrity-checks.ts).               *)
TypeOK ==
  /\ task \in [Tasks -> TaskDoc]
  /\ edges \subseteq Tasks \X Tasks
  /\ req \in [Requests -> Request]
  /\ \A t \in Tasks :
       /\ task[t].state = "ABSENT" => task[t] = NoDoc /\ ~\E e \in edges : Touches(e, {t})
       /\ task[t].parent # NoTask => task[task[t].parent].state # "ABSENT"

(* Subtasks nest one level deep and live in their parent's project, and     *)
(* dependencies link two tasks of one project (nested-subtask, self-loop    *)
(* and the scope checks of integrity-checks.ts), whatever happened to the   *)
(* parent or the blocking task after it was looked up.                      *)
OneLevelOneProject ==
  /\ \A t \in Tasks :
       LET parent == task[t].parent
       IN parent # NoTask =>
            task[parent].parent = NoTask /\ task[parent].project = task[t].project
  /\ \A e \in edges : e[1] # e[2] /\ task[e[1]].project = task[e[2]].project

(* Every set of tasks has one that blocks none of the others. *)
AcyclicEdges(E) ==
  \A S \in (SUBSET Tasks) \ {{}} : \E t \in S : \A u \in S : <<t, u>> \notin E

(* No cycles (WORKFLOW.md, "Same project only, no self-link, no cycles"). *)
Acyclic == AcyclicEdges(edges)

GraphSound ==
  /\ Acyclic
  /\ \A e \in edges : Live(e[1]) /\ Live(e[2])
  /\ \A t \in Tasks : Live(t) /\ ~TopLevel(t) => Live(task[t].parent)

(* The request whose write this step is. *)
Writing(s) ==
  req[s].pc \in {"create:insert", "add:insert", "remove:commit"} /\ Idle(s)'

(* Each request by itself keeps the graph sound: no cycle, no dependency on *)
(* a deleted task, no live subtask of one.  Only a write of somebody else   *)
(* between its first read and its own write may break that.                 *)
EachAloneKeepsGraph ==
  [][GraphSound /\ (\A s \in Requests : Writing(s) => req[s].clean) => GraphSound']_vars
=============================================================================
