----------------------------- MODULE Migrations -----------------------------
(***************************************************************************)
(* The migrations that a deploy runs before the application starts:        *)
(* database/migrations/run-migrations.ts and the three it has.  A run may   *)
(* die between any two database operations and is started again by the     *)
(* next deploy; an application of the new release may be running all the   *)
(* while ("it booted before this ran").  One process migrates at a time.   *)
(*                                                                         *)
(* Databases are as in module Integrity.  Every legacy owner and creator   *)
(* is a user, so that after the loop over the users their personal         *)
(* workspaces are there; the caches of the code are left out, since what   *)
(* they hold does not change.                                              *)
(***************************************************************************)
EXTENDS Integrity, Functions

CONSTANTS
  Legacy,      \* the situations to start from: a database and a ledger
  FirstId,     \* _ids from this number on are new
  NewName,     \* the name a new account takes
  MaxCrashes,  \* bounds: how many runs die
  MaxApp       \* and how many calls the application answers

(* What 001 converts, in the shape from before it. *)
Unmoved(d) ==
  UNION {Lacking(d, "tasks", "workspace"), Having(d, "comments", "isDeleted"),
         Lacking(d, "notifications", "recipient"), Lacking(d, "attachments", "storageKey")}

(* A project without an owner stays. *)
Ownerless(d) == {p \in Ids(d, "projects") : Field(d["projects"][p], "owner") = None}

(* New ids are new; migrations are recorded in order and have then been at  *)
(* work, and flags and scopes of comments came one after the other.        *)
ASSUME MigrationsAssumption ==
  /\ FirstId \in Nat /\ MaxCrashes \in Nat /\ MaxApp \in Nat
  /\ ~NewName.caps
  /\ \A s \in Legacy :
       /\ \A c \in DOMAIN s.db : DOMAIN s.db[c] \subseteq 0 .. (FirstId - 1)
       /\ \E k \in 0..3 : s.ledger = 1..k
       /\ 1 \in s.ledger => Unmoved(s.db) = {} /\ Lacking(s.db, "projects", "workspace") \subseteq Ownerless(s.db)
       /\ 2 \in s.ledger => Having(s.db, "tasks", "assignee") = {}
       /\ 3 \in s.ledger => Having(s.db, "users", "isDeleted") = {}
       /\ Having(s.db, "comments", "isDeleted") \subseteq Lacking(s.db, "comments", "workspace")

VARIABLES
  db,
  ledger,   \* the migrations recorded
  run,      \* where the run is, with what its loop has still to do
  nextId,
  crashes,
  calls,    \* how many calls the application has answered
  before,   \* history: the database in the beginning,
  removed,  \* memberships the application has deleted,
  edited,   \* the assignees it has given tasks, None for the others,
  cut       \* and projects a dying run has left without their owner's row

history == <<before, removed, edited, cut>>
migrationVars == <<db, ledger, run, nextId, crashes, calls, history>>

-----------------------------------------------------------------------------
(* Documents. *)
Over(new, old)    == [x \in DOMAIN new \cup DOMAIN old |-> IF x \in DOMAIN new THEN new[x] ELSE old[x]]
Unset(doc, fs)    == Restrict(doc, DOMAIN doc \ fs)
Put(c, docs)      == Over([x \in {c} |-> docs], db)
Added(c, id, doc) == Over([x \in {id} |-> doc], Docs(db, c))
With(c, id, doc)  == Put(c, Added(c, id, doc))
Without(c, ids)   == Put(c, Unset(Docs(db, c), ids))
Update(c, ids, F(_)) ==
  Put(c, [d \in Ids(db, c) |-> IF d \in ids THEN F(db[c][d]) ELSE db[c][d]])
In(c) == Ids(db, c)
Doc(c, id) == db[c][id]

Personal(u) == CHOOSE w \in PersonalOf(db, u) : TRUE
Matching(c, f, v, g, x) == {d \in In(c) : Doc(c, d)[f] = v /\ Doc(c, d)[g] = x}

-----------------------------------------------------------------------------
(* The run. *)
NoRun == [pc |-> "idle"]
RunAt(pc) == run.pc = pc
RunTo(pc) == run' = [pc |-> pc]
Loop(pc, todo) == run' = [pc |-> pc, todo |-> todo]
Calm == UNCHANGED <<crashes, calls, history>>
Write(new) == db' = new /\ UNCHANGED nextId
Insert(c, doc) == db' = With(c, nextId, doc) /\ nextId' = nextId + 1
Skip == UNCHANGED <<db, nextId>>

First == <<"roles", "assignees", "existing">>
Pending(done) == IF 1 \notin done THEN 1 ELSE IF 2 \notin done THEN 2 ELSE 3
Begin(done) == IF done = 1..3 THEN NoRun ELSE [pc |-> First[Pending(done)]]

Start ==
  /\ RunAt("idle") /\ ledger # 1..3
  /\ run' = Begin(ledger)
  /\ Skip /\ Calm /\ UNCHANGED ledger

(* The migration is recorded after it has run. *)
Record ==
  /\ RunAt("record")
  /\ ledger' = ledger \cup {Pending(ledger)}
  /\ run' = Begin(ledger')
  /\ Skip /\ Calm

(* An error ends the process, and so does a crash. *)
Abort == run' = NoRun /\ Skip

Crash ==
  /\ ~RunAt("idle") /\ crashes < MaxCrashes
  /\ crashes' = crashes + 1
  /\ cut' = IF RunAt("owner") THEN cut \cup {run.at} ELSE cut
  /\ run' = NoRun
  /\ Skip /\ UNCHANGED <<ledger, calls, before, removed, edited>>

-----------------------------------------------------------------------------
(* 001: pre-workspace data moves into personal workspaces. *)
Roles ==
  /\ RunAt("roles")
  /\ Write(Update("users", {u \in In("users") : Doc("users", u).role \notin {"ADMIN", "USER"}},
                  LAMBDA u : [u EXCEPT !.role = "USER"]))
  /\ Loop("users", In("users"))

(* personalWorkspace: the workspace, then the membership, each an upsert. *)
UserWorkspace ==
  /\ RunAt("users")
  /\ \/ run.todo = {} /\ Loop("projects", Lacking(db, "projects", "workspace")) /\ Skip
     \/ \E u \in run.todo :
          /\ IF PersonalOf(db, u) # {} THEN Skip
             ELSE Insert("workspaces", [owner |-> u, type |-> "PERSONAL"])
          /\ run' = [pc |-> "membership", todo |-> run.todo \ {u}, at |-> u]

OwnerRow(w, u) == [workspace |-> w, user |-> u, role |-> "OWNER", status |-> "ACTIVE"]

UserMembership ==
  /\ RunAt("membership")
  /\ LET w == Personal(run.at) IN
       IF Matching("workspacemembers", "workspace", w, "user", run.at) # {} THEN Skip
       ELSE Insert("workspacemembers", OwnerRow(w, run.at))
  /\ Loop("users", run.todo)

Moved(p) == [workspace |-> Personal(p.owner), name |-> "other", createdBy |-> p.owner,
             deletedAt |-> IF p.isDeleted THEN "then" ELSE None]

MoveProject ==
  /\ RunAt("projects")
  /\ \/ run.todo = {} /\ Loop("tasks", Lacking(db, "tasks", "workspace")) /\ Skip
     \/ \E p \in run.todo :
          IF Doc("projects", p).owner = None THEN Loop("projects", run.todo \ {p}) /\ Skip
          ELSE /\ Write(Update("projects", {p}, Moved))
               /\ run' = [pc |-> "owner", todo |-> run.todo \ {p}, at |-> p]

Joined(p, u) == Matching("projectmembers", "project", p, "user", u) # {}
Join(p, w, u) ==
  IF Joined(p, u) THEN Skip
  ELSE Insert("projectmembers", [project |-> p, workspace |-> w, user |-> u])

ProjectOwner ==
  /\ RunAt("owner")
  /\ LET p == Doc("projects", run.at) IN Join(run.at, p.workspace, p.createdBy)
  /\ Loop("projects", run.todo)

Inbox(u) ==
  {p \in Having(db, "projects", "workspace") :
     /\ Doc("projects", p).workspace = Personal(u) /\ Doc("projects", p).createdBy = u
     /\ Doc("projects", p).name = "Inbox"}

(* A task stays in its project if that has moved, or goes to its creator's  *)
(* Inbox.                                                                  *)
PickTask ==
  /\ RunAt("tasks")
  /\ \/ run.todo = {} /\ RunTo("comments") /\ Skip
     \/ \E t \in run.todo :
          LET task == Doc("tasks", t)
              u == task.createdBy
              step(pc, p) == run' = [pc |-> pc, todo |-> run.todo \ {t}, at |-> t,
                                     project |-> p, left |-> task.labels, labels |-> {}]
          IN IF task.project \in Having(db, "projects", "workspace")
             THEN step("labels", task.project) /\ Skip
             ELSE IF Inbox(u) # {} THEN step("inbox", CHOOSE p \in Inbox(u) : TRUE) /\ Skip
             ELSE /\ step("inbox", nextId)
                  /\ Insert("projects", [workspace |-> Personal(u), name |-> "Inbox",
                                         createdBy |-> u, deletedAt |-> None])

JoinInbox ==
  /\ RunAt("inbox")
  /\ LET p == Doc("projects", run.project) IN Join(run.project, p.workspace, p.createdBy)
  /\ run' = [run EXCEPT !.pc = "labels"]

(* The slip of looking for the very spelling. *)
MutSameLabel(w, name) == {l \in In("labels") : Doc("labels", l).workspace = w /\ Doc("labels", l).name = name}

(* The collation of the upsert ignores case. *)
SameLabel(w, name) ==
  {l \in In("labels") : Doc("labels", l).workspace = w /\ Lower(Doc("labels", l).name) = Lower(name)}

UpsertLabel ==
  /\ RunAt("labels")
  /\ \E name \in run.left :
       LET w == Doc("projects", run.project).workspace
           same == SameLabel(w, name)
           id == IF same = {} THEN nextId ELSE CHOOSE l \in same : TRUE
       IN /\ IF same # {} THEN Skip
             ELSE Insert("labels", [workspace |-> w, name |-> name,
                                    createdBy |-> Doc("tasks", run.at).createdBy])
          /\ run' = [run EXCEPT !.left = @ \ {name}, !.labels = @ \cup {id}]

(* "Only self-assignments survive." *)
MoveTask ==
  /\ RunAt("labels") /\ run.left = {}
  /\ Write(Update("tasks", {run.at}, LAMBDA t :
       Over([workspace |-> Doc("projects", run.project).workspace, project |-> run.project,
             parentTask |-> None, labels |-> run.labels,
             assignee |-> IF t.assignedTo = t.createdBy THEN t.assignedTo ELSE None,
             deletedAt |-> IF t.isDeleted THEN "then" ELSE None],
            Unset(t, {"assignedTo", "isDeleted"}))))
  /\ Loop("tasks", run.todo)

DeleteComments ==
  /\ RunAt("comments")
  /\ Write(Without("comments", Where(db, "comments", "isDeleted", TRUE)))
  /\ Loop("scope", Lacking(db', "comments", "workspace"))

ScopeComment ==
  /\ RunAt("scope")
  /\ \/ run.todo = {} /\ RunTo("notifications") /\ Skip
     \/ \E c \in run.todo :
          LET t == Doc("comments", c).task IN
            /\ Write(IF t \in Having(db, "tasks", "workspace")
                     THEN Update("comments", {c}, LAMBDA d :
                            Over([workspace |-> Doc("tasks", t).workspace,
                                  project |-> Doc("tasks", t).project], Unset(d, {"isDeleted"})))
                     ELSE Without("comments", {c}))
            /\ Loop("scope", run.todo \ {c})

(* "Incompatible shapes and never reachable." *)
DeleteUnreachable ==
  \/ /\ RunAt("notifications")
     /\ Write(Without("notifications", Lacking(db, "notifications", "recipient")))
     /\ RunTo("attachments")
  \/ /\ RunAt("attachments")
     /\ Write(Without("attachments", Lacking(db, "attachments", "storageKey")))
     /\ RunTo("record")

WorkspaceModel ==
  \/ Roles \/ UserWorkspace \/ UserMembership \/ MoveProject \/ ProjectOwner
  \/ PickTask \/ JoinInbox \/ UpsertLabel \/ MoveTask
  \/ DeleteComments \/ ScopeComment \/ DeleteUnreachable

-----------------------------------------------------------------------------
(* 002: several assignees, lower-case user names. *)
Assignees(a) == IF a = None THEN {} ELSE {a}

(* The slip of converting every task that has the old field. *)
MutUnconverted == Having(db, "tasks", "assignee")

Unconverted == Having(db, "tasks", "assignee") \cap Lacking(db, "tasks", "assignees")

ConvertAssignees ==
  \/ /\ RunAt("assignees")
     /\ Write(Update("tasks", Unconverted, LAMBDA t :
          Over([assignees |-> Assignees(t.assignee)], Unset(t, {"assignee", "assignees"}))))
     /\ RunTo("assignee")
  \/ /\ RunAt("assignee")
     /\ Write(Update("tasks", In("tasks"), LAMBDA t : Unset(t, {"assignee"})))
     /\ RunTo("unassigned")
  \/ /\ RunAt("unassigned")
     /\ Write(Update("tasks", Lacking(db, "tasks", "assignees"),
                     LAMBDA t : Over([assignees |-> {}], t)))
     /\ RunTo("names")

Name(u) == Doc("users", u).userName

ReadNames ==
  /\ RunAt("names")
  /\ LET mixed == {u \in In("users") : Name(u).caps} IN
       run' = [pc |-> "rename", todo |-> mixed, taken |-> {Name(u) : u \in In("users") \ mixed}]
  /\ Skip

(* The name, or the first suffix from 2 on that nobody has. *)
Candidate(name, taken) ==
  LET lower == Lower(name)
      suffixed(n) == [lower EXCEPT !.n = n]
  IN IF lower \notin taken THEN lower
     ELSE suffixed(CHOOSE n \in 2..(Cardinality(taken) + 2) :
                     /\ suffixed(n) \notin taken
                     /\ \A k \in 2..(n - 1) : suffixed(k) \in taken)

(* Oldest accounts first.  The index refuses a name taken meanwhile. *)
RenameUser ==
  /\ RunAt("rename")
  /\ \/ run.todo = {} /\ RunTo("record") /\ Skip
     \/ \E u \in run.todo :
          /\ \A v \in run.todo : u <= v
          /\ LET name == Candidate(Name(u), run.taken) IN
               IF \E v \in In("users") \ {u} : Name(v) = name THEN Abort
               ELSE /\ Write(Update("users", {u}, LAMBDA d : [d EXCEPT !.userName = name]))
                    /\ run' = [run EXCEPT !.todo = @ \ {u}, !.taken = @ \cup {name}]

AssigneesAndNames == ConvertAssignees \/ ReadNames \/ RenameUser

-----------------------------------------------------------------------------
(* 003: canonical names. *)
Renames == <<<<"workspacemembers", "workspace_members">>,
             <<"workspaceinvitations", "workspace_invitations">>,
             <<"projectmembers", "project_members">>>>
From == Renames[run.i][1]
To == Renames[run.i][2]

Existing ==
  /\ RunAt("existing")
  /\ run' = [pc |-> "move", i |-> 1, existing |-> DOMAIN db]
  /\ Skip

NextMove == run' = [pc |-> "move", i |-> run.i + 1, existing |-> run.existing]

(* rename fails when the new collection has come into being meanwhile. *)
MoveCollection ==
  /\ RunAt("move")
  /\ IF run.i > 3 THEN RunTo("deletedAt") /\ Skip
     ELSE IF From \notin run.existing THEN NextMove /\ Skip
     ELSE IF To \in run.existing
          THEN run' = [pc |-> "merge", i |-> run.i, existing |-> run.existing, todo |-> In(From)]
               /\ Skip
     ELSE IF To \in DOMAIN db THEN Abort
     ELSE NextMove /\ Write(Over([c \in {To} |-> db[From]], Unset(db, {From})))

Key(c, doc) == IF c = "workspace_members" THEN <<doc.workspace, doc.user>>
               ELSE IF c = "project_members" THEN <<doc.project, doc.user>>
               ELSE <<doc.workspace, doc.email>>

(* The slip of refusing whatever is already there. *)
MutSame(c, id, doc) == FALSE

Same(c, id, doc) == Doc(c, id) = doc

(* Documents differ in both, or the unique index refuses the copy. *)
Clashes(c, id, doc) ==
  IF id \in In(c) THEN ~Same(c, id, doc)
  ELSE \E e \in In(c) : Key(c, Doc(c, e)) = Key(c, doc)

Merge ==
  /\ RunAt("merge")
  /\ \E id \in run.todo :
       LET doc == Doc(From, id) IN
         IF Clashes(To, id, doc) THEN Abort
         ELSE /\ IF id \in In(To) THEN Skip ELSE Write(With(To, id, doc))
              /\ run' = [run EXCEPT !.todo = @ \ {id}]

(* The slip of dropping the collection in spite of what is left to copy. *)
MutMerged == TRUE

Merged == run.todo = {}

DropCollection ==
  /\ RunAt("merge") /\ Merged
  /\ NextMove /\ Write(Unset(db, {From}))

(* The slip of passing over the flags that are false. *)
MutFlagged == Where(db, "users", "isDeleted", TRUE)

Flagged == Having(db, "users", "isDeleted")

UserFields ==
  \/ /\ RunAt("deletedAt")
     /\ Write(Update("users", Flagged, LAMBDA u :
          Over([deletedAt |-> IF u.isDeleted THEN "then" ELSE None], Unset(u, {"isDeleted"}))))
     /\ RunTo("open")
  \/ /\ RunAt("open")
     /\ Write(Update("users", Lacking(db, "users", "deletedAt"),
                     LAMBDA u : Over([deletedAt |-> None], u)))
     /\ RunTo("record")

CanonicalNames == Existing \/ MoveCollection \/ Merge \/ DropCollection \/ UserFields

MigrationStep == WorkspaceModel \/ AssigneesAndNames \/ CanonicalNames

-----------------------------------------------------------------------------
(* The application of the new release.  It knows the new names alone, and   *)
(* its indexes make their collections as it boots.                         *)
NewCollections == {r[2] : r \in {Renames[i] : i \in 1..3}}
Booted == NewCollections \subseteq DOMAIN db

Boot ==
  /\ ~Booted
  /\ Write([c \in NewCollections \cup DOMAIN db |-> Docs(db, c)])
  /\ UNCHANGED <<calls, history>>

Answer == Booted /\ calls < MaxApp /\ calls' = calls + 1

(* ensurePersonalWorkspace, when the account lists its workspaces. *)
AppPersonal(u) ==
  /\ Answer
  /\ Field(Doc("users", u), "deletedAt") = None /\ PersonalOf(db, u) = {}
  /\ db' = [With("workspaces", nextId, [owner |-> u, type |-> "PERSONAL"]) EXCEPT
             !["workspace_members"] = Added("workspace_members", nextId + 1, OwnerRow(nextId, u))]
  /\ nextId' = nextId + 2
  /\ UNCHANGED history

AppRegister ==
  /\ Answer
  /\ \A u \in In("users") : Name(u) # NewName
  /\ Insert("users", [role |-> "USER", userName |-> NewName, deletedAt |-> None])
  /\ UNCHANGED history

AppRemoveMember(m) ==
  /\ Answer
  /\ Doc("workspace_members", m).role # "OWNER"
  /\ Write(Without("workspace_members", {m}))
  /\ removed' = removed \cup {m}
  /\ UNCHANGED <<before, edited, cut>>

AppAssign(t, u) ==
  /\ Answer
  /\ Has(Doc("tasks", t), "workspace") /\ ActiveMember(db, Doc("tasks", t).workspace, u)
  /\ Write(Update("tasks", {t}, LAMBDA d : Over([assignees |-> {u}], d)))
  /\ edited' = [edited EXCEPT ![t] = {u}]
  /\ UNCHANGED <<before, removed, cut>>

(* closeAccount. *)
AppClose(u) ==
  /\ Answer
  /\ Field(Doc("users", u), "deletedAt") = None
  /\ Write(Update("users", {u}, LAMBDA d :
       Over([deletedAt |-> "now", userName |-> [base |-> u, caps |-> FALSE, n |-> 1]], d)))
  /\ UNCHANGED history

AppStep ==
  \/ Boot
  \/ \E u \in In("users") : AppPersonal(u) \/ AppClose(u)
  \/ AppRegister
  \/ \E m \in In("workspace_members") : AppRemoveMember(m)
  \/ \E t \in In("tasks"), u \in In("users") : AppAssign(t, u)

-----------------------------------------------------------------------------
MigrationsInit ==
  /\ \E s \in Legacy : db = s.db /\ ledger = s.ledger
  /\ run = NoRun
  /\ nextId = FirstId /\ crashes = 0 /\ calls = 0
  /\ before = db
  /\ removed = {} /\ cut = {}
  /\ edited = [t \in Ids(db, "tasks") |-> None]

MigrationsNext ==
  \/ Start \/ Record \/ Crash
  \/ MigrationStep /\ Calm /\ UNCHANGED ledger
  \/ AppStep /\ UNCHANGED <<ledger, run, crashes>>

(* A deploy starts a run, and a run that does not die goes on. *)
Fairness == WF_migrationVars(Start) /\ WF_migrationVars(Record) /\ WF_migrationVars(MigrationStep /\ Calm /\ UNCHANGED ledger)

MigrationsSpec == MigrationsInit /\ [][MigrationsNext]_migrationVars /\ Fairness

-----------------------------------------------------------------------------
(* What must hold. *)

(* What a recorded migration is there to convert is nowhere in its old      *)
(* shape; what stays is the projects that have no owner to move to.        *)
RecordedIsConverted ==
  /\ 1 \in ledger => Unmoved(db) = {} /\ Lacking(db, "projects", "workspace") \subseteq Ownerless(before)
  /\ 2 \in ledger => Having(db, "tasks", "assignee") = {}
  /\ ledger = 1..3 => LegacyShapes(db) \subseteq Ownerless(before)

(* What is recorded is done, whenever runs died and whatever the           *)
(* application did meanwhile; and once every migration is recorded,        *)
(* db:check finds no error: whatever a run had done before it died is done *)
(* once, and what it had not done is done.                                 *)
RecordedIsIntact ==
  /\ RecordedIsConverted
  /\ ledger = 1..3 => Errors(db) = {}

(* "Never delete user data in a migration": projects, tasks, accounts and   *)
(* memberships are all there at any time, in the old collection or in the   *)
(* new one, unless the application removed them; whoever was on a project   *)
(* is; a project that has moved has its owner, unless a run died between    *)
(* the two; and what the application wrote to a task meanwhile stays.       *)
ProjectRow(d, p, u) ==
  \E c \in {"projectmembers", "project_members"} : \E m \in Ids(d, c) :
    d[c][m].project = p /\ d[c][m].user = u

NothingLost ==
  /\ \A c \in {"users", "projects", "tasks"} : Ids(before, c) \subseteq In(c)
  /\ \A i \in 1..3 :
       Ids(before, Renames[i][1]) \subseteq In(Renames[i][1]) \cup In(Renames[i][2]) \cup removed
  /\ \A m \in Ids(before, "projectmembers") :
       LET row == before["projectmembers"][m] IN ProjectRow(db, row.project, row.user)
  /\ \A p \in Lacking(before, "projects", "workspace") \cap Having(db, "projects", "workspace") :
       ProjectRow(db, p, Doc("projects", p).createdBy) \/ p \in cut \/ (RunAt("owner") /\ run.at = p)
  /\ \A t \in DOMAIN edited : edited[t] # None => Doc("tasks", t).assignees = edited[t]

Unresolved ==
  \E i \in 1..3 : \E id \in In(Renames[i][1]), e \in In(Renames[i][2]) :
    LET old == Doc(Renames[i][1], id)
        new == Doc(Renames[i][2], e)
    IN IF e = id THEN old # new ELSE Key(Renames[i][2], old) = Key(Renames[i][2], new)

(* Every deploy that is tried often enough ends with all migrations         *)
(* recorded, unless a document clashes with what the application wrote and  *)
(* somebody has to "resolve it manually".                                  *)
MigratesInTheEnd == <>(ledger = 1..3 \/ Unresolved)
=============================================================================
