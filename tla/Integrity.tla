----------------------------- MODULE Integrity ------------------------------
(***************************************************************************)
(* The referential integrity checks of database/integrity/                 *)
(* integrity-checks.ts: what `db:check` expects of a database.  They only  *)
(* read.                                                                   *)
(*                                                                         *)
(* A database is a function from the names of the collections it has to    *)
(* their documents, by _id; a document is a record of the fields it has.   *)
(* Names are records, for their case: [base, caps, n] is a name in mixed   *)
(* case if caps, with the suffix _n unless n is 1.                         *)
(***************************************************************************)
EXTENDS Naturals, FiniteSets, Sequences

CONSTANT None

Empty == [x \in {} |-> None]
Docs(db, c) == IF c \in DOMAIN db THEN db[c] ELSE Empty
Ids(db, c) == DOMAIN Docs(db, c)
Has(doc, f) == f \in DOMAIN doc

(* A field that is missing reads as null. *)
Field(doc, f) == IF Has(doc, f) THEN doc[f] ELSE None

(* $toLower. *)
Lower(name) == IF name = None THEN None ELSE [name EXCEPT !.caps = FALSE]

-----------------------------------------------------------------------------
(* The kinds of checks; each is the set of the offending documents' ids.   *)

MissingRef(db, c, f, target) ==
  {d \in Ids(db, c) : Field(db[c][d], f) \notin Ids(db, target) \cup {None}}

MissingEach(db, c, f, target) ==
  {d \in Ids(db, c) : Has(db[c][d], f) /\ ~(db[c][d][f] \subseteq Ids(db, target))}

MissingEntity(db, type, target) ==
  {d \in MissingRef(db, "notifications", "entityId", target) :
     Field(db["notifications"][d], "entityType") = type}

(* Of documents whose parent exists, those that differ from it in a field. *)
ScopeMismatch(db, c, f, parent, fields) ==
  {d \in Ids(db, c) :
     /\ Field(db[c][d], f) \in Ids(db, parent)
     /\ \E s \in fields : Field(db[c][d], s) # Field(db[parent][db[c][d][f]], s)}

(* Documents that share their key with another one. *)
Duplicates(docs, ids, Key(_)) ==
  {d \in ids : \E e \in ids \ {d} : Key(docs[e]) = Key(docs[d])}

Having(db, c, f)    == {d \in Ids(db, c) : Has(db[c][d], f)}
Lacking(db, c, f)   == Ids(db, c) \ Having(db, c, f)
Where(db, c, f, v)  == {d \in Ids(db, c) : Field(db[c][d], f) = v}

-----------------------------------------------------------------------------
(* The checks that are queries of their own. *)

ActiveMember(db, w, u) ==
  \E m \in Ids(db, "workspace_members") :
    LET row == db["workspace_members"][m]
    IN row.workspace = w /\ row.user = u /\ row.status = "ACTIVE"

PersonalOf(db, u) ==
  {w \in Where(db, "workspaces", "type", "PERSONAL") : db["workspaces"][w].owner = u}

NoPersonalWorkspace(db) == {u \in Where(db, "users", "deletedAt", None) : PersonalOf(db, u) = {}}

OwnerRowWrong(db) ==
  {w \in Ids(db, "workspaces") :
     LET owners == {m \in Where(db, "workspace_members", "workspace", w) :
                      db["workspace_members"][m].role = "OWNER"}
     IN \/ Cardinality(owners) # 1
        \/ \E m \in owners : db["workspace_members"][m].user # db["workspaces"][w].owner}

PersonalHasOthers(db) ==
  {w \in Where(db, "workspaces", "type", "PERSONAL") :
     \E m \in Where(db, "workspace_members", "workspace", w) :
       db["workspace_members"][m].user # db["workspaces"][w].owner}

JoinedFromOutside(db) ==
  {p \in Ids(db, "project_members") :
     LET row == db["project_members"][p] IN ~ActiveMember(db, row.workspace, row.user)}

LabelElsewhere(db) ==
  {t \in Having(db, "tasks", "labels") :
     \E l \in db["tasks"][t].labels \cap Ids(db, "labels") :
       db["labels"][l].workspace # Field(db["tasks"][t], "workspace")}

NestedSubtask(db) ==
  {t \in Ids(db, "tasks") :
     LET parent == Field(db["tasks"][t], "parentTask")
     IN parent \in Ids(db, "tasks") /\ Field(db["tasks"][parent], "parentTask") # None}

AssignedOutside(db) ==
  {t \in Where(db, "tasks", "deletedAt", None) \cap Having(db, "tasks", "assignees") :
     \E u \in db["tasks"][t].assignees : ~ActiveMember(db, Field(db["tasks"][t], "workspace"), u)}

LiveInDeletedProject(db) ==
  {t \in Where(db, "tasks", "deletedAt", None) :
     LET p == Field(db["tasks"][t], "project")
     IN p \in Ids(db, "projects") /\ Field(db["projects"][p], "deletedAt") # None}

SelfLoop(db) ==
  {d \in Ids(db, "task_dependencies") :
     db["task_dependencies"][d].blockingTask = db["task_dependencies"][d].blockedTask}

-----------------------------------------------------------------------------
(* CHECKS, by severity. *)

Scope == {"workspace", "project"}

UserErrors(db) ==
  Duplicates(Docs(db, "users"), Ids(db, "users"), LAMBDA u : Lower(Field(u, "userName")))

WorkspaceErrors(db) ==
  UNION {MissingRef(db, "workspaces", "owner", "users"),
         Duplicates(Docs(db, "workspaces"), Where(db, "workspaces", "type", "PERSONAL"),
                    LAMBDA w : w.owner),
         OwnerRowWrong(db), PersonalHasOthers(db),
         MissingRef(db, "workspace_members", "workspace", "workspaces"),
         MissingRef(db, "workspace_members", "user", "users"),
         Duplicates(Docs(db, "workspace_members"), Ids(db, "workspace_members"),
                    LAMBDA m : <<m.workspace, m.user>>),
         MissingRef(db, "workspace_invitations", "workspace", "workspaces"),
         Duplicates(Docs(db, "workspace_invitations"),
                    Where(db, "workspace_invitations", "status", "PENDING"),
                    LAMBDA i : <<i.workspace, i.email>>)}

ProjectErrors(db) ==
  UNION {MissingRef(db, "projects", "workspace", "workspaces"),
         MissingRef(db, "project_members", "project", "projects"),
         MissingRef(db, "project_members", "workspace", "workspaces"),
         MissingRef(db, "project_members", "user", "users"),
         ScopeMismatch(db, "project_members", "project", "projects", {"workspace"}),
         Duplicates(Docs(db, "project_members"), Ids(db, "project_members"),
                    LAMBDA m : <<m.project, m.user>>)}

TaskErrors(db) ==
  UNION {MissingRef(db, "tasks", "project", "projects"),
         MissingRef(db, "tasks", "workspace", "workspaces"),
         MissingRef(db, "tasks", "parentTask", "tasks"),
         MissingEach(db, "tasks", "assignees", "users"),
         MissingEach(db, "tasks", "labels", "labels"),
         ScopeMismatch(db, "tasks", "project", "projects", {"workspace"}),
         ScopeMismatch(db, "tasks", "parentTask", "tasks", {"project"}),
         LabelElsewhere(db), NestedSubtask(db),
         MissingRef(db, "labels", "workspace", "workspaces"),
         Duplicates(Docs(db, "labels"), Ids(db, "labels"),
                    LAMBDA l : <<l.workspace, Lower(l.name)>>)}

DependencyErrors(db) ==
  UNION {UNION {MissingRef(db, "task_dependencies", f, "tasks")
                \cup ScopeMismatch(db, "task_dependencies", f, "tasks", {"project"})
                : f \in {"blockingTask", "blockedTask"}},
         MissingRef(db, "task_dependencies", "project", "projects"),
         SelfLoop(db),
         Duplicates(Docs(db, "task_dependencies"), Ids(db, "task_dependencies"),
                    LAMBDA e : <<e.blockingTask, e.blockedTask>>)}

(* What hangs on a task: comments and attachments. *)
ContentErrors(db) ==
  UNION {UNION {UNION {MissingRef(db, c, "task", "tasks"),
                       MissingRef(db, c, "workspace", "workspaces"),
                       MissingRef(db, c, "project", "projects"),
                       ScopeMismatch(db, c, "task", "tasks", Scope)}
                : c \in {"comments", "attachments"}},
         MissingRef(db, "comments", "parentComment", "comments"),
         ScopeMismatch(db, "comments", "parentComment", "comments", {"task"})}

NotificationErrors(db) ==
  UNION {MissingRef(db, "user_identities", "user", "users"),
         MissingRef(db, "notifications", "recipient", "users"),
         MissingRef(db, "notifications", "workspace", "workspaces"),
         MissingEntity(db, "task", "tasks"),
         MissingEntity(db, "project", "projects"),
         MissingEntity(db, "invitation", "workspace_invitations"),
         ScopeMismatch(db, "activity_logs", "project", "projects", {"workspace"})}

(* The errors, by the documents they are reported for. *)
Errors(db) ==
  UNION {UserErrors(db), WorkspaceErrors(db), ProjectErrors(db), TaskErrors(db),
         DependencyErrors(db), ContentErrors(db), NotificationErrors(db)}

(* Warnings of references to users who created something. *)
MissingAuthors(db) ==
  UNION {MissingRef(db, "workspace_invitations", "invitedBy", "users"),
         MissingRef(db, "projects", "createdBy", "users"),
         MissingRef(db, "tasks", "createdBy", "users"),
         MissingRef(db, "labels", "createdBy", "users"),
         MissingRef(db, "comments", "author", "users"),
         MissingRef(db, "attachments", "uploadedBy", "users"),
         MissingRef(db, "notifications", "actor", "users")}

(* Warnings of documents in a shape from before a migration. *)
LegacyShapes(db) ==
  UNION {Having(db, "users", "isDeleted"), Lacking(db, "projects", "workspace"),
         Having(db, "tasks", "assignee"), Lacking(db, "tasks", "workspace"),
         Having(db, "comments", "isDeleted"), Lacking(db, "attachments", "storageKey"),
         Lacking(db, "notifications", "recipient")}

(* Reported for information: what is kept by design. *)
Information(db) ==
  LiveInDeletedProject(db)
  \cup UNION {MissingRef(db, "activity_logs", r[1], r[2]) :
               r \in {<<"workspace", "workspaces">>, <<"project", "projects">>,
                      <<"task", "tasks">>, <<"actor", "users">>}}

Warnings(db) ==
  UNION {NoPersonalWorkspace(db), JoinedFromOutside(db), AssignedOutside(db),
         MissingAuthors(db), LegacyShapes(db)}
=============================================================================
