-------------------------- MODULE MCMigrations ------------------------------
(***************************************************************************)
(* Two databases: one from before workspaces, with two accounts whose names *)
(* differ in case; and one that the previous release has used, under the   *)
(* old names of the collections.                                           *)
(***************************************************************************)
EXTENDS Migrations, TLC

CONSTANTS shiva, ram, sita

Named(caps) == [base |-> shiva, caps |-> caps, n |-> 1]
Called(name) == [base |-> name, caps |-> FALSE, n |-> 1]
MCNewName == [base |-> shiva, caps |-> FALSE, n |-> 2]

(* Users 1 and 2, project 3 of user 1, task 4 of user 2 in it and task 5 of *)
(* user 1 in no project, comments on both, on a task that is gone, and one *)
(* deleted.                                                                *)
Task(u, p, labels) == [createdBy |-> u, assignedTo |-> u, project |-> p, labels |-> labels,
                       isDeleted |-> FALSE]
Comment(t, deleted) == [task |-> t, author |-> 1, isDeleted |-> deleted]

BeforeWorkspaces ==
  [users |-> 1 :> [role |-> "MANAGER", userName |-> Named(TRUE), isDeleted |-> FALSE]
             @@ 2 :> [role |-> "USER", userName |-> Named(FALSE), isDeleted |-> TRUE],
   projects |-> 3 :> [owner |-> 1, isDeleted |-> FALSE]
                @@ 12 :> [owner |-> None, isDeleted |-> FALSE],
   tasks |-> 4 :> Task(2, 3, {}) @@ 5 :> Task(1, None, {Named(TRUE), Named(FALSE)}),
   comments |-> 6 :> Comment(4, FALSE) @@ 7 :> Comment(99, FALSE) @@ 8 :> Comment(5, TRUE),
   notifications |-> 9 :> [user |-> 1],
   attachments |-> 10 :> [task |-> 4, url |-> "url"]]

(* Users 1 and 2 in organization 3 with project 4 and its task 5. *)
OldRow(u, role) == [workspace |-> 3, user |-> u, role |-> role, status |-> "ACTIVE"]

BeforeRenames ==
  [users |-> 1 :> [role |-> "USER", userName |-> Called(ram), isDeleted |-> FALSE]
             @@ 2 :> [role |-> "USER", userName |-> Called(sita), isDeleted |-> FALSE],
   workspaces |-> 3 :> [owner |-> 1, type |-> "ORGANIZATION"],
   workspacemembers |-> 6 :> OldRow(1, "OWNER") @@ 7 :> OldRow(2, "MEMBER"),
   projects |-> 4 :> [owner |-> 1, workspace |-> 3, name |-> "other", createdBy |-> 1,
                      deletedAt |-> None],
   projectmembers |-> 8 :> [project |-> 4, workspace |-> 3, user |-> 1],
   tasks |-> 5 :> [createdBy |-> 1, workspace |-> 3, project |-> 4, parentTask |-> None,
                   labels |-> {}, assignee |-> 2, deletedAt |-> None]]

MCLegacy == {[db |-> BeforeWorkspaces, ledger |-> {}], [db |-> BeforeRenames, ledger |-> {1}]}
=============================================================================
