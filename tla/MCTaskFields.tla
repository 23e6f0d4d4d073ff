---------------------------- MODULE MCTaskFields ----------------------------
(***************************************************************************)
(* Instances of TaskFields for TLC.                                        *)
(***************************************************************************)
EXTENDS TaskFields, TLC

CONSTANTS t1, u1, l1, d1, r1, r2

MCTasks == {t1}
MCUsers == {u1}
MCLabels == {l1}
MCDates == {d1}
MCRequests == {r1, r2}

Body(given, status, due, users, labels) ==
  [given |-> given,
   doc   |-> [NoDoc EXCEPT !.status = status, !.dueDate = due,
                           !.assignees = users, !.labels = labels]]

(* A click that changes one field, and a form that sends several back. *)
MCBodies ==
  {Body({"status"}, "DONE", NoDate, {}, {}),
   Body({"status", "dueDate"}, "IN_REVIEW", d1, {}, {}),
   Body({"dueDate", "assignees", "labels"}, "TODO", NoDate, {u1}, {l1})}

MCSymmetry == Permutations(MCRequests)
=============================================================================
