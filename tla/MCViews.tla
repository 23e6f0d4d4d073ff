------------------------------ MODULE MCViews -------------------------------
(***************************************************************************)
(* Instances of Views for TLC.  ann owns both workspaces; bob is the one   *)
(* who looks.  p1 is in w1 and p2 in w2; p3 is still to be created.  The   *)
(* day has two ticks.  The first plans are about access: two writes cross  *)
(* a view; the last one is about figures, in three timezones.              *)
(***************************************************************************)
EXTENDS Views

CONSTANTS ann, bob, w1, w2, p1, p2, p3, t1, t2, t3, t4

Owner == [role |-> "OWNER", status |-> "ACTIVE"]
As(role, status) == [role |-> role, status |-> status]
Ordinary == As("MEMBER", "ACTIVE")

MemberOfBoth(inW1, inW2) ==
  [w \in Workspaces |-> [u \in Users |->
     IF u = ann THEN Owner ELSE IF w = w1 THEN inW1 ELSE inW2]]

MCProject == [p \in Projects |->
  IF p = p3 THEN NoProject ELSE [live |-> TRUE, workspace |-> IF p = p1 THEN w1 ELSE w2]]
RowOf(p, w, u) == [project |-> p, workspace |-> w, user |-> u]

T(p, parent, status, due, completed, who) ==
  [live |-> TRUE, workspace |-> MCProject[p].workspace, project |-> p, parent |-> parent,
   status |-> status, priority |-> IF parent = None THEN "HIGH" ELSE "LOW", due |-> due,
   completed |-> completed, assignees |-> who]

(* Today is day 20, a Wednesday: 40 and 41 in UTC. *)
MCNow == 41
MCTasks(due, completed) == [t \in Tasks |->
  CASE t = t1 -> T(p1, None, "TODO", due, NoDate, {bob})
    [] t = t2 -> T(p1, None, "DONE", NoDate, completed, {bob})
    [] t = t3 -> T(p1, t1, "IN_PROGRESS", NoDate, NoDate, {ann, bob})
    [] t = t4 -> T(p2, None, "BLOCKED", 39, NoDate, {bob})]

Writes ==
  [op : {"removeProject"}, user : {ann}, project : {p1}, workspace : {w1}]
  \cup [op : {"createProject"}, user : {ann}, project : {p3}, workspace : {w1}]
  \cup [op : {"add", "drop"}, user : {ann}, project : {p1}, target : {bob}]
  \cup [op : {"drop"}, user : {bob}, project : {p1}, target : {bob}]
  \cup [op : {"member"}, workspace : {w1}, user : {bob},
        to : {NoMember, Ordinary, As("MANAGER", "ACTIVE"), As("MEMBER", "SUSPENDED")}]
  \cup [op : {"deleteWorkspace"}, workspace : {w1}]

AccessViews ==
  [op : {"list", "feed"}, user : {bob}, workspace : {w1}] \cup [op : {"search"}, user : {bob}]

AccessPlan(inW1, onP1) ==
  [live |-> {w1, w2}, member |-> MemberOfBoth(inW1, Ordinary), project |-> MCProject,
   rows |-> (IF onP1 THEN {RowOf(p1, w1, bob)} ELSE {}) \cup {RowOf(p2, w2, bob)},
   task |-> MCTasks(NoDate, 41),
   calls |-> [r \in Requests |-> IF r = 1 THEN AccessViews ELSE Writes]]

FigurePlan(due, completed) ==
  [live |-> {w1, w2}, member |-> MemberOfBoth(As("MANAGER", "ACTIVE"), Ordinary),
   project |-> MCProject, rows |-> {RowOf(p2, w2, bob)}, task |-> MCTasks(due, completed),
   calls |-> [r \in Requests |->
     IF r = 1
     THEN [op : {"dashboard"}, user : {bob}, workspace : {w1}, tz : {-1, 0, 1}]
          \cup [op : {"summary"}, user : {bob}, tz : {-1, 0, 1}]
          \cup [op : {"list"}, user : {bob}, workspace : {w1}]
     ELSE IF r = 2 THEN [op : {"setStatus"}, task : {t1, t2}, status : {"TODO", "DONE"}]
                        \cup [op : {"removeTask"}, task : {t1}] ELSE {}]]

MCPlans ==
  {AccessPlan(inW1, onP1) : inW1 \in {Ordinary, As("MANAGER", "ACTIVE"), As("VIEWER", "SUSPENDED")},
                            onP1 \in BOOLEAN}
  \cup {FigurePlan(d[1], d[2]) :
          d \in {<<NoDate, 27>>, <<39, 28>>, <<40, 36>>, <<41, 37>>, <<42, 35>>, <<54, 29>>, <<55, 41>>}}
=============================================================================
