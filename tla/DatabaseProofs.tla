--------------------------- MODULE DatabaseProofs ---------------------------
(***************************************************************************)
(* Proofs about what the database holds.  First the graph of tasks, module *)
(* TaskGraph: types, the shape of the tree and of the edges, and that each *)
(* request by itself keeps the graph sound.  Then the migrations, module   *)
(* Migrations: that they lose nothing and leave nothing in its old shape.  *)
(* The two modules share no variable.                                      *)
(***************************************************************************)
EXTENDS TaskGraph, Migrations, TLAPS

-----------------------------------------------------------------------------
(* Facts about edges. *)

(* Dropping edges makes no cycle. *)
LEMMA FewerEdges ==
  ASSUME NEW E, NEW F, F \subseteq E, AcyclicEdges(E)
  PROVE  AcyclicEdges(F)
BY DEF AcyclicEdges

(* What is downstream is closed under the edges. *)
LEMMA DownstreamClosed ==
  ASSUME NEW E \in SUBSET (Tasks \X Tasks), NEW t \in Tasks,
         NEW u \in Tasks, NEW v \in Tasks, <<u, v>> \in E,
         u = t \/ u \in Downstream(E, t)
  PROVE  v \in Downstream(E, t)
<1> SUFFICES ASSUME NEW S \in SUBSET Tasks,
                    \A e \in E : e[1] = t \/ e[1] \in S => e[2] \in S
             PROVE  v \in S
    BY DEF Downstream
<1>1. u = t \/ u \in S
    BY DEF Downstream
<1>2. <<u, v>>[1] = u /\ <<u, v>>[2] = v
    OBVIOUS
<1> QED
    BY <1>1, <1>2

(* wouldCreateCycle is right: an edge it lets through closes no cycle,      *)
(* however many tasks and edges there are.                                  *)
THEOREM CheckedEdgeClosesNoCycle ==
  ASSUME NEW E \in SUBSET (Tasks \X Tasks), AcyclicEdges(E),
         NEW blocking \in Tasks, NEW t \in Tasks,
         blocking # t, ~WouldCreateCycle(E, blocking, t)
  PROVE  AcyclicEdges(E \cup {<<blocking, t>>})
<1> DEFINE F == E \cup {<<blocking, t>>}
           D == {t} \cup Downstream(E, t)
<1> SUFFICES ASSUME NEW S \in (SUBSET Tasks) \ {{}},
                    \A v \in S : \E u \in S : <<v, u>> \in F
             PROVE  FALSE
    BY DEF AcyclicEdges
<1>1. CASE t \notin S
  <2>1. \A v \in S : \E u \in S : <<v, u>> \in E
      BY <1>1
  <2> QED
      BY <2>1 DEF AcyclicEdges
<1>2. CASE t \in S
  <2>1. blocking \notin D
      BY DEF WouldCreateCycle
  <2>2. S \cap D \in (SUBSET Tasks) \ {{}}
      BY <1>2
  <2>3. ASSUME NEW v \in S \cap D PROVE \E u \in S \cap D : <<v, u>> \in E
    <3>1. PICK u \in S : <<v, u>> \in F
        OBVIOUS
    <3>2. <<v, u>> \in E
        BY <3>1, <2>1
    <3>3. u \in Downstream(E, t)
        BY <3>2, DownstreamClosed
    <3> QED
        BY <3>2, <3>3
  <2> QED
      BY <2>2, <2>3 DEF AcyclicEdges
<1> QED
    BY <1>1, <1>2

-----------------------------------------------------------------------------
(* The inductive invariant. *)

Known(t) == t \in Tasks /\ task[t].state # "ABSENT"

(* What each request has established about the tasks it read: something     *)
(* lasting, and, as long as nobody else wrote, all it checked.              *)
CreateSeen(s) ==
  At(s, "create:insert") =>
    /\ Known(req[s].on) /\ TopLevel(req[s].on)
    /\ req[s].clean => Live(req[s].on)

AddSeen(s) ==
  req[s].pc \in {"add:blocking", "add:cycle", "add:insert"} =>
    /\ Known(req[s].on) /\ req[s].other \in Tasks /\ req[s].other # req[s].on
    /\ req[s].clean => Live(req[s].on)

AddFound(s) ==
  req[s].pc \in {"add:cycle", "add:insert"} =>
    /\ Known(req[s].other) /\ task[req[s].other].project = task[req[s].on].project
    /\ req[s].clean => Live(req[s].other)

AddChecked(s) ==
  At(s, "add:insert") /\ req[s].clean => ~WouldCreateCycle(edges, req[s].other, req[s].on)

RemoveSeen(s) ==
  req[s].pc \in {"remove:begin", "remove:commit"} =>
    /\ Known(req[s].on)
    /\ req[s].clean => Live(req[s].on)

RemoveRead(s) ==
  At(s, "remove:commit") /\ req[s].clean =>
    /\ req[s].ids = Removed(req[s].on)
    /\ req[s].gone = {e \in edges : Touches(e, req[s].ids)}

Seen(s) ==
  CreateSeen(s) /\ AddSeen(s) /\ AddFound(s) /\ AddChecked(s) /\ RemoveSeen(s) /\ RemoveRead(s)

IInv == TypeOK /\ OneLevelOneProject /\ \A s \in Requests : Seen(s)

-----------------------------------------------------------------------------
(* Steps that write neither collection leave what the other requests know.  *)

LEMMA OthersKeep ==
  ASSUME IInv, NEW s \in Requests, UNCHANGED <<task, edges>>,
         NEW r, req' = [req EXCEPT ![s] = r], r \in Request, Seen(s)'
  PROVE  IInv'
<1>1. TypeOK'
    BY DEF IInv, TypeOK, TaskDoc
<1>2. OneLevelOneProject'
    BY DEF IInv, OneLevelOneProject
<1>3. ASSUME NEW x \in Requests, x # s PROVE Seen(x)'
  <2>1. req'[x] = req[x]
      BY <1>3 DEF IInv, TypeOK
  <2>2. Seen(x)
      BY DEF IInv
  <2> QED
      BY <2>1, <2>2
      DEF Seen, CreateSeen, AddSeen, AddFound, AddChecked, RemoveSeen, RemoveRead, Known, TopLevel,
          Live, At, WouldCreateCycle, Removed, Subtasks
<1> QED
    BY <1>1, <1>2, <1>3 DEF IInv

(* A write makes every other request unclean; what it knew for good stays,  *)
(* since tasks never go away nor change their place.                        *)
Stays ==
  \A t \in Tasks :
    task[t].state # "ABSENT" =>
      /\ task'[t].state # "ABSENT"
      /\ task'[t].project = task[t].project /\ task'[t].parent = task[t].parent

LEMMA OthersDisturbed ==
  ASSUME IInv, NEW S \in SUBSET Requests, req' = Disturbed(S), Stays
  PROVE  (req \in [Requests -> Request])' /\ \A x \in Requests : Seen(x)'
<1>1. req' \in [Requests -> Request]
  <2>1. ASSUME NEW x \in Requests
        PROVE  (IF x \in S THEN NoRequest ELSE [req[x] EXCEPT !.clean = Idle(x)]) \in Request
    <3>1. NoRequest \in Request
        BY DEF NoRequest, Request, RequestPc
    <3>2. req[x] \in Request /\ Idle(x) \in BOOLEAN
        BY DEF IInv, TypeOK, Idle
    <3> QED
        BY <3>1, <3>2 DEF Request
  <2> QED
      BY <2>1 DEF Disturbed
<1>2. ASSUME NEW x \in Requests PROVE Seen(x)'
  <2>1. CASE req'[x].pc = "idle"
      BY <2>1 DEF Seen, CreateSeen, AddSeen, AddFound, AddChecked, RemoveSeen, RemoveRead, At
  <2>2. CASE req'[x].pc # "idle"
    <3>1. /\ req'[x].pc = req[x].pc /\ req'[x].on = req[x].on /\ req'[x].other = req[x].other
          /\ req'[x].clean = FALSE
        BY <2>2 DEF IInv, TypeOK, Disturbed, Request, NoRequest, Idle
    <3>2. Seen(x)
        BY DEF IInv
    <3> QED
        BY <3>1, <3>2
        DEF Stays, Seen, CreateSeen, AddSeen, AddFound, AddChecked, RemoveSeen, RemoveRead,
            Known, TopLevel, At
  <2> QED
      BY <2>1, <2>2
<1> QED
    BY <1>1, <1>2

-----------------------------------------------------------------------------
(* Reading steps. *)

USE DEF NoRequest

LEMMA CreateUnderStep ==
  ASSUME IInv, NEW s \in Requests, NEW t \in Tasks, NEW p \in Projects, CreateUnder(s, t, p)
  PROVE  IInv'
<1> DEFINE r == [NoRequest EXCEPT !.pc = "create:insert", !.on = t]
<1>1. r \in Request
    BY DEF Request, RequestPc
<1>2. req'[s] = r /\ r.pc = "create:insert" /\ r.on = t
    BY DEF CreateUnder, IInv, TypeOK
<1> HIDE DEF r
<1>3. Seen(s)'
    BY <1>2 DEF CreateUnder, FoundIn, TopLevel, Live, Known, Seen, CreateSeen, AddSeen, AddFound,
                AddChecked, RemoveSeen, RemoveRead, At
<1> QED
    BY <1>1, <1>3, OthersKeep DEF CreateUnder, r

LEMMA AddAuthorizeStep ==
  ASSUME IInv, NEW s \in Requests, NEW t \in Tasks, NEW blocking \in Tasks,
         AddAuthorize(s, t, blocking)
  PROVE  IInv'
<1> DEFINE r == [NoRequest EXCEPT !.pc = "add:blocking", !.on = t, !.other = blocking]
<1>1. r \in Request
    BY DEF Request, RequestPc
<1>2. req'[s] = r /\ r.pc = "add:blocking" /\ r.on = t /\ r.other = blocking
    BY DEF AddAuthorize, IInv, TypeOK
<1> HIDE DEF r
<1>3. Seen(s)'
    BY <1>2 DEF AddAuthorize, Live, Known, Seen, CreateSeen, AddSeen, AddFound,
                AddChecked, RemoveSeen, RemoveRead, At
<1> QED
    BY <1>1, <1>3, OthersKeep DEF AddAuthorize, r

LEMMA RemoveAuthorizeStep ==
  ASSUME IInv, NEW s \in Requests, NEW t \in Tasks, RemoveAuthorize(s, t)
  PROVE  IInv'
<1> DEFINE r == [NoRequest EXCEPT !.pc = "remove:begin", !.on = t]
<1>1. r \in Request
    BY DEF Request, RequestPc
<1>2. req'[s] = r /\ r.pc = "remove:begin" /\ r.on = t
    BY DEF RemoveAuthorize, IInv, TypeOK
<1> HIDE DEF r
<1>3. Seen(s)'
    BY <1>2 DEF RemoveAuthorize, Live, Known, Seen, CreateSeen, AddSeen, AddFound,
                AddChecked, RemoveSeen, RemoveRead, At
<1> QED
    BY <1>1, <1>3, OthersKeep DEF RemoveAuthorize, r

(* A request that ends without a write. *)
LEMMA DoneStep ==
  ASSUME IInv, NEW s \in Requests, Done(s), UNCHANGED <<task, edges>>
  PROVE  IInv'
<1>1. NoRequest \in Request
    BY DEF Request, RequestPc
<1>2. req'[s] = NoRequest
    BY DEF Done, IInv, TypeOK
<1>3. Seen(s)'
    BY <1>2 DEF Seen, CreateSeen, AddSeen, AddFound, AddChecked, RemoveSeen, RemoveRead, At
<1> QED
    BY <1>1, <1>3, OthersKeep DEF Done

LEMMA AddBlockingStep ==
  ASSUME IInv, NEW s \in Requests, AddBlocking(s)
  PROVE  IInv'
<1>1. CASE FoundIn(req[s].other, task[req[s].on].project)
  <2> DEFINE r == [req[s] EXCEPT !.pc = "add:cycle"]
  <2>1. r \in Request /\ req' = [req EXCEPT ![s] = r] /\ req'[s] = r
      BY <1>1 DEF AddBlocking, Goto, IInv, TypeOK, Request, RequestPc
  <2>2. Seen(s)
      BY DEF IInv
  <2>3. Seen(s)'
      BY <1>1, <2>1, <2>2
      DEF AddBlocking, FoundIn, Live, Known, Seen, CreateSeen, AddSeen, AddFound,
          AddChecked, RemoveSeen, RemoveRead, At, IInv, TypeOK, Request
  <2> QED
      BY <2>1, <2>3, OthersKeep DEF AddBlocking
<1>2. CASE ~FoundIn(req[s].other, task[req[s].on].project)
    BY <1>2, DoneStep DEF AddBlocking
<1> QED
    BY <1>1, <1>2

LEMMA AddCycleStep ==
  ASSUME IInv, NEW s \in Requests, AddCycle(s)
  PROVE  IInv'
<1>1. CASE ~WouldCreateCycle(edges, req[s].other, req[s].on)
  <2> DEFINE r == [req[s] EXCEPT !.pc = "add:insert"]
  <2>1. r \in Request /\ req' = [req EXCEPT ![s] = r] /\ req'[s] = r
      BY <1>1 DEF AddCycle, Goto, IInv, TypeOK, Request, RequestPc
  <2>2. Seen(s)
      BY DEF IInv
  <2>3. /\ req'[s].pc = "add:insert" /\ req'[s].on = req[s].on /\ req'[s].other = req[s].other
        /\ req'[s].clean = req[s].clean
      BY <2>1 DEF IInv, TypeOK, Request
  <2>4. ~WouldCreateCycle(edges, req[s].other, req[s].on)'
      BY <1>1, <2>3 DEF AddCycle, WouldCreateCycle, Downstream
  <2>5. Seen(s)'
      BY <2>2, <2>3, <2>4
      DEF AddCycle, Live, Known, Seen, CreateSeen, AddSeen, AddFound,
          AddChecked, RemoveSeen, RemoveRead, At
  <2> QED
      BY <2>1, <2>5, OthersKeep DEF AddCycle
<1>2. CASE WouldCreateCycle(edges, req[s].other, req[s].on)
    BY <1>2, DoneStep DEF AddCycle
<1> QED
    BY <1>1, <1>2

-----------------------------------------------------------------------------
(* Writing steps. *)

(* A new task t, which nobody can have referred to. *)
LEMMA NewTask ==
  ASSUME IInv, NEW t \in Tasks, task[t].state = "ABSENT",
         NEW p \in Projects \cup {NoProject}, NEW parent \in Tasks \cup {NoTask},
         parent # NoTask => /\ Known(parent) /\ TopLevel(parent)
                            /\ task[parent].project = p,
         task' = [task EXCEPT ![t] = [state |-> "LIVE", project |-> p, parent |-> parent]],
         UNCHANGED edges, NEW S \in SUBSET Requests, req' = Disturbed(S)
  PROVE  IInv' /\ task'[t].parent = parent
               /\ \A u \in Tasks : u # t => task'[u] = task[u]
<1>1. /\ task'[t] = [state |-> "LIVE", project |-> p, parent |-> parent]
      /\ \A u \in Tasks : u # t => task'[u] = task[u]
      /\ task' \in [Tasks -> TaskDoc]
    BY DEF IInv, TypeOK, TaskDoc
<1>2. Stays
    BY <1>1 DEF Stays
<1>3. (req \in [Requests -> Request])' /\ \A x \in Requests : Seen(x)'
    BY <1>2, OthersDisturbed
<1>4. \A u \in Tasks : task[u].parent # NoTask => task[u].parent \in Tasks /\ task[u].parent # t
    BY DEF IInv, TypeOK, TaskDoc
<1>5. \A e \in edges : e[1] \in Tasks /\ e[2] \in Tasks /\ e[1] # t /\ e[2] # t
    BY DEF IInv, TypeOK, Touches
<1>6. TypeOK'
  <2>1. ASSUME NEW u \in Tasks, task'[u].state = "ABSENT"
        PROVE  task'[u] = NoDoc /\ ~\E e \in edges' : Touches(e, {u})
      BY <1>1, <2>1 DEF IInv, TypeOK
  <2>2. ASSUME NEW u \in Tasks, task'[u].parent # NoTask
        PROVE  task'[task'[u].parent].state # "ABSENT"
    <3>1. CASE u = t
        BY <1>1, <2>2, <3>1 DEF Known
    <3>2. CASE u # t
        BY <1>1, <1>4, <2>2, <3>2 DEF IInv, TypeOK
    <3> QED
        BY <3>1, <3>2
  <2> QED
      BY <1>1, <1>3, <2>1, <2>2 DEF IInv, TypeOK
<1>7. OneLevelOneProject'
  <2>1. ASSUME NEW u \in Tasks, task'[u].parent # NoTask
        PROVE  /\ task'[task'[u].parent].parent = NoTask
               /\ task'[task'[u].parent].project = task'[u].project
    <3>1. CASE u = t
        BY <1>1, <2>1, <3>1 DEF Known, TopLevel
    <3>2. CASE u # t
        BY <1>1, <1>4, <2>1, <3>2 DEF IInv, OneLevelOneProject
    <3> QED
        BY <3>1, <3>2
  <2>2. ASSUME NEW e \in edges' PROVE e[1] # e[2] /\ task'[e[1]].project = task'[e[2]].project
      BY <1>1, <1>5, <2>2 DEF IInv, OneLevelOneProject
  <2> QED
      BY <2>1, <2>2 DEF OneLevelOneProject
<1> QED
    BY <1>1, <1>3, <1>6, <1>7 DEF IInv

LEMMA CreateStep ==
  ASSUME IInv, NEW t \in Tasks, NEW p \in Projects, Create(t, p)
  PROVE  IInv' /\ task'[t].parent = NoTask
               /\ \A u \in Tasks : u # t => task'[u] = task[u]
BY NewTask DEF Create

LEMMA CreateInsertStep ==
  ASSUME IInv, NEW s \in Requests, NEW t \in Tasks, CreateInsert(s, t)
  PROVE  IInv' /\ Known(req[s].on) /\ task'[t].parent = req[s].on
               /\ (req[s].clean => Live(req[s].on))
               /\ \A u \in Tasks : u # t => task'[u] = task[u]
<1>1. Known(req[s].on) /\ TopLevel(req[s].on) /\ (req[s].clean => Live(req[s].on))
    BY DEF IInv, Seen, CreateSeen, CreateInsert
<1>2. PICK parent \in Tasks : parent = req[s].on
    BY <1>1 DEF Known
<1>3. PICK p \in Projects \cup {NoProject} : p = task[parent].project
    BY DEF IInv, TypeOK, TaskDoc
<1>4. /\ task[t].state = "ABSENT" /\ UNCHANGED edges /\ req' = Disturbed({s})
      /\ task' = [task EXCEPT ![t] = [state |-> "LIVE", project |-> p, parent |-> parent]]
    BY <1>2, <1>3 DEF CreateInsert
<1>5. IInv' /\ task'[t].parent = parent /\ \A u \in Tasks : u # t => task'[u] = task[u]
  <2>1. {s} \in SUBSET Requests /\ parent \in Tasks \cup {NoTask}
      OBVIOUS
  <2>2. Known(parent) /\ TopLevel(parent) /\ task[parent].project = p
      BY <1>1, <1>2, <1>3
  <2> HIDE DEF IInv
  <2> QED
      BY <1>4, <2>1, <2>2, NewTask
<1> QED
    BY <1>1, <1>2, <1>5

(* A write of edges alone, none of them new but between two known tasks of  *)
(* one project.                                                             *)
LEMMA EdgesWritten ==
  ASSUME IInv, NEW S \in SUBSET Requests, req' = Disturbed(S), UNCHANGED task,
         \A e \in edges' \ edges :
           \E u, v \in Tasks :
             /\ e = <<u, v>> /\ u # v /\ Known(u) /\ Known(v)
             /\ task[u].project = task[v].project
  PROVE  IInv'
<1>1. (req \in [Requests -> Request])' /\ \A x \in Requests : Seen(x)'
    BY OthersDisturbed DEF Stays
<1>2. ASSUME NEW e \in edges'
      PROVE  /\ e \in Tasks \X Tasks /\ e[1] # e[2] /\ Known(e[1]) /\ Known(e[2])
             /\ task[e[1]].project = task[e[2]].project
  <2>1. CASE e \in edges
      BY <2>1 DEF IInv, TypeOK, OneLevelOneProject, Touches, Known
  <2>2. CASE e \notin edges
      BY <1>2, <2>2 DEF Known
  <2> QED
      BY <2>1, <2>2
<1>3. TypeOK'
    BY <1>1, <1>2 DEF IInv, TypeOK, Touches, Known
<1>4. OneLevelOneProject'
    BY <1>2 DEF IInv, OneLevelOneProject
<1> QED
    BY <1>1, <1>3, <1>4 DEF IInv

(* What an add that is about to insert knows. *)
LEMMA AddKnows ==
  ASSUME IInv, NEW s \in Requests, At(s, "add:insert")
  PROVE  /\ Known(req[s].on) /\ Known(req[s].other) /\ req[s].other # req[s].on
         /\ task[req[s].other].project = task[req[s].on].project
         /\ req[s].clean => /\ Live(req[s].on) /\ Live(req[s].other)
                            /\ ~WouldCreateCycle(edges, req[s].other, req[s].on)
BY DEF IInv, Seen, AddSeen, AddFound, AddChecked, At

LEMMA AddInsertStep ==
  ASSUME IInv, NEW s \in Requests, AddInsert(s)
  PROVE  IInv'
<1>1. PICK u \in Tasks, v \in Tasks : u = req[s].other /\ v = req[s].on
    BY AddKnows DEF AddInsert, Known
<1>2. CASE <<u, v>> \in edges
    BY <1>1, <1>2, DoneStep DEF AddInsert
<1>3. CASE <<u, v>> \notin edges
  <2>1. /\ edges' = edges \cup {<<u, v>>} /\ req' = Disturbed({s}) /\ UNCHANGED task
      BY <1>1, <1>3 DEF AddInsert
  <2>2. u # v /\ Known(u) /\ Known(v) /\ task[u].project = task[v].project
      BY <1>1, AddKnows DEF AddInsert
  <2>3. {s} \in SUBSET Requests
      OBVIOUS
  <2>4. \A e \in edges' \ edges : e = <<u, v>>
      BY <2>1
  <2> HIDE DEF IInv
  <2> QED
      BY <2>1, <2>2, <2>3, <2>4, EdgesWritten
<1> QED
    BY <1>2, <1>3

LEMMA RemoveDependencyStep ==
  ASSUME IInv, NEW e \in edges, NEW t \in Tasks, RemoveDependency(e, t)
  PROVE  IInv'
BY EdgesWritten DEF RemoveDependency

LEMMA RemoveBeginStep ==
  ASSUME IInv, NEW s \in Requests, RemoveBegin(s)
  PROVE  IInv'
<1> DEFINE ids == {t \in Removed(req[s].on) : Live(t)}
           gone == {e \in edges : Touches(e, Removed(req[s].on))}
           r == [req[s] EXCEPT !.pc = "remove:commit", !.ids = ids, !.gone = gone]
<1>1. Seen(s) /\ req[s] \in Request /\ edges \subseteq Tasks \X Tasks
    BY DEF IInv, TypeOK
<1>2. Known(req[s].on) /\ (req[s].clean => Live(req[s].on))
    BY <1>1 DEF Seen, RemoveSeen, RemoveBegin, At
<1>3. ids \subseteq Tasks /\ gone \subseteq Tasks \X Tasks
    BY <1>1, <1>2 DEF Removed, Subtasks, Known
<1>4. req[s].clean => ids = Removed(req[s].on)
    BY <1>2 DEF Removed, Subtasks, Known
<1> HIDE DEF ids, gone
<1>5. /\ r \in Request /\ r.pc = "remove:commit" /\ r.on = req[s].on /\ r.clean = req[s].clean
      /\ r.ids = ids /\ r.gone = gone
    BY <1>1, <1>3 DEF Request, RequestPc
<1>6. req' = [req EXCEPT ![s] = r] /\ req'[s] = r /\ UNCHANGED <<task, edges>>
    BY DEF RemoveBegin, IInv, TypeOK, ids, gone
<1> HIDE DEF r
<1>7. Removed(req[s].on)' = Removed(req[s].on)
    BY <1>5, <1>6 DEF Removed, Subtasks, Live
<1>8. r.clean => gone = {e \in edges : Touches(e, r.ids)}
    BY <1>4, <1>5 DEF gone
<1>9. Seen(s)'
    BY <1>2, <1>4, <1>5, <1>6, <1>7, <1>8
    DEF Seen, CreateSeen, AddSeen, AddFound, AddChecked, RemoveSeen, RemoveRead, At, Known, Live
<1> QED
    BY <1>5, <1>6, <1>9, OthersKeep

(* A remove whose transaction is repeated. *)
LEMMA RemoveAgain ==
  ASSUME IInv, NEW s \in Requests, At(s, "remove:commit"), UNCHANGED <<task, edges>>,
         req' = [req EXCEPT ![s].pc = "remove:begin", ![s].ids = {}, ![s].gone = {}]
  PROVE  IInv'
<1> DEFINE r == [req[s] EXCEPT !.pc = "remove:begin", !.ids = {}, !.gone = {}]
<1>1. Seen(s) /\ req[s] \in Request
    BY DEF IInv, TypeOK
<1>2. /\ r \in Request /\ r.pc = "remove:begin" /\ r.on = req[s].on /\ r.clean = req[s].clean
      /\ req' = [req EXCEPT ![s] = r] /\ req'[s] = r
    BY <1>1 DEF Request, RequestPc, IInv, TypeOK
<1> HIDE DEF r
<1>3. Seen(s)'
    BY <1>1, <1>2
    DEF Seen, CreateSeen, AddSeen, AddFound, AddChecked, RemoveSeen, RemoveRead, At, Known, Live
<1> QED
    BY <1>2, <1>3, OthersKeep

(* A remove that commits. *)
RemoveWrites(s) ==
  /\ task' = [t \in Tasks |->
                IF t \in req[s].ids THEN [task[t] EXCEPT !.state = "DELETED"] ELSE task[t]]
  /\ edges' = edges \ req[s].gone
  /\ req' = Disturbed({s})

LEMMA RemoveWritesStep ==
  ASSUME IInv, NEW s \in Requests, RemoveWrites(s), \A t \in req[s].ids : Live(t)
  PROVE  IInv'
<1>1. /\ task' \in [Tasks -> TaskDoc]
      /\ \A t \in Tasks : /\ task'[t].project = task[t].project
                          /\ task'[t].parent = task[t].parent
                          /\ task'[t].state = "ABSENT" <=> task[t].state = "ABSENT"
                          /\ t \notin req[s].ids => task'[t] = task[t]
  <2>1. task \in [Tasks -> TaskDoc]
      BY DEF IInv, TypeOK
  <2>2. ASSUME NEW t \in Tasks, t \in req[s].ids
        PROVE  /\ task'[t] \in TaskDoc
               /\ task'[t].project = task[t].project /\ task'[t].parent = task[t].parent
               /\ task'[t].state = "DELETED" /\ task[t].state = "LIVE"
      BY <2>1, <2>2 DEF RemoveWrites, TaskDoc, Live
  <2>3. ASSUME NEW t \in Tasks, t \notin req[s].ids
        PROVE  task'[t] = task[t]
      BY <2>3 DEF RemoveWrites
  <2>4. task' = [t \in Tasks |-> task'[t]]
      BY DEF RemoveWrites
  <2> QED
      BY <2>1, <2>2, <2>3, <2>4
<1>2. Stays
    BY <1>1 DEF Stays
<1>3. (req \in [Requests -> Request])' /\ \A x \in Requests : Seen(x)'
  <2>1. {s} \in SUBSET Requests
      OBVIOUS
  <2> HIDE DEF IInv
  <2> QED
      BY <1>2, <2>1, OthersDisturbed DEF RemoveWrites
<1>4. edges' \subseteq edges
    BY DEF RemoveWrites
<1>5. TypeOK'
  <2>1. ASSUME NEW t \in Tasks, task'[t].state = "ABSENT"
        PROVE  task'[t] = NoDoc /\ ~\E e \in edges' : Touches(e, {t})
    <3>1. task[t].state = "ABSENT" /\ task'[t] = task[t]
        BY <1>1, <2>1 DEF Live
    <3>2. task[t] = NoDoc /\ ~\E e \in edges : Touches(e, {t})
        BY <3>1 DEF IInv, TypeOK
    <3>3. ~\E e \in edges' : Touches(e, {t})
        BY <1>4, <3>2
    <3> QED
        BY <3>1, <3>2, <3>3
  <2>2. ASSUME NEW t \in Tasks, task'[t].parent # NoTask
        PROVE  task'[task'[t].parent].state # "ABSENT"
    <3>1. PICK p \in Tasks : p = task[t].parent
        BY <1>1, <2>2 DEF IInv, TypeOK, TaskDoc
    <3>2. task'[t].parent = p /\ p # NoTask
        BY <1>1, <2>2, <3>1
    <3>3. task[p].state # "ABSENT"
        BY <3>1, <3>2 DEF IInv, TypeOK
    <3> QED
        BY <1>1, <3>2, <3>3
  <2> QED
      BY <1>1, <1>3, <1>4, <2>1, <2>2 DEF IInv, TypeOK
<1>6. OneLevelOneProject'
    BY <1>1, <1>4 DEF IInv, TypeOK, TaskDoc, OneLevelOneProject
<1> QED
    BY <1>3, <1>5, <1>6 DEF IInv

LEMMA RemoveCommitCases ==
  ASSUME NEW s \in Requests, RemoveCommit(s)
  PROVE  \/ RemoveWrites(s) /\ \A t \in req[s].ids : Live(t)
         \/ /\ UNCHANGED <<task, edges>>
            /\ req' = [req EXCEPT ![s].pc = "remove:begin", ![s].ids = {}, ![s].gone = {}]
BY DEF RemoveCommit, RemoveWrites

-----------------------------------------------------------------------------
LEMMA InitInvariant == Init => IInv
<1> SUFFICES ASSUME Init PROVE IInv
    OBVIOUS
<1>1. \A s \in Requests : req[s] = NoRequest /\ NoRequest \in Request
    BY DEF Init, Request, RequestPc
<1>2. \A s \in Requests : Seen(s)
    BY <1>1 DEF Seen, CreateSeen, AddSeen, AddFound, AddChecked, RemoveSeen, RemoveRead, At
<1>3. TypeOK
    BY <1>1 DEF Init, TypeOK, TaskDoc, NoDoc
<1>4. OneLevelOneProject
    BY DEF Init, OneLevelOneProject, NoDoc
<1> QED
    BY <1>2, <1>3, <1>4 DEF IInv

LEMMA NextInvariant == IInv /\ [Next]_vars => IInv'
<1> SUFFICES ASSUME IInv, [Next]_vars PROVE IInv'
    OBVIOUS
<1>1. ASSUME NEW t \in Tasks, NEW p \in Projects, Create(t, p) PROVE IInv'
    BY <1>1, CreateStep
<1>2. ASSUME NEW s \in Requests, NEW t \in Tasks, NEW p \in Projects, CreateUnder(s, t, p)
      PROVE  IInv'
    BY <1>2, CreateUnderStep
<1>3. ASSUME NEW s \in Requests, NEW t \in Tasks, CreateInsert(s, t) PROVE IInv'
    BY <1>3, CreateInsertStep
<1>4. ASSUME NEW s \in Requests, NEW t \in Tasks, NEW blocking \in Tasks,
             AddAuthorize(s, t, blocking)
      PROVE  IInv'
    BY <1>4, AddAuthorizeStep
<1>5. ASSUME NEW s \in Requests, AddBlocking(s) PROVE IInv'
    BY <1>5, AddBlockingStep
<1>6. ASSUME NEW s \in Requests, AddCycle(s) PROVE IInv'
    BY <1>6, AddCycleStep
<1>7. ASSUME NEW s \in Requests, AddInsert(s) PROVE IInv'
    BY <1>7, AddInsertStep
<1>8. ASSUME NEW e \in edges, NEW t \in Tasks, RemoveDependency(e, t) PROVE IInv'
    BY <1>8, RemoveDependencyStep
<1>9. ASSUME NEW s \in Requests, NEW t \in Tasks, RemoveAuthorize(s, t) PROVE IInv'
    BY <1>9, RemoveAuthorizeStep
<1>10. ASSUME NEW s \in Requests, RemoveBegin(s) PROVE IInv'
    BY <1>10, RemoveBeginStep
<1>11. ASSUME NEW s \in Requests, RemoveCommit(s) PROVE IInv'
  <2>1. At(s, "remove:commit")
      BY <1>11 DEF RemoveCommit
  <2> QED
      BY <1>11, <2>1, RemoveCommitCases, RemoveWritesStep, RemoveAgain
<1>12. CASE UNCHANGED vars
    BY <1>12
    DEF vars, IInv, TypeOK, OneLevelOneProject, Seen, CreateSeen, AddSeen, AddFound, AddChecked,
        RemoveSeen, RemoveRead, Known, TopLevel, Live, At, WouldCreateCycle, Removed, Subtasks,
        Touches
<1> QED
    BY <1>1, <1>2, <1>3, <1>4, <1>5, <1>6, <1>7, <1>8, <1>9, <1>10, <1>11, <1>12 DEF Next

(* The collections keep their shape, and what every request in flight has   *)
(* established stays established until somebody else writes.                *)
THEOREM InvariantHolds == Spec => []IInv
BY InitInvariant, NextInvariant, PTL DEF Spec

(* Types, and no reference to a task that never existed.                    *)
THEOREM TypeCorrect == Spec => []TypeOK
BY InvariantHolds, PTL DEF IInv

(* One level of subtasks, in the parent's project; dependencies between two *)
(* tasks of one project: for any number of tasks, projects and requests.    *)
THEOREM TreeCorrect == Spec => []OneLevelOneProject
BY InvariantHolds, PTL DEF IInv

-----------------------------------------------------------------------------
(* One request alone keeps the graph sound. *)

LEMMA NewTaskSound ==
  ASSUME IInv, GraphSound, NEW t \in Tasks, task[t].state = "ABSENT", UNCHANGED edges,
         \A u \in Tasks : u # t => task'[u] = task[u],
         task'[t].parent # NoTask =>
           task'[t].parent \in Tasks /\ Live(task'[t].parent)
  PROVE  GraphSound'
<1>1. Acyclic'
    BY DEF GraphSound, Acyclic
<1>2. ASSUME NEW e \in edges' PROVE Live(e[1])' /\ Live(e[2])'
  <2>1. e \in edges /\ e[1] \in Tasks /\ e[2] \in Tasks /\ e[1] # t /\ e[2] # t
      BY <1>2 DEF IInv, TypeOK, Touches
  <2> QED
      BY <2>1 DEF GraphSound, Live
<1>3. ASSUME NEW u \in Tasks, Live(u)', ~TopLevel(u)' PROVE Live(task[u].parent)'
  <2>1. CASE u = t
    <3>1. task'[t].parent # t
        BY <1>3, <2>1 DEF TopLevel, Live
    <3> QED
        BY <1>3, <2>1, <3>1 DEF TopLevel, Live
  <2>2. CASE u # t
    <3>1. /\ task'[u] = task[u] /\ Live(u) /\ ~TopLevel(u)
        BY <1>3, <2>2 DEF Live, TopLevel
    <3>2. Live(task[u].parent) /\ task[u].parent \in Tasks
        BY <3>1 DEF GraphSound, IInv, TypeOK, TaskDoc, TopLevel
    <3>3. task[u].parent # t
        BY <3>2 DEF Live
    <3> QED
        BY <3>1, <3>2, <3>3 DEF Live
  <2> QED
      BY <2>1, <2>2
<1> QED
    BY <1>1, <1>2, <1>3 DEF GraphSound

LEMMA AddInsertSound ==
  ASSUME IInv, GraphSound, NEW s \in Requests, AddInsert(s), req[s].clean
  PROVE  GraphSound'
<1>1. PICK u \in Tasks, v \in Tasks : u = req[s].other /\ v = req[s].on
    BY AddKnows DEF AddInsert, Known
<1>2. /\ u # v /\ Live(u) /\ Live(v) /\ ~WouldCreateCycle(edges, u, v)
    BY <1>1, AddKnows DEF AddInsert
<1>3. UNCHANGED task /\ (edges' = edges \/ edges' = edges \cup {<<u, v>>})
    BY <1>1 DEF AddInsert
<1>4. edges \in SUBSET (Tasks \X Tasks) /\ AcyclicEdges(edges)
    BY DEF IInv, TypeOK, GraphSound, Acyclic
<1>5. AcyclicEdges(edges \cup {<<u, v>>})
    BY <1>2, <1>4, CheckedEdgeClosesNoCycle
<1>6. Acyclic'
    BY <1>3, <1>4, <1>5 DEF Acyclic, AcyclicEdges
<1>7. \A e \in edges' : Live(e[1])' /\ Live(e[2])'
    BY <1>2, <1>3 DEF GraphSound, Live
<1> QED
    BY <1>3, <1>6, <1>7 DEF GraphSound, Live, TopLevel

LEMMA FewerEdgesSound ==
  ASSUME GraphSound, UNCHANGED task, edges' \subseteq edges
  PROVE  GraphSound'
<1>1. Acyclic'
    BY FewerEdges DEF GraphSound, Acyclic
<1> QED
    BY <1>1 DEF GraphSound, Live, TopLevel

(* The subtasks of a subtask: there are none, so removing a task and its    *)
(* subtasks leaves no live subtask behind.                                  *)
LEMMA RemoveSound ==
  ASSUME IInv, GraphSound, NEW s \in Requests, At(s, "remove:commit"), req[s].clean,
         RemoveWrites(s)
  PROVE  GraphSound'
<1>1. PICK t \in Tasks : t = req[s].on
    BY DEF IInv, Seen, RemoveSeen, At, Known
<1>2. /\ req[s].ids = Removed(t)
      /\ req[s].gone = {e \in edges : Touches(e, Removed(t))}
    BY <1>1 DEF IInv, Seen, RemoveRead
<1>3. ASSUME NEW u \in Tasks
      PROVE  /\ u \in Removed(t) => ~Live(u)'
             /\ u \notin Removed(t) => task'[u] = task[u]
    BY <1>2 DEF RemoveWrites, Live, IInv, TypeOK, TaskDoc
<1>4. edges' \subseteq edges /\ \A e \in edges' : ~Touches(e, Removed(t))
    BY <1>2 DEF RemoveWrites
<1>5. Acyclic'
    BY <1>4, FewerEdges DEF GraphSound, Acyclic
<1>6. ASSUME NEW e \in edges' PROVE Live(e[1])' /\ Live(e[2])'
  <2>1. e \in edges /\ e[1] \in Tasks \ Removed(t) /\ e[2] \in Tasks \ Removed(t)
      BY <1>4, <1>6 DEF Touches, IInv, TypeOK
  <2> QED
      BY <1>3, <2>1 DEF GraphSound, Live
<1>7. ASSUME NEW u \in Tasks, Live(u)', ~TopLevel(u)' PROVE Live(task[u].parent)'
  <2>1. u \notin Removed(t) /\ task'[u] = task[u]
      BY <1>3, <1>7
  <2>2. PICK p \in Tasks : p = task[u].parent
      BY <1>7, <2>1 DEF TopLevel, IInv, TypeOK, TaskDoc
  <2>3. Live(u) /\ task[u].parent # NoTask
      BY <1>7, <2>1 DEF Live, TopLevel
  <2>4. Live(p) /\ TopLevel(p)
      BY <2>2, <2>3 DEF GraphSound, TopLevel, IInv, OneLevelOneProject
  <2>5. t # NoTask
      BY TaskGraphAssumption
  <2>6. p \notin Removed(t)
      BY <2>1, <2>2, <2>3, <2>4, <2>5 DEF Removed, Subtasks, TopLevel
  <2> QED
      BY <1>3, <2>1, <2>2, <2>4, <2>6 DEF Live
<1> QED
    BY <1>5, <1>6, <1>7 DEF GraphSound

LEMMA StepSound ==
  ASSUME IInv, GraphSound, [Next]_vars, \A s \in Requests : Writing(s) => req[s].clean
  PROVE  GraphSound'
<1>1. ASSUME NEW t \in Tasks, NEW p \in Projects, Create(t, p) PROVE GraphSound'
    BY <1>1, CreateStep, NewTaskSound DEF Create
<1>2. ASSUME NEW s \in Requests, NEW t \in Tasks, CreateInsert(s, t) PROVE GraphSound'
  <2>1. req[s].clean
      BY <1>2 DEF CreateInsert, Writing, At, Idle, Disturbed
  <2>2. /\ task[t].state = "ABSENT" /\ UNCHANGED edges
        /\ task'[t].parent = req[s].on /\ Known(req[s].on) /\ Live(req[s].on)
        /\ \A u \in Tasks : u # t => task'[u] = task[u]
      BY <1>2, <2>1, CreateInsertStep DEF CreateInsert
  <2> QED
      BY <2>2, NewTaskSound DEF Known
<1>3. ASSUME NEW s \in Requests, AddInsert(s) PROVE GraphSound'
  <2>1. req'[s] = NoRequest
      BY <1>3 DEF AddInsert, Done, Disturbed, IInv, TypeOK
  <2>2. req[s].clean
      BY <1>3, <2>1 DEF AddInsert, Writing, At, Idle
  <2> QED
      BY <1>3, <2>2, AddInsertSound
<1>4. ASSUME NEW e \in edges, NEW t \in Tasks, RemoveDependency(e, t) PROVE GraphSound'
    BY <1>4, FewerEdgesSound DEF RemoveDependency
<1>5. ASSUME NEW s \in Requests, RemoveCommit(s) PROVE GraphSound'
  <2>1. CASE RemoveWrites(s)
    <3>1. At(s, "remove:commit") /\ req[s].clean
        BY <1>5, <2>1 DEF RemoveCommit, RemoveWrites, Writing, At, Idle, Disturbed
    <3> QED
        BY <2>1, <3>1, RemoveSound
  <2>2. CASE UNCHANGED <<task, edges>>
      BY <2>2, FewerEdgesSound
  <2> QED
      BY <1>5, <2>1, <2>2, RemoveCommitCases
<1>6. CASE UNCHANGED <<task, edges>>
    BY <1>6, FewerEdgesSound
<1> QED
    BY <1>1, <1>2, <1>3, <1>4, <1>5, <1>6
    DEF Next, vars, CreateUnder, AddAuthorize, AddBlocking, AddCycle, RemoveAuthorize, RemoveBegin

(* However many tasks and requests there are, a cycle, a dependency on a    *)
(* deleted task or a live subtask of one comes only from a write between    *)
(* another request's first read and its own write.                          *)
THEOREM AloneCorrect == Spec => EachAloneKeepsGraph
<1>1. IInv /\ [Next]_vars =>
        [GraphSound /\ (\A s \in Requests : Writing(s) => req[s].clean) => GraphSound']_vars
    BY StepSound
<1> QED
    BY <1>1, InvariantHolds, PTL DEF Spec, EachAloneKeepsGraph

-----------------------------------------------------------------------------
(* The inductive invariant of the migrations. *)

(* Ids are given out in order. *)
FreshIds ==
  /\ nextId \in Nat /\ FirstId <= nextId
  /\ \A c \in DOMAIN db : \A id \in DOMAIN db[c] : id \in Nat /\ id < nextId
  /\ \A c \in DOMAIN before : \A id \in DOMAIN before[c] : id \in Nat /\ id < FirstId

Stage1 == {"roles", "users", "membership", "projects", "owner", "tasks", "inbox", "labels",
           "comments", "scope", "notifications", "attachments"}
Stage2 == {"assignees", "assignee", "unassigned", "names", "rename"}
Stage3 == {"existing", "move", "merge", "deletedAt", "open"}

(* A run is in the migration that comes after those recorded. *)
RunOK ==
  /\ ledger \in {{}, {1}, {1, 2}, {1, 2, 3}}
  /\ run.pc \in {"idle", "record"} \cup Stage1 \cup Stage2 \cup Stage3
  /\ run.pc \in Stage1 => ledger = {}
  /\ run.pc \in Stage2 => ledger = {1}
  /\ run.pc \in Stage3 => ledger = {1, 2}
  /\ run.pc = "record" => ledger # {1, 2, 3}
  /\ run.pc = "move" => run.i \in 1..4
  /\ run.pc = "merge" => run.i \in 1..3 /\ DOMAIN run = {"pc", "i", "existing", "todo"}
  /\ run.pc \in {"inbox", "labels"} => DOMAIN run = {"pc", "todo", "at", "project", "left", "labels"}
  /\ run.pc = "rename" => DOMAIN run = {"pc", "todo", "taken"}

(* Migration n is recorded, or about to be, or at one of its last steps. *)
Passed(n, pcs) == n \in ledger \/ run.pc \in pcs \/ (run.pc = "record" /\ Pending(ledger) = n)

(* A project without a workspace is as it was, and one of those to come or  *)
(* without an owner once the loop has begun.                               *)
ProjectsOK ==
  /\ \A p \in Lacking(db, "projects", "workspace") :
       p \in Ids(before, "projects") /\ Doc("projects", p) = before["projects"][p]
  /\ run.pc \in {"projects", "owner"} =>
       /\ run.todo \subseteq Lacking(db, "projects", "workspace")
       /\ Lacking(db, "projects", "workspace") \subseteq run.todo \cup Ownerless(before)
  /\ run.pc = "owner" => run.at \in Having(db, "projects", "workspace")
  /\ Passed(1, {"tasks", "inbox", "labels", "comments", "scope", "notifications", "attachments"}) =>
       Lacking(db, "projects", "workspace") \subseteq Ownerless(before)

TasksOK ==
  /\ run.pc = "tasks" => run.todo = Lacking(db, "tasks", "workspace")
  /\ run.pc \in {"inbox", "labels"} =>
       run.at \notin run.todo /\ run.todo \cup {run.at} = Lacking(db, "tasks", "workspace")
  /\ Passed(1, {"comments", "scope", "notifications", "attachments"}) =>
       Lacking(db, "tasks", "workspace") = {}
  /\ Passed(2, {"unassigned", "names", "rename"}) => Having(db, "tasks", "assignee") = {}
  /\ \A t \in DOMAIN edited : edited[t] # None =>
       /\ t \in Having(db, "tasks", "workspace") \cap Having(db, "tasks", "assignees")
       /\ Doc("tasks", t).assignees = edited[t]

ContentOK ==
  /\ Having(db, "comments", "isDeleted") \subseteq Lacking(db, "comments", "workspace")
  /\ run.pc = "scope" => Having(db, "comments", "isDeleted") \subseteq run.todo
  /\ Passed(1, {"notifications", "attachments"}) => Having(db, "comments", "isDeleted") = {}
  /\ Passed(1, {"attachments"}) => Lacking(db, "notifications", "recipient") = {}
  /\ Passed(1, {}) => Lacking(db, "attachments", "storageKey") = {}

UsersOK == Passed(3, {"open"}) => Having(db, "users", "isDeleted") = {}

KeptOK == \A c \in {"users", "projects", "tasks"} : Ids(before, c) \subseteq In(c)

(* What has been merged is in the new collection: a project member as it    *)
(* was.                                                                    *)
MembersOK ==
  /\ \A i \in 1..3 :
       Ids(before, Renames[i][1]) \subseteq In(Renames[i][1]) \cup In(Renames[i][2]) \cup removed
  /\ run.pc = "merge" =>
       /\ run.todo \subseteq In(From)
       /\ \A id \in In(From) \ run.todo :
            \/ id \in In(To) /\ (run.i = 3 => Doc(To, id) = Doc(From, id))
            \/ run.i # 3 /\ id \in removed
  /\ run.pc \in {"move", "merge"} =>
       \A j \in run.i .. 3 : Renames[j][1] \in run.existing => Renames[j][1] \in DOMAIN db

RowsOK ==
  /\ \A m \in Ids(before, "projectmembers") :
       LET row == before["projectmembers"][m] IN ProjectRow(db, row.project, row.user)
  /\ \A p \in Lacking(before, "projects", "workspace") \cap Having(db, "projects", "workspace") :
       ProjectRow(db, p, Doc("projects", p).createdBy) \/ p \in cut \/ (RunAt("owner") /\ run.at = p)

MigrationInv ==
  FreshIds /\ RunOK /\ ProjectsOK /\ TasksOK /\ ContentOK /\ UsersOK /\ KeptOK /\ MembersOK /\ RowsOK

-----------------------------------------------------------------------------
(* Collections a step leaves alone, and what it keeps of one that it does   *)
(* not.                                                                    *)

QuietBut(S) == \A c : c \notin S => Docs(db, c)' = Docs(db, c)

KeepUsers ==
  /\ In("users") \subseteq In("users")'
  /\ Having(db, "users", "isDeleted")' \subseteq Having(db, "users", "isDeleted")

KeepProjects ==
  /\ In("projects") \subseteq In("projects")'
  /\ Lacking(db, "projects", "workspace")' = Lacking(db, "projects", "workspace")
  /\ \A p \in In("projects") : Doc("projects", p)' = Doc("projects", p)

KeepTasks ==
  /\ In("tasks") \subseteq In("tasks")'
  /\ Lacking(db, "tasks", "workspace")' = Lacking(db, "tasks", "workspace")
  /\ Having(db, "tasks", "assignee")' \subseteq Having(db, "tasks", "assignee")

KeepAssigned ==
  \A t \in Having(db, "tasks", "workspace") \cap Having(db, "tasks", "assignees") :
    t \in Having(db, "tasks", "assignees")' /\ Doc("tasks", t)'.assignees = Doc("tasks", t).assignees

KeepContent ==
  /\ Having(db, "comments", "isDeleted")' \subseteq
       Having(db, "comments", "isDeleted") \cap Lacking(db, "comments", "workspace")'
  /\ Lacking(db, "notifications", "recipient")' \subseteq Lacking(db, "notifications", "recipient")
  /\ Lacking(db, "attachments", "storageKey")' \subseteq Lacking(db, "attachments", "storageKey")

KeepRows == \A p, u : ProjectRow(db, p, u) => ProjectRow(db, p, u)'

MemberNames == {"workspacemembers", "workspaceinvitations", "projectmembers"} \cup NewCollections

KeepMembers ==
  \A i \in 1..3 : In(Renames[i][1]) \cup In(Renames[i][2]) \cup removed
                    \subseteq (In(Renames[i][1]) \cup In(Renames[i][2]) \cup removed)'

LEMMA Names ==
  /\ \A i \in 1..3 : Renames[i][1] \in MemberNames /\ Renames[i][2] \in NewCollections
  /\ NewCollections = {"workspace_members", "workspace_invitations", "project_members"}
  /\ Renames[1][1] = "workspacemembers" /\ Renames[1][2] = "workspace_members"
  /\ Renames[2][1] = "workspaceinvitations" /\ Renames[2][2] = "workspace_invitations"
  /\ Renames[3][1] = "projectmembers" /\ Renames[3][2] = "project_members"
<1>1. /\ Renames[1][1] = "workspacemembers" /\ Renames[1][2] = "workspace_members"
      /\ Renames[2][1] = "workspaceinvitations" /\ Renames[2][2] = "workspace_invitations"
      /\ Renames[3][1] = "projectmembers" /\ Renames[3][2] = "project_members"
  BY DEF Renames
<1>2. \A i \in 1..3 : i = 1 \/ i = 2 \/ i = 3
  OBVIOUS
<1>3. NewCollections = {Renames[i][2] : i \in 1..3}
  BY DEF NewCollections
<1>4. NewCollections = {"workspace_members", "workspace_invitations", "project_members"}
  <2>1. \A x : x \in {Renames[i][2] : i \in 1..3} <=> \E i \in 1..3 : x = Renames[i][2]
    OBVIOUS
  <2>2. 1 \in 1..3 /\ 2 \in 1..3 /\ 3 \in 1..3
    OBVIOUS
  <2> QED BY <1>1, <1>2, <1>3, <2>1, <2>2
<1> QED BY <1>1, <1>2, <1>4 DEF MemberNames

LEMMA DocsRead ==
  ASSUME NEW d, NEW c
  PROVE  /\ \A id \in Ids(d, c) : c \in DOMAIN d /\ d[c][id] = Docs(d, c)[id]
         /\ \A f : Having(d, c, f) = {id \in DOMAIN Docs(d, c) : f \in DOMAIN Docs(d, c)[id]}
         /\ \A f : Lacking(d, c, f) = {id \in DOMAIN Docs(d, c) : f \notin DOMAIN Docs(d, c)[id]}
<1>1. \A id \in Ids(d, c) : c \in DOMAIN d /\ d[c][id] = Docs(d, c)[id]
  BY DEF Ids, Docs, Empty
<1> QED BY <1>1 DEF Having, Lacking, Has, Ids

LEMMA QuietSame ==
  ASSUME NEW c, Docs(db, c)' = Docs(db, c)
  PROVE  /\ In(c)' = In(c)
         /\ \A f : Having(db, c, f)' = Having(db, c, f) /\ Lacking(db, c, f)' = Lacking(db, c, f)
         /\ \A id \in In(c) : Doc(c, id)' = Doc(c, id)
<1>1. In(c)' = In(c)
  BY DEF In, Ids
<1>2. \A id \in In(c) : db[c][id] = Docs(db, c)[id]
  BY DocsRead DEF In
<1>3. \A id \in In(c)' : db'[c][id] = Docs(db', c)[id]
  BY DocsRead DEF In
<1>4. \A f : Having(db, c, f)' = Having(db, c, f) /\ Lacking(db, c, f)' = Lacking(db, c, f)
  <2>1. /\ \A f : Having(db, c, f) = {id \in DOMAIN Docs(db, c) : f \in DOMAIN Docs(db, c)[id]}
        /\ \A f : Lacking(db, c, f) = {id \in DOMAIN Docs(db, c) : f \notin DOMAIN Docs(db, c)[id]}
    BY DocsRead
  <2>2. /\ \A f : Having(db', c, f) = {id \in DOMAIN Docs(db', c) : f \in DOMAIN Docs(db', c)[id]}
        /\ \A f : Lacking(db', c, f) = {id \in DOMAIN Docs(db', c) : f \notin DOMAIN Docs(db', c)[id]}
    BY DocsRead
  <2> QED BY <2>1, <2>2
<1> QED BY <1>1, <1>2, <1>3, <1>4 DEF Doc

LEMMA QuietKeeps ==
  ASSUME NEW S, QuietBut(S)
  PROVE  /\ "users" \notin S => KeepUsers
         /\ "projects" \notin S => KeepProjects
         /\ "tasks" \notin S => KeepTasks /\ KeepAssigned
         /\ S \cap {"comments", "notifications", "attachments"} = {} /\ ContentOK => KeepContent
         /\ S \cap {"projectmembers", "project_members"} = {} => KeepRows
         /\ S \cap MemberNames = {} /\ removed \subseteq removed' => KeepMembers
<1>0. \A c : c \notin S => Docs(db, c)' = Docs(db, c)
  BY DEF QuietBut
<1>1. "users" \notin S => KeepUsers
  BY <1>0, QuietSame DEF KeepUsers
<1>2. "projects" \notin S => KeepProjects
  <2> SUFFICES ASSUME "projects" \notin S PROVE KeepProjects
    OBVIOUS
  <2>1. /\ In("projects")' = In("projects")
        /\ Having(db, "projects", "workspace")' = Having(db, "projects", "workspace")
        /\ Lacking(db, "projects", "workspace")' = Lacking(db, "projects", "workspace")
        /\ \A id \in In("projects") : Doc("projects", id)' = Doc("projects", id)
    BY <1>0, QuietSame
  <2> QED BY <2>1 DEF KeepProjects
<1>3. "tasks" \notin S => KeepTasks /\ KeepAssigned
  <2> SUFFICES ASSUME "tasks" \notin S PROVE KeepTasks /\ KeepAssigned
    OBVIOUS
  <2>1. /\ In("tasks")' = In("tasks")
        /\ \A f : Having(db, "tasks", f)' = Having(db, "tasks", f)
        /\ \A f : Lacking(db, "tasks", f)' = Lacking(db, "tasks", f)
        /\ \A id \in In("tasks") : Doc("tasks", id)' = Doc("tasks", id)
    BY <1>0, QuietSame
  <2>2. Having(db, "tasks", "workspace") \subseteq In("tasks")
    BY DEF Having, In
  <2> QED BY <2>1, <2>2 DEF KeepTasks, KeepAssigned
<1>4. S \cap {"comments", "notifications", "attachments"} = {} /\ ContentOK => KeepContent
  BY <1>0, QuietSame DEF KeepContent, ContentOK
<1>5. S \cap {"projectmembers", "project_members"} = {} => KeepRows
  BY <1>0, QuietSame DEF KeepRows, ProjectRow, In, Doc
<1>6. S \cap MemberNames = {} /\ removed \subseteq removed' => KeepMembers
  <2> SUFFICES ASSUME S \cap MemberNames = {}, removed \subseteq removed', NEW i \in 1..3
               PROVE  In(Renames[i][1]) \cup In(Renames[i][2]) \cup removed
                        \subseteq (In(Renames[i][1]) \cup In(Renames[i][2]) \cup removed)'
    BY DEF KeepMembers
  <2>1. PICK old, new : old = Renames[i][1] /\ new = Renames[i][2]
    OBVIOUS
  <2>2. old \notin S /\ new \notin S
    BY <2>1, Names DEF MemberNames
  <2>3. In(old)' = In(old) /\ In(new)' = In(new)
    BY <1>0, <2>2, QuietSame
  <2> QED BY <2>1, <2>3
<1> QED BY <1>1, <1>2, <1>3, <1>4, <1>5, <1>6

LEMMA PutDocs ==
  ASSUME NEW c, NEW docs, db' = Put(c, docs)
  PROVE  /\ Docs(db, c)' = docs /\ QuietBut({c})
         /\ c \in DOMAIN db' /\ db'[c] = docs
         /\ DOMAIN db' = DOMAIN db \cup {c} /\ \A k \in DOMAIN db : k # c => db'[k] = db[k]
         /\ FreshIds /\ UNCHANGED before /\ nextId' \in Nat /\ nextId <= nextId'
              /\ (\A id \in DOMAIN docs : id \in Nat /\ id < nextId') => FreshIds'
<1>1. /\ DOMAIN db' = DOMAIN db \cup {c} /\ db'[c] = docs
      /\ \A k \in DOMAIN db : k # c => db'[k] = db[k]
  BY DEF Put, Over
<1>2. Docs(db, c)' = docs /\ QuietBut({c})
  BY <1>1 DEF Docs, QuietBut
<1>3. FreshIds /\ UNCHANGED before /\ nextId' \in Nat /\ nextId <= nextId'
        /\ (\A id \in DOMAIN docs : id \in Nat /\ id < nextId') => FreshIds'
  BY <1>1, MigrationsAssumption DEF FreshIds
<1> QED BY <1>1, <1>2, <1>3

LEMMA SkipKeeps ==
  ASSUME Skip
  PROVE  QuietBut({}) /\ (FreshIds /\ UNCHANGED before => FreshIds')
  BY DEF Skip, QuietBut, FreshIds

(* An update keeps the ids. *)
LEMMA UpdateDocs ==
  ASSUME NEW c, NEW docs, Write(Put(c, docs)), DOMAIN docs \subseteq In(c)
  PROVE  /\ Docs(db, c)' = docs /\ QuietBut({c})
         /\ FreshIds /\ UNCHANGED before => FreshIds'
<1>1. db' = Put(c, docs) /\ nextId' = nextId
  BY DEF Write
<1>2. FreshIds => nextId \in Nat /\ \A id \in DOMAIN docs : id \in Nat /\ id < nextId
  BY DocsRead DEF FreshIds, In, Ids, Docs, Empty
<1>3. Docs(db, c)' = docs /\ QuietBut({c})
  BY <1>1, PutDocs
<1>4. ASSUME FreshIds, UNCHANGED before PROVE FreshIds'
  <2>1. nextId' \in Nat /\ nextId <= nextId' /\ \A id \in DOMAIN docs : id \in Nat /\ id < nextId'
    BY <1>1, <1>2, <1>4
  <2> QED BY <1>1, <1>4, <2>1, PutDocs
<1> QED BY <1>3, <1>4

LEMMA InsertDocs ==
  ASSUME FreshIds, UNCHANGED before, NEW c, NEW doc, Insert(c, doc)
  PROVE  /\ FreshIds' /\ QuietBut({c})
         /\ nextId \notin In(c) /\ In(c)' = In(c) \cup {nextId}
         /\ db'[c][nextId] = doc
         /\ \A id \in In(c) : Doc(c, id)' = Doc(c, id)
<1>1. PICK docs : docs = Added(c, nextId, doc)
  OBVIOUS
<1>2. db' = Put(c, docs) /\ nextId' = nextId + 1
  BY <1>1 DEF Insert, With
<1>3. \A id \in In(c) : id \in Nat /\ id < nextId /\ db[c][id] = Docs(db, c)[id]
  BY DocsRead DEF FreshIds, In, Ids, Docs, Empty
<1>4. /\ DOMAIN docs = In(c) \cup {nextId} /\ docs[nextId] = doc
      /\ \A id \in In(c) : id # nextId => docs[id] = Docs(db, c)[id]
  BY <1>1 DEF Added, Over, In, Ids
<1>5. nextId \in Nat /\ nextId \notin In(c)
  BY <1>3 DEF FreshIds
<1>6. FreshIds' /\ QuietBut({c}) /\ Docs(db, c)' = docs /\ db'[c] = docs
  <2>1. nextId' \in Nat /\ nextId <= nextId' /\ \A id \in DOMAIN docs : id \in Nat /\ id < nextId'
    BY <1>2, <1>3, <1>4, <1>5
  <2> QED BY <1>2, <2>1, PutDocs
<1>7. In(c)' = DOMAIN docs
  BY <1>6 DEF In, Ids
<1> QED BY <1>3, <1>4, <1>5, <1>6, <1>7 DEF Doc

(* Each part of the invariant stays where the step keeps what it is about   *)
(* and the run comes to no place it has more to say of.                    *)
ProjectPcs == {"tasks", "inbox", "labels", "comments", "scope", "notifications", "attachments"}
TaskPcs == {"comments", "scope", "notifications", "attachments"}
AssigneePcs == {"unassigned", "names", "rename"}
PassStep(n, pcs) == Passed(n, pcs)' => Passed(n, pcs)
Still(pcs) == run' = run \/ run'.pc \notin pcs

LEMMA ProjectsStay ==
  ASSUME MigrationInv, UNCHANGED before, KeepProjects, Still({"projects", "owner"}), PassStep(1, ProjectPcs)
  PROVE  ProjectsOK'
<1>1. /\ Lacking(db, "projects", "workspace")' = Lacking(db, "projects", "workspace")
      /\ Having(db, "projects", "workspace") \subseteq Having(db, "projects", "workspace")'
      /\ \A p \in Lacking(db, "projects", "workspace") : Doc("projects", p)' = Doc("projects", p)
  BY DEF KeepProjects, Lacking, Having, In
<1>2. Ids(before, "projects")' = Ids(before, "projects") /\ Ownerless(before)' = Ownerless(before)
  BY DEF Ids, Docs, Ownerless, Field, Has
<1> QED BY <1>1, <1>2 DEF MigrationInv, ProjectsOK, Still, PassStep, ProjectPcs

LEMMA TasksStay ==
  ASSUME MigrationInv, UNCHANGED edited, KeepTasks, KeepAssigned, Still({"tasks", "inbox", "labels"}),
         PassStep(1, TaskPcs), PassStep(2, AssigneePcs)
  PROVE  TasksOK'
<1>1. \A t \in Having(db, "tasks", "workspace") : t \in Having(db, "tasks", "workspace")'
  BY DEF KeepTasks, Lacking, Having, In
<1>2. /\ Lacking(db, "tasks", "workspace")' = Lacking(db, "tasks", "workspace")
      /\ Having(db, "tasks", "assignee")' \subseteq Having(db, "tasks", "assignee")
  BY DEF KeepTasks
<1>3. \A t \in DOMAIN edited : edited[t] # None =>
       /\ t \in Having(db, "tasks", "workspace")' \cap Having(db, "tasks", "assignees")'
       /\ Doc("tasks", t)'.assignees = edited[t]
  BY <1>1 DEF MigrationInv, TasksOK, KeepAssigned
<1>4. /\ run'.pc = "tasks" => run'.todo = Lacking(db, "tasks", "workspace")
      /\ run'.pc \in {"inbox", "labels"} =>
           run'.at \notin run'.todo /\ run'.todo \cup {run'.at} = Lacking(db, "tasks", "workspace")
  BY DEF MigrationInv, TasksOK, Still
<1>5. /\ Passed(1, TaskPcs)' => Lacking(db, "tasks", "workspace") = {}
      /\ Passed(2, AssigneePcs)' => Having(db, "tasks", "assignee") = {}
  BY DEF MigrationInv, TasksOK, PassStep, TaskPcs, AssigneePcs
<1> QED BY <1>2, <1>3, <1>4, <1>5 DEF TasksOK, TaskPcs, AssigneePcs

LEMMA ContentStays ==
  ASSUME MigrationInv, KeepContent, Still({"scope"}),
         PassStep(1, {"notifications", "attachments"}), PassStep(1, {"attachments"}), PassStep(1, {})
  PROVE  ContentOK'
  BY DEF MigrationInv, ContentOK, KeepContent, Still, PassStep

LEMMA UsersStay ==
  ASSUME MigrationInv, KeepUsers, PassStep(3, {"open"})
  PROVE  UsersOK'
  BY DEF MigrationInv, UsersOK, KeepUsers, PassStep

LEMMA KeptStays ==
  ASSUME MigrationInv, UNCHANGED before, \A c \in {"users", "projects", "tasks"} : In(c) \subseteq In(c)'
  PROVE  KeptOK'
<1>1. \A c : Ids(before, c)' = Ids(before, c)
  BY DEF Ids, Docs
<1> QED BY <1>1 DEF MigrationInv, KeptOK

LEMMA MembersStay ==
  ASSUME MigrationInv, UNCHANGED before, KeepMembers, run'.pc \notin {"move", "merge"}
  PROVE  MembersOK'
<1>1. \A c : Ids(before, c)' = Ids(before, c)
  BY DEF Ids, Docs
<1> QED BY <1>1 DEF MigrationInv, MembersOK, KeepMembers

LEMMA RowsStay ==
  ASSUME MigrationInv, UNCHANGED before, KeepRows, KeepProjects, cut \subseteq cut',
         run.pc = "owner" => \/ run' = run \/ run.at \in cut'
                             \/ ProjectRow(db', run.at, Doc("projects", run.at).createdBy)
  PROVE  RowsOK'
<1>0. /\ \A c : Ids(before, c)' = Ids(before, c)
      /\ Lacking(before, "projects", "workspace")' = Lacking(before, "projects", "workspace")
  BY DEF Ids, Docs, Lacking, Having, Has
<1>1. ASSUME NEW m \in Ids(before, "projectmembers")
      PROVE  ProjectRow(db', before["projectmembers"][m].project, before["projectmembers"][m].user)
  BY DEF MigrationInv, RowsOK, KeepRows
<1>2. ASSUME NEW p \in Lacking(before, "projects", "workspace"), p \in Having(db, "projects", "workspace")'
      PROVE  \/ ProjectRow(db', p, db'["projects"][p].createdBy)
             \/ p \in cut' \/ (run'.pc = "owner" /\ run'.at = p)
  <2>1. p \in In("projects") /\ p \in Having(db, "projects", "workspace")
    <3>1. p \in Ids(before, "projects")
      BY DEF Lacking
    <3>2. p \in In("projects")
      BY <3>1 DEF MigrationInv, KeptOK
    <3>3. p \notin Lacking(db, "projects", "workspace")'
      BY <1>2 DEF Lacking
    <3> QED BY <3>2, <3>3 DEF KeepProjects, Lacking, In
  <2>2. Doc("projects", p)' = Doc("projects", p)
    BY <2>1 DEF KeepProjects
  <2>3. PICK u : u = Doc("projects", p).createdBy
    OBVIOUS
  <2>4. db'["projects"][p].createdBy = u
    BY <2>2, <2>3 DEF Doc
  <2>5. ProjectRow(db, p, u) \/ p \in cut \/ (run.pc = "owner" /\ run.at = p)
    BY <2>1, <2>3 DEF MigrationInv, RowsOK, RunAt
  <2>6. CASE ProjectRow(db, p, u)
    BY <2>4, <2>6 DEF KeepRows
  <2>7. CASE p \in cut
    BY <2>7
  <2>8. CASE run.pc = "owner" /\ run.at = p
    BY <2>3, <2>4, <2>8, <2>2 DEF Doc
  <2> QED BY <2>5, <2>6, <2>7, <2>8
<1> QED BY <1>0, <1>1, <1>2 DEF RowsOK, RunAt, Doc

(* A new document in a collection the invariant says nothing else of.      *)
LEMMA InsertKeeps ==
  ASSUME MigrationInv, UNCHANGED <<before, removed>>,
         NEW c \in {"workspaces", "labels"} \cup MemberNames, NEW doc, Insert(c, doc)
  PROVE  /\ FreshIds' /\ KeepUsers /\ KeepProjects /\ KeepTasks /\ KeepAssigned /\ KeepContent
         /\ KeepRows /\ KeepMembers
<1>1. /\ FreshIds' /\ QuietBut({c})
      /\ In(c) \subseteq In(c)' /\ \A id \in In(c) : Doc(c, id)' = Doc(c, id)
  BY InsertDocs DEF MigrationInv
<1>2. c \notin {"users", "projects", "tasks", "comments", "notifications", "attachments"}
  BY Names DEF MemberNames
<1>3. KeepUsers /\ KeepProjects /\ KeepTasks /\ KeepAssigned /\ KeepContent
  BY <1>1, <1>2, QuietKeeps DEF MigrationInv
<1>4. \A k : In(k) \subseteq In(k)' /\ \A id \in In(k) : Doc(k, id)' = Doc(k, id)
  BY <1>1, QuietSame DEF QuietBut
<1>5. KeepRows
  BY <1>4 DEF KeepRows, ProjectRow, In, Doc
<1>6. KeepMembers
  BY <1>4 DEF KeepMembers
<1> QED BY <1>1, <1>3, <1>5, <1>6

-----------------------------------------------------------------------------
(* The steps of the runner, and those of the migrations one by one.        *)

(* The turns after which no part of the invariant is nearer its end.       *)
Passes ==
  /\ PassStep(1, ProjectPcs) /\ PassStep(1, TaskPcs) /\ PassStep(2, AssigneePcs)
  /\ PassStep(1, {"notifications", "attachments"}) /\ PassStep(1, {"attachments"})
  /\ PassStep(1, {}) /\ PassStep(3, {"open"})

LEMMA RunnerKeeps ==
  ASSUME MigrationInv, Start \/ Record \/ Crash
  PROVE  MigrationInv'
<1>1. Skip /\ UNCHANGED <<before, removed, edited>> /\ cut \subseteq cut'
  BY DEF Start, Record, Crash, Calm, history
<1>2. /\ run'.pc \in {"idle", "roles", "assignees", "existing"}
      /\ RunOK'
  <2>1. /\ First[1] = "roles" /\ First[2] = "assignees" /\ First[3] = "existing"
        /\ 1..3 = {1, 2, 3}
    BY DEF First
  <2>2. CASE Start
    BY <2>1, <2>2 DEF Start, Begin, Pending, NoRun, MigrationInv, RunOK, Stage1, Stage2, Stage3
  <2>3. CASE Record
    BY <2>1, <2>3 DEF Record, RunAt, Begin, Pending, NoRun, MigrationInv, RunOK, Stage1, Stage2, Stage3
  <2>4. CASE Crash
    BY <2>4 DEF Crash, NoRun, MigrationInv, RunOK, Stage1, Stage2, Stage3
  <2> QED BY <2>2, <2>3, <2>4
<1>3. \A n, pcs : (\A pc \in {"idle", "roles", "assignees", "existing"} : pc \notin pcs) => PassStep(n, pcs)
  BY <1>2 DEF Start, Record, Crash, PassStep, Passed, RunAt
<1>4. Passes
  BY <1>3 DEF Passes, ProjectPcs, TaskPcs, AssigneePcs
<1>5. /\ FreshIds' /\ QuietBut({})
      /\ KeepUsers /\ KeepProjects /\ KeepTasks /\ KeepAssigned /\ KeepContent /\ KeepRows /\ KeepMembers
  BY <1>1, SkipKeeps, QuietKeeps DEF MigrationInv
<1>6. ProjectsOK' /\ TasksOK' /\ ContentOK' /\ UsersOK'
  BY <1>1, <1>2, <1>4, <1>5, ProjectsStay, TasksStay, ContentStays, UsersStay DEF Still, Passes
<1>7. KeptOK' /\ MembersOK'
  BY <1>1, <1>2, <1>5, KeptStays, MembersStay DEF KeepUsers, KeepProjects, KeepTasks
<1>8. run.pc = "owner" => run.at \in cut'
  BY DEF Start, Record, Crash, RunAt
<1>9. RowsOK'
  BY <1>1, <1>5, <1>8, RowsStay
<1> QED BY <1>2, <1>5, <1>6, <1>7, <1>9 DEF MigrationInv

(* A step of a migration that keeps everything.                            *)
LEMMA OrdinaryStep ==
  ASSUME MigrationInv, Calm, UNCHANGED ledger, RunOK', FreshIds', Passes,
         KeepUsers, KeepProjects, KeepTasks, KeepAssigned, KeepContent, KeepRows, KeepMembers,
         run.pc # "owner", run'.pc \notin {"projects", "owner", "tasks", "inbox", "labels", "scope", "move", "merge"}
  PROVE  MigrationInv'
<1>1. UNCHANGED <<before, removed, edited, cut>>
  BY DEF Calm, history
<1>2. ProjectsOK' /\ TasksOK' /\ ContentOK' /\ UsersOK'
  BY <1>1, ProjectsStay, TasksStay, ContentStays, UsersStay DEF Still, Passes
<1>3. KeptOK' /\ MembersOK'
  BY <1>1, KeptStays, MembersStay DEF KeepUsers, KeepProjects, KeepTasks
<1>4. RowsOK'
  BY <1>1, RowsStay
<1> QED BY <1>2, <1>3, <1>4 DEF MigrationInv

LEMMA Fields ==
  ASSUME NEW a, NEW b, NEW fs
  PROVE  /\ DOMAIN Over(a, b) = DOMAIN a \cup DOMAIN b
         /\ \A f \in DOMAIN a : Over(a, b)[f] = a[f]
         /\ \A f \in DOMAIN b \ DOMAIN a : Over(a, b)[f] = b[f]
         /\ DOMAIN Unset(a, fs) = DOMAIN a \ fs
         /\ \A f \in DOMAIN a \ fs : Unset(a, fs)[f] = a[f]
  BY DEF Over, Unset, Restrict

LEMMA UsersUpdated ==
  ASSUME MigrationInv, UNCHANGED <<before, removed>>, NEW docs, Write(Put("users", docs)),
         DOMAIN docs = In("users"),
         \A u \in In("users") : "isDeleted" \in DOMAIN docs[u] => "isDeleted" \in DOMAIN Doc("users", u)
  PROVE  /\ FreshIds' /\ KeepUsers /\ KeepProjects /\ KeepTasks /\ KeepAssigned /\ KeepContent
         /\ KeepRows /\ KeepMembers
         /\ Docs(db, "users")' = docs
<1>1. Docs(db, "users")' = docs /\ QuietBut({"users"}) /\ FreshIds'
  BY UpdateDocs DEF MigrationInv
<1>2. "users" \notin MemberNames
  BY Names DEF MemberNames
<1>3. KeepProjects /\ KeepTasks /\ KeepAssigned /\ KeepContent /\ KeepRows /\ KeepMembers
  BY <1>1, <1>2, QuietKeeps DEF MigrationInv
<1>4. /\ Having(db, "users", "isDeleted") = {u \in DOMAIN Docs(db, "users") : "isDeleted" \in DOMAIN Docs(db, "users")[u]}
      /\ Having(db', "users", "isDeleted") = {u \in DOMAIN docs : "isDeleted" \in DOMAIN docs[u]}
      /\ \A u \in In("users") : Doc("users", u) = Docs(db, "users")[u]
  BY <1>1, DocsRead DEF In, Doc
<1>5. KeepUsers
  BY <1>1, <1>4 DEF KeepUsers, In, Ids
<1> QED BY <1>1, <1>3, <1>5

LEMMA SkipKeepsAll ==
  ASSUME MigrationInv, UNCHANGED <<before, removed>>, Skip
  PROVE  /\ FreshIds' /\ KeepUsers /\ KeepProjects /\ KeepTasks /\ KeepAssigned /\ KeepContent
         /\ KeepRows /\ KeepMembers
  BY SkipKeeps, QuietKeeps DEF MigrationInv

(* 001. *)
LEMMA RolesKeeps ==
  ASSUME MigrationInv, Roles, Calm, UNCHANGED ledger
  PROVE  MigrationInv'
<1>1. run.pc = "roles" /\ run'.pc = "users" /\ UNCHANGED <<before, removed>>
  BY DEF Roles, RunAt, Loop, Calm, history
<1>2. PICK ids : ids = {u \in In("users") : Doc("users", u).role \notin {"ADMIN", "USER"}}
  OBVIOUS
<1>3. PICK docs : docs = [d \in Ids(db, "users") |-> IF d \in ids THEN [db["users"][d] EXCEPT !.role = "USER"]
                                                     ELSE db["users"][d]]
  OBVIOUS
<1>4. Write(Put("users", docs))
  BY <1>2, <1>3 DEF Roles, Update
<1>5. DOMAIN docs = In("users") /\ \A u \in In("users") : DOMAIN docs[u] = DOMAIN Doc("users", u)
  BY <1>3 DEF In, Doc
<1>6. Passes
  BY <1>1 DEF Passes, PassStep, Passed, ProjectPcs, TaskPcs, AssigneePcs
<1>7. RunOK'
  BY <1>1 DEF MigrationInv, RunOK, Stage1, Stage2, Stage3
<1>8. /\ FreshIds' /\ KeepUsers /\ KeepProjects /\ KeepTasks /\ KeepAssigned /\ KeepContent
      /\ KeepRows /\ KeepMembers
  BY <1>1, <1>4, <1>5, UsersUpdated
<1> QED BY <1>1, <1>6, <1>7, <1>8, OrdinaryStep

LEMMA UserWorkspaceKeeps ==
  ASSUME MigrationInv, UserWorkspace, Calm, UNCHANGED ledger
  PROVE  MigrationInv'
<1>1. UNCHANGED <<before, removed, edited, cut>> /\ run.pc = "users"
  BY DEF UserWorkspace, RunAt, Calm, history
<1>2. CASE run.todo = {} /\ Loop("projects", Lacking(db, "projects", "workspace")) /\ Skip
  <2>1. /\ FreshIds' /\ KeepUsers /\ KeepProjects /\ KeepTasks /\ KeepAssigned /\ KeepContent
        /\ KeepRows /\ KeepMembers
    BY <1>1, <1>2, SkipKeepsAll
  <2>2. run'.pc = "projects" /\ run'.todo = Lacking(db, "projects", "workspace") /\ db' = db
    BY <1>2 DEF Loop, Skip
  <2>3. Passes
    BY <1>1, <2>2 DEF Passes, PassStep, Passed, ProjectPcs, TaskPcs, AssigneePcs
  <2>4. RunOK'
    BY <1>1, <2>2 DEF MigrationInv, RunOK, Stage1, Stage2, Stage3
  <2>5. ProjectsOK'
    <3>1. Lacking(db, "projects", "workspace")' = Lacking(db, "projects", "workspace")
          /\ Ids(before, "projects")' = Ids(before, "projects")
          /\ \A p : Doc("projects", p)' = Doc("projects", p)
      BY <1>1, <2>2 DEF Lacking, Having, Has, Ids, Docs, Doc
    <3>2. ~Passed(1, ProjectPcs)'
      BY <1>1, <2>2 DEF MigrationInv, RunOK, Stage1, Passed, ProjectPcs
    <3> QED BY <1>1, <2>2, <3>1, <3>2 DEF MigrationInv, ProjectsOK, ProjectPcs
  <2>6. TasksOK' /\ ContentOK' /\ UsersOK'
    BY <1>1, <2>1, <2>2, <2>3, TasksStay, ContentStays, UsersStay DEF Still, Passes
  <2>7. KeptOK' /\ MembersOK' /\ RowsOK'
    BY <1>1, <2>1, <2>2, KeptStays, MembersStay, RowsStay DEF KeepUsers, KeepProjects, KeepTasks
  <2> QED BY <2>1, <2>4, <2>5, <2>6, <2>7 DEF MigrationInv
<1>3. CASE \E u \in run.todo :
             /\ IF PersonalOf(db, u) # {} THEN Skip
                ELSE Insert("workspaces", [owner |-> u, type |-> "PERSONAL"])
             /\ run' = [pc |-> "membership", todo |-> run.todo \ {u}, at |-> u]
  <2>1. run'.pc = "membership"
    BY <1>3
  <2>2. /\ FreshIds' /\ KeepUsers /\ KeepProjects /\ KeepTasks /\ KeepAssigned /\ KeepContent
        /\ KeepRows /\ KeepMembers
    BY <1>1, <1>3, SkipKeepsAll, InsertKeeps
  <2>3. Passes
    BY <1>1, <2>1 DEF Passes, PassStep, Passed, ProjectPcs, TaskPcs, AssigneePcs
  <2>4. RunOK'
    BY <1>1, <2>1 DEF MigrationInv, RunOK, Stage1, Stage2, Stage3
  <2> QED BY <1>1, <2>1, <2>2, <2>3, <2>4, OrdinaryStep
<1> QED BY <1>2, <1>3 DEF UserWorkspace

LEMMA UserMembershipKeeps ==
  ASSUME MigrationInv, UserMembership, Calm, UNCHANGED ledger
  PROVE  MigrationInv'
<1>1. run.pc = "membership" /\ run'.pc = "users" /\ UNCHANGED <<before, removed>>
  BY DEF UserMembership, RunAt, Loop, Calm, history
<1>2. /\ FreshIds' /\ KeepUsers /\ KeepProjects /\ KeepTasks /\ KeepAssigned /\ KeepContent
      /\ KeepRows /\ KeepMembers
  <2>1. Skip \/ \E doc : Insert("workspacemembers", doc)
    BY DEF UserMembership
  <2> QED BY <1>1, <2>1, SkipKeepsAll, InsertKeeps DEF MemberNames
<1>3. Passes
  BY <1>1 DEF Passes, PassStep, Passed, ProjectPcs, TaskPcs, AssigneePcs
<1>4. RunOK'
  BY <1>1 DEF MigrationInv, RunOK, Stage1, Stage2, Stage3
<1> QED BY <1>1, <1>2, <1>3, <1>4, OrdinaryStep

LEMMA ProjectsUpdated ==
  ASSUME MigrationInv, UNCHANGED <<before, removed>>, NEW docs, Write(Put("projects", docs)),
         DOMAIN docs = In("projects")
  PROVE  /\ FreshIds' /\ KeepUsers /\ KeepTasks /\ KeepAssigned /\ KeepContent /\ KeepRows /\ KeepMembers
         /\ Docs(db, "projects")' = docs /\ In("projects")' = In("projects")
<1>1. Docs(db, "projects")' = docs /\ QuietBut({"projects"}) /\ FreshIds'
  BY UpdateDocs DEF MigrationInv
<1>2. "projects" \notin MemberNames
  BY Names DEF MemberNames
<1>3. KeepUsers /\ KeepTasks /\ KeepAssigned /\ KeepContent /\ KeepRows /\ KeepMembers
  BY <1>1, <1>2, QuietKeeps DEF MigrationInv
<1> QED BY <1>1, <1>3 DEF In, Ids

LEMMA MoveProjectKeeps ==
  ASSUME MigrationInv, MoveProject, Calm, UNCHANGED ledger
  PROVE  MigrationInv'
<1>1. UNCHANGED <<before, removed, edited, cut>> /\ run.pc = "projects" /\ ledger = {}
  BY DEF MoveProject, RunAt, Calm, history, MigrationInv, RunOK, Stage1
<1>2. /\ run.todo \subseteq Lacking(db, "projects", "workspace")
      /\ Lacking(db, "projects", "workspace") \subseteq run.todo \cup Ownerless(before)
      /\ Ids(before, "projects")' = Ids(before, "projects") /\ Ownerless(before)' = Ownerless(before)
  BY <1>1 DEF MigrationInv, ProjectsOK, Ids, Docs, Ownerless, Field, Has
<1>3. CASE run.todo = {} /\ Loop("tasks", Lacking(db, "tasks", "workspace")) /\ Skip
  <2>1. /\ FreshIds' /\ KeepUsers /\ KeepProjects /\ KeepTasks /\ KeepAssigned /\ KeepContent
        /\ KeepRows /\ KeepMembers
    BY <1>1, <1>3, SkipKeepsAll
  <2>2. run'.pc = "tasks" /\ run'.todo = Lacking(db, "tasks", "workspace") /\ db' = db
    BY <1>3 DEF Loop, Skip
  <2>3. /\ PassStep(1, TaskPcs) /\ PassStep(2, AssigneePcs) /\ PassStep(1, {"notifications", "attachments"})
        /\ PassStep(1, {"attachments"}) /\ PassStep(1, {}) /\ PassStep(3, {"open"})
        /\ ~Passed(1, TaskPcs)' /\ ~Passed(2, AssigneePcs)'
    BY <1>1, <2>2 DEF PassStep, Passed, TaskPcs, AssigneePcs
  <2>4. RunOK'
    BY <1>1, <2>2 DEF MigrationInv, RunOK, Stage1, Stage2, Stage3
  <2>5. ProjectsOK'
    <3>1. Lacking(db, "projects", "workspace")' = Lacking(db, "projects", "workspace")
          /\ \A p : Doc("projects", p)' = Doc("projects", p)
      BY <1>1, <2>2 DEF Lacking, Having, Has, Ids, Docs, Doc
    <3> QED BY <1>1, <1>2, <1>3, <2>2, <3>1 DEF MigrationInv, ProjectsOK
  <2>6. TasksOK'
    <3>1. /\ \A f : Lacking(db, "tasks", f)' = Lacking(db, "tasks", f) /\ Having(db, "tasks", f)' = Having(db, "tasks", f)
          /\ \A t : Doc("tasks", t)' = Doc("tasks", t)
      BY <2>2 DEF Lacking, Having, Has, Ids, Docs, Doc
    <3> QED BY <1>1, <2>2, <2>3, <3>1 DEF MigrationInv, TasksOK, TaskPcs, AssigneePcs
  <2>7. ContentOK' /\ UsersOK'
    BY <1>1, <2>1, <2>2, <2>3, ContentStays, UsersStay DEF Still
  <2>8. KeptOK' /\ MembersOK' /\ RowsOK'
    BY <1>1, <2>1, <2>2, KeptStays, MembersStay, RowsStay DEF KeepUsers, KeepProjects, KeepTasks
  <2> QED BY <2>1, <2>4, <2>5, <2>6, <2>7, <2>8 DEF MigrationInv
<1>4. ASSUME NEW p \in run.todo, Doc("projects", p).owner = None, Loop("projects", run.todo \ {p}), Skip
      PROVE  MigrationInv'
  <2>1. /\ FreshIds' /\ KeepUsers /\ KeepProjects /\ KeepTasks /\ KeepAssigned /\ KeepContent
        /\ KeepRows /\ KeepMembers
    BY <1>1, <1>4, SkipKeepsAll
  <2>2. run'.pc = "projects" /\ run'.todo = run.todo \ {p} /\ db' = db
    BY <1>4 DEF Loop, Skip
  <2>3. Passes /\ ~Passed(1, ProjectPcs)'
    BY <1>1, <2>2 DEF Passes, PassStep, Passed, ProjectPcs, TaskPcs, AssigneePcs
  <2>4. RunOK'
    BY <1>1, <2>2 DEF MigrationInv, RunOK, Stage1, Stage2, Stage3
  <2>5. ProjectsOK'
    <3>1. Lacking(db, "projects", "workspace")' = Lacking(db, "projects", "workspace")
          /\ \A q : Doc("projects", q)' = Doc("projects", q)
      BY <1>1, <2>2 DEF Lacking, Having, Has, Ids, Docs, Doc
    <3>2. p \in Ownerless(before)
      BY <1>2, <1>4 DEF MigrationInv, ProjectsOK, Ownerless, Field, Has
    <3> QED BY <1>1, <1>2, <2>2, <2>3, <3>1, <3>2 DEF MigrationInv, ProjectsOK, ProjectPcs
  <2>6. TasksOK' /\ ContentOK' /\ UsersOK'
    BY <1>1, <2>1, <2>2, <2>3, TasksStay, ContentStays, UsersStay DEF Still, Passes
  <2>7. KeptOK' /\ MembersOK' /\ RowsOK'
    BY <1>1, <2>1, <2>2, KeptStays, MembersStay, RowsStay DEF KeepUsers, KeepProjects, KeepTasks
  <2> QED BY <2>1, <2>4, <2>5, <2>6, <2>7 DEF MigrationInv
<1>5. ASSUME NEW p \in run.todo, Write(Update("projects", {p}, Moved)),
             run' = [pc |-> "owner", todo |-> run.todo \ {p}, at |-> p]
      PROVE  MigrationInv'
  <2>1. PICK docs : docs = [d \in Ids(db, "projects") |-> IF d \in {p} THEN Moved(db["projects"][d])
                                                          ELSE db["projects"][d]]
    OBVIOUS
  <2>2. Write(Put("projects", docs)) /\ DOMAIN docs = In("projects")
    BY <1>5, <2>1 DEF Update, In
  <2>3. /\ FreshIds' /\ KeepUsers /\ KeepTasks /\ KeepAssigned /\ KeepContent /\ KeepRows /\ KeepMembers
        /\ Docs(db, "projects")' = docs /\ In("projects")' = In("projects")
    BY <1>1, <2>2, ProjectsUpdated
  <2>4. p \in In("projects")
    BY <1>2, <1>5 DEF Lacking, In
  <2>5. /\ "workspace" \in DOMAIN docs[p]
        /\ \A q \in In("projects") : q # p => docs[q] = Doc("projects", q)
    BY <2>1, <2>4 DEF Moved, In, Doc
  <2>6. \A q \in In("projects") : Doc("projects", q)' = docs[q]
    BY <2>3, DocsRead DEF In, Doc
  <2>7. /\ Lacking(db, "projects", "workspace")' = Lacking(db, "projects", "workspace") \ {p}
        /\ Having(db, "projects", "workspace")' = Having(db, "projects", "workspace") \cup {p}
    BY <2>2, <2>3, <2>4, <2>5, DocsRead DEF In, Doc, Ids
  <2>8. Passes /\ ~Passed(1, ProjectPcs)'
    BY <1>1, <1>5 DEF Passes, PassStep, Passed, ProjectPcs, TaskPcs, AssigneePcs
  <2>9. RunOK'
    BY <1>1, <1>5 DEF MigrationInv, RunOK, Stage1, Stage2, Stage3
  <2>10. ProjectsOK'
    <3>1. \A q \in Lacking(db, "projects", "workspace") \ {p} : Doc("projects", q)' = Doc("projects", q)
      BY <2>5, <2>6 DEF Lacking, In
    <3> QED BY <1>1, <1>2, <1>5, <2>7, <2>8, <3>1 DEF MigrationInv, ProjectsOK, ProjectPcs
  <2>11. TasksOK' /\ ContentOK' /\ UsersOK'
    BY <1>1, <1>5, <2>3, <2>8, TasksStay, ContentStays, UsersStay DEF Still, Passes
  <2>12. KeptOK' /\ MembersOK'
    BY <1>1, <1>5, <2>3, KeptStays, MembersStay DEF KeepUsers, KeepTasks
  <2>13. RowsOK'
    <3>1. ASSUME NEW m \in Ids(before, "projectmembers")
          PROVE  ProjectRow(db', before["projectmembers"][m].project, before["projectmembers"][m].user)
      BY <2>3 DEF MigrationInv, RowsOK, KeepRows
    <3>2. ASSUME NEW q \in Lacking(before, "projects", "workspace"), q \in Having(db, "projects", "workspace"), q # p
          PROVE  ProjectRow(db', q, db'["projects"][q].createdBy) \/ q \in cut
      <4>1. Doc("projects", q)' = Doc("projects", q)
        BY <2>5, <2>6, <3>2 DEF Having, In
      <4>2. ProjectRow(db, q, Doc("projects", q).createdBy) \/ q \in cut
        BY <1>1, <3>2 DEF MigrationInv, RowsOK, RunAt
      <4> QED BY <2>3, <4>1, <4>2 DEF KeepRows, Doc
    <3>3. /\ \A c : Ids(before, c)' = Ids(before, c)
          /\ Lacking(before, "projects", "workspace")' = Lacking(before, "projects", "workspace")
      BY <1>1 DEF Ids, Docs, Lacking, Having, Has
    <3> QED BY <1>1, <1>5, <2>7, <3>1, <3>2, <3>3 DEF RowsOK, RunAt, Doc
  <2> QED BY <2>3, <2>9, <2>10, <2>11, <2>12, <2>13 DEF MigrationInv
<1> QED BY <1>3, <1>4, <1>5 DEF MoveProject

LEMMA JoinKeeps ==
  ASSUME MigrationInv, UNCHANGED <<before, removed>>, NEW p, NEW w, NEW u, Join(p, w, u)
  PROVE  /\ FreshIds' /\ KeepUsers /\ KeepProjects /\ KeepTasks /\ KeepAssigned /\ KeepContent
         /\ KeepRows /\ KeepMembers
         /\ ProjectRow(db', p, u)
<1>1. CASE Joined(p, u)
  <2>1. Skip
    BY <1>1 DEF Join
  <2>2. PICK m \in In("projectmembers") :
          Doc("projectmembers", m).project = p /\ Doc("projectmembers", m).user = u
    BY <1>1 DEF Joined, Matching
  <2>3. ProjectRow(db, p, u)
    BY <2>2 DEF ProjectRow, In, Doc
  <2>4. /\ FreshIds' /\ KeepUsers /\ KeepProjects /\ KeepTasks /\ KeepAssigned /\ KeepContent
        /\ KeepRows /\ KeepMembers
    BY <2>1, SkipKeepsAll
  <2> QED BY <2>3, <2>4 DEF KeepRows
<1>2. CASE ~Joined(p, u)
  <2>1. PICK doc : doc = [project |-> p, workspace |-> w, user |-> u]
    OBVIOUS
  <2>2. Insert("projectmembers", doc)
    BY <1>2, <2>1 DEF Join
  <2>3. /\ FreshIds' /\ KeepUsers /\ KeepProjects /\ KeepTasks /\ KeepAssigned /\ KeepContent
        /\ KeepRows /\ KeepMembers
    BY <2>2, InsertKeeps DEF MemberNames
  <2>4. /\ In("projectmembers")' = In("projectmembers") \cup {nextId}
        /\ db'["projectmembers"][nextId] = doc
    BY <2>2, InsertDocs DEF MigrationInv
  <2>5. ProjectRow(db', p, u)
    BY <2>1, <2>4 DEF ProjectRow, In
  <2> QED BY <2>3, <2>5
<1> QED BY <1>1, <1>2

LEMMA ProjectOwnerKeeps ==
  ASSUME MigrationInv, ProjectOwner, Calm, UNCHANGED ledger
  PROVE  MigrationInv'
<1>1. /\ UNCHANGED <<before, removed, edited, cut>> /\ run.pc = "owner" /\ ledger = {}
      /\ run'.pc = "projects" /\ run'.todo = run.todo
  BY DEF ProjectOwner, RunAt, Loop, Calm, history, MigrationInv, RunOK, Stage1
<1>2. PICK p, u : p = run.at /\ u = Doc("projects", p).createdBy
  OBVIOUS
<1>3. \E w : Join(p, w, u)
  BY <1>2 DEF ProjectOwner
<1>4. /\ FreshIds' /\ KeepUsers /\ KeepProjects /\ KeepTasks /\ KeepAssigned /\ KeepContent
      /\ KeepRows /\ KeepMembers
      /\ ProjectRow(db', p, u)
  BY <1>1, <1>3, JoinKeeps
<1>5. Passes /\ ~Passed(1, ProjectPcs)'
  BY <1>1 DEF Passes, PassStep, Passed, ProjectPcs, TaskPcs, AssigneePcs
<1>6. RunOK'
  BY <1>1 DEF MigrationInv, RunOK, Stage1, Stage2, Stage3
<1>7. ProjectsOK'
  <2>1. /\ Lacking(db, "projects", "workspace")' = Lacking(db, "projects", "workspace")
        /\ \A q \in Lacking(db, "projects", "workspace") : Doc("projects", q)' = Doc("projects", q)
    BY <1>4 DEF KeepProjects, Lacking, In
  <2>2. Ids(before, "projects")' = Ids(before, "projects") /\ Ownerless(before)' = Ownerless(before)
    BY <1>1 DEF Ids, Docs, Ownerless, Field, Has
  <2> QED BY <1>1, <1>5, <2>1, <2>2 DEF MigrationInv, ProjectsOK, ProjectPcs
<1>8. TasksOK' /\ ContentOK' /\ UsersOK'
  BY <1>1, <1>4, <1>5, TasksStay, ContentStays, UsersStay DEF Still, Passes
<1>9. KeptOK' /\ MembersOK'
  BY <1>1, <1>4, KeptStays, MembersStay DEF KeepUsers, KeepProjects, KeepTasks
<1>10. RowsOK'
  BY <1>1, <1>2, <1>4, RowsStay
<1> QED BY <1>4, <1>6, <1>7, <1>8, <1>9, <1>10 DEF MigrationInv

(* What a step of the loop over the tasks leaves of the other parts.       *)
LEMMA TaskLoopKeeps ==
  ASSUME MigrationInv, Calm, UNCHANGED ledger, RunOK', FreshIds', Passes,
         KeepUsers, KeepProjects, KeepContent, KeepRows, KeepMembers, In("tasks") \subseteq In("tasks")',
         TasksOK',
         run.pc # "owner", run'.pc \notin {"projects", "owner", "scope", "move", "merge"}
  PROVE  MigrationInv'
<1>1. UNCHANGED <<before, removed, edited, cut>>
  BY DEF Calm, history
<1>2. ProjectsOK' /\ ContentOK' /\ UsersOK'
  BY <1>1, ProjectsStay, ContentStays, UsersStay DEF Still, Passes
<1>3. KeptOK' /\ MembersOK'
  BY <1>1, KeptStays, MembersStay DEF KeepUsers, KeepProjects
<1>4. RowsOK'
  BY <1>1, RowsStay
<1> QED BY <1>2, <1>3, <1>4 DEF MigrationInv

LEMMA InsertProject ==
  ASSUME MigrationInv, UNCHANGED <<before, removed>>, NEW doc, "workspace" \in DOMAIN doc, Insert("projects", doc)
  PROVE  /\ FreshIds' /\ KeepUsers /\ KeepProjects /\ KeepTasks /\ KeepAssigned /\ KeepContent
         /\ KeepRows /\ KeepMembers
<1>1. /\ FreshIds' /\ QuietBut({"projects"})
      /\ nextId \notin In("projects") /\ In("projects")' = In("projects") \cup {nextId}
      /\ db'["projects"][nextId] = doc
      /\ \A id \in In("projects") : Doc("projects", id)' = Doc("projects", id)
  BY InsertDocs DEF MigrationInv
<1>2. "projects" \notin MemberNames
  BY Names DEF MemberNames
<1>3. KeepUsers /\ KeepTasks /\ KeepAssigned /\ KeepContent /\ KeepRows /\ KeepMembers
  BY <1>1, <1>2, QuietKeeps DEF MigrationInv
<1>4. Lacking(db, "projects", "workspace")' = Lacking(db, "projects", "workspace")
  BY <1>1 DEF Lacking, Having, Has, In, Doc
<1> QED BY <1>1, <1>3, <1>4 DEF KeepProjects

LEMMA PickTaskKeeps ==
  ASSUME MigrationInv, PickTask, Calm, UNCHANGED ledger
  PROVE  MigrationInv'
<1>1. /\ UNCHANGED <<before, removed, edited, cut>> /\ run.pc = "tasks" /\ ledger = {}
      /\ run.todo = Lacking(db, "tasks", "workspace")
  BY DEF PickTask, RunAt, Calm, history, MigrationInv, RunOK, Stage1, TasksOK
<1>2. CASE run.todo = {} /\ RunTo("comments") /\ Skip
  <2>1. /\ FreshIds' /\ KeepUsers /\ KeepProjects /\ KeepTasks /\ KeepAssigned /\ KeepContent
        /\ KeepRows /\ KeepMembers
    BY <1>1, <1>2, SkipKeepsAll
  <2>2. run'.pc = "comments" /\ db' = db
    BY <1>2 DEF RunTo, Skip
  <2>3. /\ PassStep(1, ProjectPcs) /\ PassStep(2, AssigneePcs) /\ PassStep(1, {"notifications", "attachments"})
        /\ PassStep(1, {"attachments"}) /\ PassStep(1, {}) /\ PassStep(3, {"open"})
        /\ ~Passed(2, AssigneePcs)'
    BY <1>1, <2>2 DEF PassStep, Passed, ProjectPcs, AssigneePcs
  <2>4. RunOK'
    BY <1>1, <2>2 DEF MigrationInv, RunOK, Stage1, Stage2, Stage3
  <2>5. TasksOK'
    <3>1. /\ \A f : Lacking(db, "tasks", f)' = Lacking(db, "tasks", f) /\ Having(db, "tasks", f)' = Having(db, "tasks", f)
          /\ \A t : Doc("tasks", t)' = Doc("tasks", t)
      BY <2>2 DEF Lacking, Having, Has, Ids, Docs, Doc
    <3> QED BY <1>1, <1>2, <2>2, <2>3, <3>1 DEF MigrationInv, TasksOK, AssigneePcs
  <2>6. ProjectsOK' /\ ContentOK' /\ UsersOK'
    BY <1>1, <2>1, <2>2, <2>3, ProjectsStay, ContentStays, UsersStay DEF Still
  <2>7. KeptOK' /\ MembersOK' /\ RowsOK'
    BY <1>1, <2>1, <2>2, KeptStays, MembersStay, RowsStay DEF KeepUsers, KeepProjects, KeepTasks
  <2> QED BY <2>1, <2>4, <2>5, <2>6, <2>7 DEF MigrationInv
<1>3. ASSUME NEW t \in run.todo, NEW pc \in {"inbox", "labels"}, NEW p, NEW left, NEW labels,
             run' = [pc |-> pc, todo |-> run.todo \ {t}, at |-> t, project |-> p, left |-> left, labels |-> labels],
             Skip \/ \E doc : "workspace" \in DOMAIN doc /\ Insert("projects", doc)
      PROVE  MigrationInv'
  <2>1. /\ FreshIds' /\ KeepUsers /\ KeepProjects /\ KeepTasks /\ KeepAssigned /\ KeepContent
        /\ KeepRows /\ KeepMembers
    BY <1>1, <1>3, SkipKeepsAll, InsertProject
  <2>2. Passes /\ ~Passed(1, TaskPcs)' /\ ~Passed(2, AssigneePcs)'
    BY <1>1, <1>3 DEF Passes, PassStep, Passed, ProjectPcs, TaskPcs, AssigneePcs
  <2>3. RunOK'
    BY <1>1, <1>3 DEF MigrationInv, RunOK, Stage1, Stage2, Stage3
  <2>4. TasksOK'
    <3>1. Lacking(db, "tasks", "workspace")' = Lacking(db, "tasks", "workspace")
          /\ Having(db, "tasks", "workspace") \subseteq Having(db, "tasks", "workspace")'
      BY <2>1 DEF KeepTasks, Lacking, Having, In
    <3>2. \A x \in DOMAIN edited : edited[x] # None =>
            /\ x \in Having(db, "tasks", "workspace")' \cap Having(db, "tasks", "assignees")'
            /\ Doc("tasks", x)'.assignees = edited[x]
      BY <2>1, <3>1 DEF MigrationInv, TasksOK, KeepAssigned
    <3> QED BY <1>1, <1>3, <2>2, <3>1, <3>2 DEF TasksOK, TaskPcs, AssigneePcs
  <2> QED BY <1>1, <1>3, <2>1, <2>2, <2>3, <2>4, TaskLoopKeeps DEF KeepTasks
<1>4. ASSUME NEW t \in run.todo,
             LET doc == Doc("tasks", t)
                 u == doc.createdBy
                 step(pc, p) == run' = [pc |-> pc, todo |-> run.todo \ {t}, at |-> t,
                                        project |-> p, left |-> doc.labels, labels |-> {}]
             IN IF doc.project \in Having(db, "projects", "workspace")
                THEN step("labels", doc.project) /\ Skip
                ELSE IF Inbox(u) # {} THEN step("inbox", CHOOSE p \in Inbox(u) : TRUE) /\ Skip
                ELSE /\ step("inbox", nextId)
                     /\ Insert("projects", [workspace |-> Personal(u), name |-> "Inbox",
                                            createdBy |-> u, deletedAt |-> None])
      PROVE  MigrationInv'
  <2>1. PICK pc \in {"inbox", "labels"}, p \in {Doc("tasks", t).project, CHOOSE p \in Inbox(Doc("tasks", t).createdBy) : TRUE, nextId} :
          run' = [pc |-> pc, todo |-> run.todo \ {t}, at |-> t,
                  project |-> p, left |-> Doc("tasks", t).labels, labels |-> {}]
    BY <1>4
  <2>2. PICK doc : doc = [workspace |-> Personal(Doc("tasks", t).createdBy), name |-> "Inbox",
                          createdBy |-> Doc("tasks", t).createdBy, deletedAt |-> None]
    OBVIOUS
  <2>3. "workspace" \in DOMAIN doc
    BY <2>2
  <2>4. Skip \/ Insert("projects", doc)
    BY <1>4, <2>2
  <2> QED BY <1>3, <2>1, <2>3, <2>4
<1> QED BY <1>2, <1>4 DEF PickTask

LEMMA JoinInboxKeeps ==
  ASSUME MigrationInv, JoinInbox, Calm, UNCHANGED ledger
  PROVE  MigrationInv'
<1>1. /\ UNCHANGED <<before, removed, edited, cut>> /\ run.pc = "inbox" /\ ledger = {}
      /\ DOMAIN run = {"pc", "todo", "at", "project", "left", "labels"}
      /\ run' = [run EXCEPT !.pc = "labels"]
  BY DEF JoinInbox, RunAt, Calm, history, MigrationInv, RunOK, Stage1
<1>2. run'.pc = "labels" /\ run'.todo = run.todo /\ run'.at = run.at /\ DOMAIN run' = DOMAIN run
  BY <1>1
<1>3. \E p, w, u : Join(p, w, u)
  BY DEF JoinInbox
<1>4. /\ FreshIds' /\ KeepUsers /\ KeepProjects /\ KeepTasks /\ KeepAssigned /\ KeepContent
      /\ KeepRows /\ KeepMembers
  BY <1>1, <1>3, JoinKeeps
<1>5. Passes /\ ~Passed(1, TaskPcs)' /\ ~Passed(2, AssigneePcs)'
  BY <1>1, <1>2 DEF Passes, PassStep, Passed, ProjectPcs, TaskPcs, AssigneePcs
<1>6. RunOK'
  BY <1>1, <1>2 DEF MigrationInv, RunOK, Stage1, Stage2, Stage3
<1>7. TasksOK'
  <2>1. Lacking(db, "tasks", "workspace")' = Lacking(db, "tasks", "workspace")
        /\ Having(db, "tasks", "workspace") \subseteq Having(db, "tasks", "workspace")'
    BY <1>4 DEF KeepTasks, Lacking, Having, In
  <2>2. \A x \in DOMAIN edited : edited[x] # None =>
          /\ x \in Having(db, "tasks", "workspace")' \cap Having(db, "tasks", "assignees")'
          /\ Doc("tasks", x)'.assignees = edited[x]
    BY <1>4, <2>1 DEF MigrationInv, TasksOK, KeepAssigned
  <2> QED BY <1>1, <1>2, <1>5, <2>1, <2>2 DEF MigrationInv, TasksOK, TaskPcs, AssigneePcs
<1> QED BY <1>1, <1>2, <1>4, <1>5, <1>6, <1>7, TaskLoopKeeps DEF KeepTasks

LEMMA UpsertLabelKeeps ==
  ASSUME MigrationInv, UpsertLabel, Calm, UNCHANGED ledger
  PROVE  MigrationInv'
<1>1. /\ UNCHANGED <<before, removed, edited, cut>> /\ run.pc = "labels" /\ ledger = {}
      /\ DOMAIN run = {"pc", "todo", "at", "project", "left", "labels"}
  BY DEF UpsertLabel, RunAt, Calm, history, MigrationInv, RunOK, Stage1
<1>2. PICK name, id : run' = [run EXCEPT !.left = @ \ {name}, !.labels = @ \cup {id}]
  BY DEF UpsertLabel
<1>3. run'.pc = "labels" /\ run'.todo = run.todo /\ run'.at = run.at /\ DOMAIN run' = DOMAIN run
  BY <1>1, <1>2
<1>4. Skip \/ \E doc : Insert("labels", doc)
  BY DEF UpsertLabel
<1>5. /\ FreshIds' /\ KeepUsers /\ KeepProjects /\ KeepTasks /\ KeepAssigned /\ KeepContent
      /\ KeepRows /\ KeepMembers
  BY <1>1, <1>4, SkipKeepsAll, InsertKeeps
<1>6. Passes /\ ~Passed(1, TaskPcs)' /\ ~Passed(2, AssigneePcs)'
  BY <1>1, <1>3 DEF Passes, PassStep, Passed, ProjectPcs, TaskPcs, AssigneePcs
<1>7. RunOK'
  BY <1>1, <1>3 DEF MigrationInv, RunOK, Stage1, Stage2, Stage3
<1>8. TasksOK'
  <2>1. Lacking(db, "tasks", "workspace")' = Lacking(db, "tasks", "workspace")
        /\ Having(db, "tasks", "workspace") \subseteq Having(db, "tasks", "workspace")'
    BY <1>5 DEF KeepTasks, Lacking, Having, In
  <2>2. \A x \in DOMAIN edited : edited[x] # None =>
          /\ x \in Having(db, "tasks", "workspace")' \cap Having(db, "tasks", "assignees")'
          /\ Doc("tasks", x)'.assignees = edited[x]
    BY <1>5, <2>1 DEF MigrationInv, TasksOK, KeepAssigned
  <2> QED BY <1>1, <1>3, <1>6, <2>1, <2>2 DEF MigrationInv, TasksOK, TaskPcs, AssigneePcs
<1> QED BY <1>1, <1>3, <1>5, <1>6, <1>7, <1>8, TaskLoopKeeps DEF KeepTasks

LEMMA TasksUpdated ==
  ASSUME MigrationInv, UNCHANGED <<before, removed>>, NEW docs, Write(Put("tasks", docs)),
         DOMAIN docs = In("tasks")
  PROVE  /\ FreshIds' /\ KeepUsers /\ KeepProjects /\ KeepContent /\ KeepRows /\ KeepMembers
         /\ In("tasks")' = In("tasks") /\ \A t \in In("tasks") : Doc("tasks", t)' = docs[t]
         /\ \A f : /\ Having(db, "tasks", f) = {t \in In("tasks") : f \in DOMAIN Doc("tasks", t)}
                   /\ Having(db, "tasks", f)' = {t \in In("tasks") : f \in DOMAIN docs[t]}
                   /\ Lacking(db, "tasks", f) = {t \in In("tasks") : f \notin DOMAIN Doc("tasks", t)}
                   /\ Lacking(db, "tasks", f)' = {t \in In("tasks") : f \notin DOMAIN docs[t]}
<1>1. Docs(db, "tasks")' = docs /\ QuietBut({"tasks"}) /\ FreshIds'
  BY UpdateDocs DEF MigrationInv
<1>2. "tasks" \notin MemberNames
  BY Names DEF MemberNames
<1>3. KeepUsers /\ KeepProjects /\ KeepContent /\ KeepRows /\ KeepMembers
  BY <1>1, <1>2, QuietKeeps DEF MigrationInv
<1>4. In("tasks")' = In("tasks")
  BY <1>1 DEF In, Ids
<1>5. \A t \in In("tasks") : Doc("tasks", t)' = docs[t]
  BY <1>1, <1>4, DocsRead DEF In, Doc
<1>6. \A f : /\ Having(db, "tasks", f) = {t \in In("tasks") : f \in DOMAIN Doc("tasks", t)}
             /\ Lacking(db, "tasks", f) = {t \in In("tasks") : f \notin DOMAIN Doc("tasks", t)}
  BY DEF Having, Lacking, Has, In, Doc
<1>7. \A f : /\ Having(db, "tasks", f)' = {t \in In("tasks") : f \in DOMAIN docs[t]}
             /\ Lacking(db, "tasks", f)' = {t \in In("tasks") : f \notin DOMAIN docs[t]}
  BY <1>4, <1>5 DEF Having, Lacking, Has, In, Doc
<1> QED BY <1>1, <1>3, <1>4, <1>5, <1>6, <1>7

LEMMA MoveTaskKeeps ==
  ASSUME MigrationInv, MoveTask, Calm, UNCHANGED ledger
  PROVE  MigrationInv'
<1>1. /\ UNCHANGED <<before, removed, edited, cut>> /\ run.pc = "labels" /\ ledger = {}
      /\ run'.pc = "tasks" /\ run'.todo = run.todo
      /\ run.at \notin run.todo /\ run.todo \cup {run.at} = Lacking(db, "tasks", "workspace")
  BY DEF MoveTask, RunAt, Loop, Calm, history, MigrationInv, RunOK, Stage1, TasksOK
<1>2. PICK at : at = run.at
  OBVIOUS
<1>3. PICK docs : /\ Write(Put("tasks", docs)) /\ DOMAIN docs = In("tasks")
                  /\ at \in In("tasks") => "workspace" \in DOMAIN docs[at]
                  /\ \A t \in In("tasks") : t # at => docs[t] = Doc("tasks", t)
  <2> DEFINE New(t) ==
       Over([workspace |-> Doc("projects", run.project).workspace, project |-> run.project,
             parentTask |-> None, labels |-> run.labels,
             assignee |-> IF t.assignedTo = t.createdBy THEN t.assignedTo ELSE None,
             deletedAt |-> IF t.isDeleted THEN "then" ELSE None],
            Unset(t, {"assignedTo", "isDeleted"}))
  <2>1. PICK docs : docs = [d \in Ids(db, "tasks") |-> IF d \in {run.at} THEN New(db["tasks"][d]) ELSE db["tasks"][d]]
    OBVIOUS
  <2>2. Write(Put("tasks", docs))
    BY <2>1 DEF MoveTask, Update
  <2>3. \A t : "workspace" \in DOMAIN New(t)
    BY DEF Over
  <2> HIDE DEF New
  <2> QED BY <1>2, <2>1, <2>2, <2>3 DEF In, Doc
<1>4. /\ FreshIds' /\ KeepUsers /\ KeepProjects /\ KeepContent /\ KeepRows /\ KeepMembers
      /\ In("tasks")' = In("tasks") /\ \A t \in In("tasks") : Doc("tasks", t)' = docs[t]
      /\ \A f : /\ Having(db, "tasks", f) = {t \in In("tasks") : f \in DOMAIN Doc("tasks", t)}
                /\ Having(db, "tasks", f)' = {t \in In("tasks") : f \in DOMAIN docs[t]}
                /\ Lacking(db, "tasks", f) = {t \in In("tasks") : f \notin DOMAIN Doc("tasks", t)}
                /\ Lacking(db, "tasks", f)' = {t \in In("tasks") : f \notin DOMAIN docs[t]}
  BY <1>1, <1>3, TasksUpdated
<1>5. Passes /\ ~Passed(1, TaskPcs)' /\ ~Passed(2, AssigneePcs)'
  BY <1>1 DEF Passes, PassStep, Passed, ProjectPcs, TaskPcs, AssigneePcs
<1>6. RunOK'
  BY <1>1 DEF MigrationInv, RunOK, Stage1, Stage2, Stage3
<1>7. TasksOK'
  <2>1. Lacking(db, "tasks", "workspace")' = Lacking(db, "tasks", "workspace") \ {at}
    BY <1>1, <1>2, <1>3, <1>4
  <2>2. ASSUME NEW x \in DOMAIN edited, edited[x] # None
        PROVE  /\ x \in Having(db, "tasks", "workspace")' \cap Having(db, "tasks", "assignees")'
               /\ Doc("tasks", x)'.assignees = edited[x]
    <3>1. /\ x \in Having(db, "tasks", "workspace") \cap Having(db, "tasks", "assignees")
          /\ Doc("tasks", x).assignees = edited[x]
      BY <2>2 DEF MigrationInv, TasksOK
    <3>2. x \in In("tasks") /\ x # at
      BY <1>1, <1>2, <3>1 DEF Lacking, Having, In
    <3> QED BY <1>3, <1>4, <3>1, <3>2
  <2> QED BY <1>1, <1>2, <1>5, <2>1, <2>2 DEF MigrationInv, TasksOK, TaskPcs, AssigneePcs
<1> QED BY <1>1, <1>4, <1>5, <1>6, <1>7, TaskLoopKeeps

(* A step that changes what hangs on the tasks.                            *)
LEMMA ContentStepKeeps ==
  ASSUME MigrationInv, Calm, UNCHANGED ledger, NEW S \in SUBSET {"comments", "notifications", "attachments"},
         QuietBut(S), RunOK', FreshIds', ContentOK',
         PassStep(1, ProjectPcs), PassStep(1, TaskPcs), PassStep(2, AssigneePcs), PassStep(3, {"open"}),
         run.pc # "owner", run'.pc \notin {"projects", "owner", "tasks", "inbox", "labels", "move", "merge"}
  PROVE  MigrationInv'
<1>1. UNCHANGED <<before, removed, edited, cut>>
  BY DEF Calm, history
<1>2. S \cap MemberNames = {} /\ S \cap {"users", "projects", "tasks", "projectmembers", "project_members"} = {}
  BY Names DEF MemberNames
<1>3. KeepUsers /\ KeepProjects /\ KeepTasks /\ KeepAssigned /\ KeepRows /\ KeepMembers
  BY <1>1, <1>2, QuietKeeps
<1>4. ProjectsOK' /\ TasksOK' /\ UsersOK'
  BY <1>1, <1>3, ProjectsStay, TasksStay, UsersStay DEF Still
<1>5. KeptOK' /\ MembersOK'
  BY <1>1, <1>3, KeptStays, MembersStay DEF KeepUsers, KeepProjects, KeepTasks
<1>6. RowsOK'
  BY <1>1, <1>3, RowsStay
<1> QED BY <1>4, <1>5, <1>6 DEF MigrationInv

LEMMA Bearing ==
  ASSUME NEW c, NEW docs, Docs(db, c)' = docs
  PROVE  /\ In(c)' = DOMAIN docs
         /\ \A f : /\ Having(db, c, f)' = {id \in DOMAIN docs : f \in DOMAIN docs[id]}
                   /\ Lacking(db, c, f)' = {id \in DOMAIN docs : f \notin DOMAIN docs[id]}
                   /\ Having(db, c, f) = {id \in In(c) : f \in DOMAIN Doc(c, id)}
                   /\ Lacking(db, c, f) = {id \in In(c) : f \notin DOMAIN Doc(c, id)}
<1>1. \A f : /\ Having(db', c, f) = {id \in DOMAIN docs : f \in DOMAIN docs[id]}
             /\ Lacking(db', c, f) = {id \in DOMAIN docs : f \notin DOMAIN docs[id]}
  BY DocsRead
<1> QED BY <1>1 DEF Having, Lacking, Has, In, Ids, Doc

LEMMA WithoutDocs ==
  ASSUME NEW c, NEW ids, Write(Without(c, ids))
  PROVE  \E docs : /\ Write(Put(c, docs)) /\ DOMAIN docs = In(c) \ ids
                   /\ \A id \in In(c) \ ids : docs[id] = Doc(c, id)
<1>1. PICK docs : docs = Unset(Docs(db, c), ids)
  OBVIOUS
<1>2. Write(Put(c, docs))
  BY <1>1 DEF Without
<1>3. DOMAIN docs = In(c) \ ids /\ \A id \in In(c) \ ids : docs[id] = Docs(db, c)[id]
  BY <1>1 DEF Unset, Restrict, In, Ids
<1>4. \A id \in In(c) : Doc(c, id) = Docs(db, c)[id]
  BY DocsRead DEF In, Doc
<1> QED BY <1>2, <1>3, <1>4

LEMMA DeleteCommentsKeeps ==
  ASSUME MigrationInv, DeleteComments, Calm, UNCHANGED ledger
  PROVE  MigrationInv'
<1>1. /\ run.pc = "comments" /\ run'.pc = "scope" /\ run'.todo = Lacking(db', "comments", "workspace")
      /\ ledger = {} /\ UNCHANGED before
  BY DEF DeleteComments, RunAt, Loop, MigrationInv, RunOK, Stage1, Calm, history
<1>2. PICK ids : Write(Without("comments", ids))
  BY DEF DeleteComments
<1>3. PICK docs : /\ Write(Put("comments", docs)) /\ DOMAIN docs = In("comments") \ ids
                  /\ \A id \in In("comments") \ ids : docs[id] = Doc("comments", id)
  BY <1>2, WithoutDocs
<1>4. Docs(db, "comments")' = docs /\ QuietBut({"comments"}) /\ FreshIds'
  BY <1>1, <1>3, UpdateDocs DEF MigrationInv
<1>5. \A f : /\ Having(db, "comments", f)' = {id \in DOMAIN docs : f \in DOMAIN docs[id]}
             /\ Lacking(db, "comments", f)' = {id \in DOMAIN docs : f \notin DOMAIN docs[id]}
             /\ Having(db, "comments", f) = {id \in In("comments") : f \in DOMAIN Doc("comments", id)}
             /\ Lacking(db, "comments", f) = {id \in In("comments") : f \notin DOMAIN Doc("comments", id)}
  BY <1>4, Bearing
<1>6. Passes /\ ~Passed(1, {"notifications", "attachments"})' /\ ~Passed(1, {"attachments"})' /\ ~Passed(1, {})'
  BY <1>1 DEF Passes, PassStep, Passed, ProjectPcs, TaskPcs, AssigneePcs
<1>7. RunOK'
  BY <1>1 DEF MigrationInv, RunOK, Stage1, Stage2, Stage3
<1>8. ContentOK'
  <2>1. Having(db, "comments", "isDeleted")' \subseteq Lacking(db, "comments", "workspace")'
    BY <1>3, <1>5 DEF MigrationInv, ContentOK
  <2> QED BY <1>1, <1>6, <2>1 DEF ContentOK
<1> QED BY <1>1, <1>4, <1>6, <1>7, <1>8, ContentStepKeeps DEF Passes

LEMMA ScopeCommentKeeps ==
  ASSUME MigrationInv, ScopeComment, Calm, UNCHANGED ledger
  PROVE  MigrationInv'
<1>1. run.pc = "scope" /\ ledger = {} /\ UNCHANGED <<before, removed>>
  BY DEF ScopeComment, RunAt, MigrationInv, RunOK, Stage1, Calm, history
<1>2. CASE run.todo = {} /\ RunTo("notifications") /\ Skip
  <2>1. run'.pc = "notifications" /\ db' = db
    BY <1>2 DEF RunTo, Skip
  <2>2. FreshIds' /\ QuietBut({})
    BY <1>1, <1>2, SkipKeeps DEF MigrationInv
  <2>3. /\ PassStep(1, ProjectPcs) /\ PassStep(1, TaskPcs) /\ PassStep(2, AssigneePcs) /\ PassStep(3, {"open"})
        /\ ~Passed(1, {"attachments"})' /\ ~Passed(1, {})'
    BY <1>1, <2>1 DEF PassStep, Passed, ProjectPcs, TaskPcs, AssigneePcs
  <2>4. RunOK'
    BY <1>1, <2>1 DEF MigrationInv, RunOK, Stage1, Stage2, Stage3
  <2>5. ContentOK'
    <3>1. Having(db, "comments", "isDeleted")' = Having(db, "comments", "isDeleted")
          /\ Lacking(db, "comments", "workspace")' = Lacking(db, "comments", "workspace")
      BY <2>1 DEF Lacking, Having, Has, Ids, Docs
    <3> QED BY <1>1, <1>2, <2>1, <2>3, <3>1 DEF MigrationInv, ContentOK
  <2> QED BY <1>1, <2>1, <2>2, <2>3, <2>4, <2>5, ContentStepKeeps
<1>3. ASSUME NEW c \in run.todo, NEW docs, Write(Put("comments", docs)),
             DOMAIN docs \subseteq In("comments"), c \in DOMAIN docs => "isDeleted" \notin DOMAIN docs[c],
             \A id \in DOMAIN docs : id # c => docs[id] = Doc("comments", id),
             Loop("scope", run.todo \ {c})
      PROVE  MigrationInv'
  <2>1. run'.pc = "scope" /\ run'.todo = run.todo \ {c}
    BY <1>3 DEF Loop
  <2>2. Docs(db, "comments")' = docs /\ QuietBut({"comments"}) /\ FreshIds'
    BY <1>1, <1>3, UpdateDocs DEF MigrationInv
  <2>3. \A f : /\ Having(db, "comments", f)' = {id \in DOMAIN docs : f \in DOMAIN docs[id]}
               /\ Lacking(db, "comments", f)' = {id \in DOMAIN docs : f \notin DOMAIN docs[id]}
               /\ Having(db, "comments", f) = {id \in In("comments") : f \in DOMAIN Doc("comments", id)}
               /\ Lacking(db, "comments", f) = {id \in In("comments") : f \notin DOMAIN Doc("comments", id)}
    BY <2>2, Bearing
  <2>4. Passes /\ ~Passed(1, {"notifications", "attachments"})' /\ ~Passed(1, {"attachments"})' /\ ~Passed(1, {})'
    BY <1>1, <2>1 DEF Passes, PassStep, Passed, ProjectPcs, TaskPcs, AssigneePcs
  <2>5. RunOK'
    BY <1>1, <2>1 DEF MigrationInv, RunOK, Stage1, Stage2, Stage3
  <2>6. ContentOK'
    <3>1. Having(db, "comments", "isDeleted")' \subseteq Having(db, "comments", "isDeleted") \ {c}
      BY <1>3, <2>3
    <3>2. Having(db, "comments", "isDeleted")' \subseteq Lacking(db, "comments", "workspace")'
      BY <1>3, <2>3 DEF MigrationInv, ContentOK
    <3> QED BY <1>1, <2>1, <2>4, <3>1, <3>2 DEF MigrationInv, ContentOK
  <2> QED BY <1>1, <2>1, <2>2, <2>4, <2>5, <2>6, ContentStepKeeps DEF Passes
<1>4. ASSUME NEW c \in run.todo, Loop("scope", run.todo \ {c}),
             LET t == Doc("comments", c).task IN
               Write(IF t \in Having(db, "tasks", "workspace")
                     THEN Update("comments", {c}, LAMBDA d :
                            Over([workspace |-> Doc("tasks", t).workspace,
                                  project |-> Doc("tasks", t).project], Unset(d, {"isDeleted"})))
                     ELSE Without("comments", {c}))
      PROVE  MigrationInv'
  <2> DEFINE t == Doc("comments", c).task
             New(d) == Over([workspace |-> Doc("tasks", t).workspace,
                             project |-> Doc("tasks", t).project], Unset(d, {"isDeleted"}))
  <2>1. CASE t \in Having(db, "tasks", "workspace")
    <3>1. PICK docs : docs = [d \in Ids(db, "comments") |-> IF d \in {c} THEN New(db["comments"][d])
                                                            ELSE db["comments"][d]]
      OBVIOUS
    <3>2. Write(Put("comments", docs))
      BY <1>4, <2>1, <3>1 DEF Update
    <3>3. \A d : "isDeleted" \notin DOMAIN New(d)
      BY DEF Over, Unset, Restrict
    <3> HIDE DEF New
    <3>4. /\ DOMAIN docs \subseteq In("comments")
          /\ c \in DOMAIN docs => "isDeleted" \notin DOMAIN docs[c]
          /\ \A id \in DOMAIN docs : id # c => docs[id] = Doc("comments", id)
      BY <3>1, <3>3 DEF In, Doc
    <3> QED BY <1>3, <1>4, <3>2, <3>4
  <2>2. CASE t \notin Having(db, "tasks", "workspace")
    <3>1. Write(Without("comments", {c}))
      BY <1>4, <2>2
    <3>2. PICK docs : /\ Write(Put("comments", docs)) /\ DOMAIN docs = In("comments") \ {c}
                      /\ \A id \in In("comments") \ {c} : docs[id] = Doc("comments", id)
      BY <3>1, WithoutDocs
    <3> QED BY <1>3, <1>4, <3>2
  <2> QED BY <2>1, <2>2
<1> QED BY <1>2, <1>4 DEF ScopeComment

LEMMA DeleteUnreachableKeeps ==
  ASSUME MigrationInv, DeleteUnreachable, Calm, UNCHANGED ledger
  PROVE  MigrationInv'
<1>0. UNCHANGED before
  BY DEF Calm, history
<1>1. ASSUME NEW c \in {"notifications", "attachments"}, NEW f, NEW pc, NEW next,
             run.pc = pc, run' = [pc |-> next], Write(Without(c, Lacking(db, c, f))), RunOK', pc # "owner",
             pc \notin {"record", "scope"}, next \in {"attachments", "record"},
             PassStep(1, ProjectPcs), PassStep(1, TaskPcs), PassStep(2, AssigneePcs), PassStep(3, {"open"}),
             PassStep(1, {"notifications", "attachments"}),
             ContentOK /\ QuietBut({c}) /\ Lacking(db, c, f)' = {} => ContentOK'
      PROVE  MigrationInv'
  <2>1. PICK ids : ids = Lacking(db, c, f)
    OBVIOUS
  <2>2. PICK docs : /\ Write(Put(c, docs)) /\ DOMAIN docs = In(c) \ ids
                    /\ \A id \in In(c) \ ids : docs[id] = Doc(c, id)
    <3>1. Write(Without(c, ids))
      BY <1>1, <2>1
    <3> QED BY <3>1, WithoutDocs
  <2>3. Docs(db, c)' = docs /\ QuietBut({c}) /\ FreshIds'
    BY <1>0, <2>2, UpdateDocs DEF MigrationInv
  <2>4. Lacking(db, c, f)' = {}
    BY <2>1, <2>2, <2>3, Bearing
  <2>5. ContentOK'
    BY <1>1, <2>3, <2>4 DEF MigrationInv
  <2> QED BY <1>1, <2>3, <2>5, ContentStepKeeps
<1>2. CASE RunAt("notifications") /\ Write(Without("notifications", Lacking(db, "notifications", "recipient")))
           /\ RunTo("attachments")
  <2>1. run.pc = "notifications" /\ run' = [pc |-> "attachments"] /\ ledger = {}
    BY <1>2 DEF RunAt, RunTo, MigrationInv, RunOK, Stage1
  <2>2. RunOK'
    BY <2>1 DEF MigrationInv, RunOK, Stage1, Stage2, Stage3
  <2>3. /\ PassStep(1, ProjectPcs) /\ PassStep(1, TaskPcs) /\ PassStep(2, AssigneePcs) /\ PassStep(3, {"open"})
        /\ PassStep(1, {"notifications", "attachments"}) /\ ~Passed(1, {})'
    BY <2>1 DEF PassStep, Passed, ProjectPcs, TaskPcs, AssigneePcs
  <2>4. ASSUME ContentOK, QuietBut({"notifications"}), Lacking(db, "notifications", "recipient")' = {}
        PROVE  ContentOK'
    <3>1. \A f : /\ Having(db, "comments", f)' = Having(db, "comments", f)
                 /\ Lacking(db, "comments", f)' = Lacking(db, "comments", f)
      BY <2>4, QuietSame DEF QuietBut
    <3> QED BY <2>1, <2>3, <2>4, <3>1 DEF ContentOK, PassStep
  <2> QED BY <1>1, <1>2, <2>1, <2>2, <2>3, <2>4
<1>3. CASE RunAt("attachments") /\ Write(Without("attachments", Lacking(db, "attachments", "storageKey")))
           /\ RunTo("record")
  <2>1. run.pc = "attachments" /\ run' = [pc |-> "record"] /\ ledger = {}
    BY <1>3 DEF RunAt, RunTo, MigrationInv, RunOK, Stage1
  <2>2. RunOK'
    BY <2>1 DEF MigrationInv, RunOK, Stage1, Stage2, Stage3
  <2>3. /\ PassStep(1, ProjectPcs) /\ PassStep(1, TaskPcs) /\ PassStep(2, AssigneePcs) /\ PassStep(3, {"open"})
        /\ PassStep(1, {"notifications", "attachments"}) /\ PassStep(1, {"attachments"})
    BY <2>1 DEF PassStep, Passed, ProjectPcs, TaskPcs, AssigneePcs, Pending
  <2>4. ASSUME ContentOK, QuietBut({"attachments"}), Lacking(db, "attachments", "storageKey")' = {}
        PROVE  ContentOK'
    <3>1. \A f : /\ Having(db, "comments", f)' = Having(db, "comments", f)
                 /\ Lacking(db, "comments", f)' = Lacking(db, "comments", f)
                 /\ Lacking(db, "notifications", f)' = Lacking(db, "notifications", f)
      BY <2>4, QuietSame DEF QuietBut
    <3> QED BY <2>1, <2>3, <2>4, <3>1 DEF ContentOK, PassStep
  <2> QED BY <1>1, <1>3, <2>1, <2>2, <2>3, <2>4
<1> QED BY <1>2, <1>3 DEF DeleteUnreachable

(* 002. *)
LEMMA TasksRewritten ==
  ASSUME MigrationInv, UNCHANGED <<before, removed>>, NEW docs, Write(Put("tasks", docs)), DOMAIN docs = In("tasks"),
         \A t \in In("tasks") : "workspace" \in DOMAIN docs[t] <=> "workspace" \in DOMAIN Doc("tasks", t),
         \A t \in In("tasks") : "assignee" \in DOMAIN docs[t] => "assignee" \in DOMAIN Doc("tasks", t),
         \A t \in In("tasks") : "assignees" \in DOMAIN Doc("tasks", t) =>
           "assignees" \in DOMAIN docs[t] /\ docs[t].assignees = Doc("tasks", t).assignees
  PROVE  /\ FreshIds' /\ KeepUsers /\ KeepProjects /\ KeepTasks /\ KeepAssigned /\ KeepContent
         /\ KeepRows /\ KeepMembers
         /\ Having(db, "tasks", "assignee")' = {t \in In("tasks") : "assignee" \in DOMAIN docs[t]}
<1>1. /\ FreshIds' /\ KeepUsers /\ KeepProjects /\ KeepContent /\ KeepRows /\ KeepMembers
      /\ In("tasks")' = In("tasks") /\ \A t \in In("tasks") : Doc("tasks", t)' = docs[t]
      /\ \A f : /\ Having(db, "tasks", f) = {t \in In("tasks") : f \in DOMAIN Doc("tasks", t)}
                /\ Having(db, "tasks", f)' = {t \in In("tasks") : f \in DOMAIN docs[t]}
                /\ Lacking(db, "tasks", f) = {t \in In("tasks") : f \notin DOMAIN Doc("tasks", t)}
                /\ Lacking(db, "tasks", f)' = {t \in In("tasks") : f \notin DOMAIN docs[t]}
  BY TasksUpdated
<1>2. Lacking(db, "tasks", "workspace")' = Lacking(db, "tasks", "workspace")
  BY <1>1
<1>3. KeepTasks
  BY <1>1, <1>2 DEF KeepTasks
<1>4. KeepAssigned
  BY <1>1 DEF KeepAssigned
<1> QED BY <1>1, <1>3, <1>4

LEMMA ConvertAssigneesKeeps ==
  ASSUME MigrationInv, ConvertAssignees, Calm, UNCHANGED ledger
  PROVE  MigrationInv'
<1>0. UNCHANGED <<before, removed, edited, cut>>
  BY DEF Calm, history
<1>1. CASE /\ RunAt("assignees") /\ RunTo("assignee")
           /\ Write(Update("tasks", Unconverted, LAMBDA t :
                Over([assignees |-> Assignees(t.assignee)], Unset(t, {"assignee", "assignees"}))))
  <2> DEFINE New(t) == Over([assignees |-> Assignees(t.assignee)], Unset(t, {"assignee", "assignees"}))
  <2>1. run.pc = "assignees" /\ run'.pc = "assignee" /\ ledger = {1}
    BY <1>1 DEF RunAt, RunTo, MigrationInv, RunOK, Stage2
  <2>2. PICK docs : docs = [d \in Ids(db, "tasks") |-> IF d \in Unconverted THEN New(db["tasks"][d])
                                                       ELSE db["tasks"][d]]
    OBVIOUS
  <2>3. Write(Put("tasks", docs)) /\ DOMAIN docs = In("tasks")
    BY <1>1, <2>2 DEF Update, In
  <2>4. \A t : DOMAIN New(t) = {"assignees"} \cup (DOMAIN t \ {"assignee", "assignees"})
    BY DEF Over, Unset, Restrict
  <2>5. \A t \in Unconverted : "assignees" \notin DOMAIN Doc("tasks", t)
    BY DEF Unconverted, Lacking, Having, Has, Doc
  <2> HIDE DEF New
  <2>6. \A t \in In("tasks") : docs[t] = IF t \in Unconverted THEN New(Doc("tasks", t)) ELSE Doc("tasks", t)
    BY <2>2 DEF In, Doc
  <2>7. /\ FreshIds' /\ KeepUsers /\ KeepProjects /\ KeepTasks /\ KeepAssigned /\ KeepContent
        /\ KeepRows /\ KeepMembers
    <3>1. \A t \in In("tasks") : "workspace" \in DOMAIN docs[t] <=> "workspace" \in DOMAIN Doc("tasks", t)
      BY <2>4, <2>6
    <3>2. \A t \in In("tasks") : "assignee" \in DOMAIN docs[t] => "assignee" \in DOMAIN Doc("tasks", t)
      BY <2>4, <2>6
    <3>3. \A t \in In("tasks") : "assignees" \in DOMAIN Doc("tasks", t) =>
           "assignees" \in DOMAIN docs[t] /\ docs[t].assignees = Doc("tasks", t).assignees
      BY <2>5, <2>6
    <3> QED BY <1>0, <2>3, <3>1, <3>2, <3>3, TasksRewritten
  <2>8. Passes
    BY <2>1 DEF Passes, PassStep, Passed, ProjectPcs, TaskPcs, AssigneePcs
  <2>9. RunOK'
    BY <2>1 DEF MigrationInv, RunOK, Stage1, Stage2, Stage3
  <2> QED BY <2>1, <2>7, <2>8, <2>9, OrdinaryStep
<1>2. CASE /\ RunAt("assignee") /\ RunTo("unassigned")
           /\ Write(Update("tasks", In("tasks"), LAMBDA t : Unset(t, {"assignee"})))
  <2>1. run.pc = "assignee" /\ run'.pc = "unassigned" /\ ledger = {1}
    BY <1>2 DEF RunAt, RunTo, MigrationInv, RunOK, Stage2
  <2>2. PICK docs : docs = [d \in Ids(db, "tasks") |-> IF d \in In("tasks") THEN Unset(db["tasks"][d], {"assignee"})
                                                       ELSE db["tasks"][d]]
    OBVIOUS
  <2>3. Write(Put("tasks", docs)) /\ DOMAIN docs = In("tasks")
    BY <1>2, <2>2 DEF Update, In
  <2>4. \A t \in In("tasks") : /\ DOMAIN docs[t] = DOMAIN Doc("tasks", t) \ {"assignee"}
                               /\ \A f \in DOMAIN docs[t] : docs[t][f] = Doc("tasks", t)[f]
    BY <2>2 DEF In, Doc, Unset, Restrict
  <2>5. /\ FreshIds' /\ KeepUsers /\ KeepProjects /\ KeepTasks /\ KeepAssigned /\ KeepContent
        /\ KeepRows /\ KeepMembers
        /\ Having(db, "tasks", "assignee")' = {t \in In("tasks") : "assignee" \in DOMAIN docs[t]}
    <3>1. \A t \in In("tasks") : "assignees" \in DOMAIN Doc("tasks", t) =>
           "assignees" \in DOMAIN docs[t] /\ docs[t].assignees = Doc("tasks", t).assignees
      BY <2>4
    <3>2. \A t \in In("tasks") : "workspace" \in DOMAIN docs[t] <=> "workspace" \in DOMAIN Doc("tasks", t)
      BY <2>4
    <3>3. \A t \in In("tasks") : "assignee" \in DOMAIN docs[t] => "assignee" \in DOMAIN Doc("tasks", t)
      BY <2>4
    <3> QED BY <1>0, <2>3, <3>1, <3>2, <3>3, TasksRewritten
  <2>6. /\ PassStep(1, ProjectPcs) /\ PassStep(1, TaskPcs) /\ PassStep(1, {"notifications", "attachments"})
        /\ PassStep(1, {"attachments"}) /\ PassStep(1, {}) /\ PassStep(3, {"open"})
    BY <2>1 DEF PassStep, Passed, ProjectPcs, TaskPcs
  <2>7. RunOK'
    BY <2>1 DEF MigrationInv, RunOK, Stage1, Stage2, Stage3
  <2>8. TasksOK'
    <3>1. /\ Lacking(db, "tasks", "workspace")' = Lacking(db, "tasks", "workspace")
          /\ Having(db, "tasks", "workspace") \subseteq Having(db, "tasks", "workspace")'
      BY <2>5 DEF KeepTasks, Lacking, Having, In
    <3>2. \A x \in DOMAIN edited : edited[x] # None =>
            /\ x \in Having(db, "tasks", "workspace")' \cap Having(db, "tasks", "assignees")'
            /\ Doc("tasks", x)'.assignees = edited[x]
      BY <2>5, <3>1 DEF MigrationInv, TasksOK, KeepAssigned
    <3>3. Having(db, "tasks", "assignee")' = {}
      BY <2>4, <2>5
    <3> QED BY <1>0, <2>1, <2>6, <3>1, <3>2, <3>3 DEF MigrationInv, TasksOK, TaskPcs, PassStep
  <2>9. ProjectsOK' /\ ContentOK' /\ UsersOK'
    BY <1>0, <2>1, <2>5, <2>6, ProjectsStay, ContentStays, UsersStay DEF Still
  <2>10. KeptOK' /\ MembersOK' /\ RowsOK'
    BY <1>0, <2>1, <2>5, KeptStays, MembersStay, RowsStay DEF KeepUsers, KeepProjects, KeepTasks
  <2> QED BY <2>5, <2>7, <2>8, <2>9, <2>10 DEF MigrationInv
<1>3. CASE /\ RunAt("unassigned") /\ RunTo("names")
           /\ Write(Update("tasks", Lacking(db, "tasks", "assignees"), LAMBDA t : Over([assignees |-> {}], t)))
  <2>1. run.pc = "unassigned" /\ run'.pc = "names" /\ ledger = {1}
    BY <1>3 DEF RunAt, RunTo, MigrationInv, RunOK, Stage2
  <2>2. PICK docs : docs = [d \in Ids(db, "tasks") |-> IF d \in Lacking(db, "tasks", "assignees")
                                                       THEN Over([assignees |-> {}], db["tasks"][d])
                                                       ELSE db["tasks"][d]]
    OBVIOUS
  <2>3. Write(Put("tasks", docs)) /\ DOMAIN docs = In("tasks")
    BY <1>3, <2>2 DEF Update, In
  <2>4. \A t \in In("tasks") : DOMAIN docs[t] = DOMAIN Doc("tasks", t) \cup {"assignees"}
                               \/ docs[t] = Doc("tasks", t)
    BY <2>2 DEF In, Doc, Over
  <2>5. \A t \in In("tasks") : "assignees" \in DOMAIN Doc("tasks", t) => docs[t] = Doc("tasks", t)
    BY <2>2 DEF In, Doc, Lacking, Having, Has
  <2>6. /\ FreshIds' /\ KeepUsers /\ KeepProjects /\ KeepTasks /\ KeepAssigned /\ KeepContent
        /\ KeepRows /\ KeepMembers
    <3>1. \A t \in In("tasks") : "workspace" \in DOMAIN docs[t] <=> "workspace" \in DOMAIN Doc("tasks", t)
      BY <2>4
    <3>2. \A t \in In("tasks") : "assignee" \in DOMAIN docs[t] => "assignee" \in DOMAIN Doc("tasks", t)
      BY <2>4
    <3> QED BY <1>0, <2>3, <2>5, <3>1, <3>2, TasksRewritten
  <2>7. Passes
    BY <2>1 DEF Passes, PassStep, Passed, ProjectPcs, TaskPcs, AssigneePcs
  <2>8. RunOK'
    BY <2>1 DEF MigrationInv, RunOK, Stage1, Stage2, Stage3
  <2> QED BY <2>1, <2>6, <2>7, <2>8, OrdinaryStep
<1> QED BY <1>1, <1>2, <1>3 DEF ConvertAssignees

LEMMA NamesKeep ==
  ASSUME MigrationInv, ReadNames \/ RenameUser, Calm, UNCHANGED ledger
  PROVE  MigrationInv'
<1>0. UNCHANGED <<before, removed>>
  BY DEF Calm, history
<1>1. run.pc \in {"names", "rename"} /\ ledger = {1}
  BY DEF ReadNames, RenameUser, RunAt, MigrationInv, RunOK, Stage2
<1>2. /\ run'.pc \in {"rename", "record", "idle"}
      /\ run'.pc = "rename" => DOMAIN run' = {"pc", "todo", "taken"}
  <2>1. CASE ReadNames
    BY <2>1 DEF ReadNames
  <2>2. CASE RenameUser
    <3>1. run.pc = "rename" /\ DOMAIN run = {"pc", "todo", "taken"}
      BY <2>2 DEF RenameUser, RunAt, MigrationInv, RunOK
    <3>2. \/ run' = [pc |-> "record"] \/ run' = NoRun
          \/ \E u, name : run' = [run EXCEPT !.todo = @ \ {u}, !.taken = @ \cup {name}]
      BY <2>2 DEF RenameUser, RunTo, Abort
    <3>3. ASSUME NEW u, NEW name, run' = [run EXCEPT !.todo = @ \ {u}, !.taken = @ \cup {name}]
          PROVE  run'.pc = "rename" /\ DOMAIN run' = {"pc", "todo", "taken"}
      BY <3>1, <3>3
    <3>4. run' = [pc |-> "record"] \/ run' = NoRun => run'.pc \in {"record", "idle"}
      BY DEF NoRun
    <3> QED BY <3>2, <3>3, <3>4
  <2> QED BY <2>1, <2>2
<1>3. Passes
  BY <1>1, <1>2 DEF Passes, PassStep, Passed, ProjectPcs, TaskPcs, AssigneePcs, Pending
<1>4. RunOK'
  BY <1>1, <1>2 DEF MigrationInv, RunOK, Stage1, Stage2, Stage3
<1>5. /\ FreshIds' /\ KeepUsers /\ KeepProjects /\ KeepTasks /\ KeepAssigned /\ KeepContent
      /\ KeepRows /\ KeepMembers
  <2>1. CASE Skip
    BY <1>0, <2>1, SkipKeepsAll
  <2>2. ASSUME NEW u, NEW name,
               Write(Put("users", [d \in Ids(db, "users") |-> IF d \in {u} THEN [db["users"][d] EXCEPT !.userName = name]
                                                             ELSE db["users"][d]]))
        PROVE  /\ FreshIds' /\ KeepUsers /\ KeepProjects /\ KeepTasks /\ KeepAssigned /\ KeepContent
               /\ KeepRows /\ KeepMembers
    <3>1. PICK docs : docs = [d \in Ids(db, "users") |-> IF d \in {u} THEN [db["users"][d] EXCEPT !.userName = name]
                                                        ELSE db["users"][d]]
      OBVIOUS
    <3>2. Write(Put("users", docs))
      BY <2>2, <3>1
    <3>3. DOMAIN docs = In("users") /\ \A v \in In("users") : DOMAIN docs[v] = DOMAIN Doc("users", v)
      BY <3>1 DEF In, Doc
    <3> QED BY <1>0, <3>2, <3>3, UsersUpdated
  <2>3. Skip \/ \E u, name :
                 Write(Put("users", [d \in Ids(db, "users") |-> IF d \in {u} THEN [db["users"][d] EXCEPT !.userName = name]
                                                              ELSE db["users"][d]]))
    <3>1. CASE ReadNames
      BY <3>1 DEF ReadNames
    <3>2. CASE RenameUser
      BY <3>2 DEF RenameUser, Abort, Update
    <3> QED BY <3>1, <3>2
  <2> QED BY <2>1, <2>2, <2>3
<1> QED BY <1>1, <1>2, <1>3, <1>4, <1>5, OrdinaryStep

(* 003.  A step from one collection to the next.                           *)
LEMMA RenamingKeeps ==
  ASSUME MigrationInv, Calm, UNCHANGED ledger, run.pc \in {"existing", "move", "merge"},
         run'.pc \in {"idle", "move", "merge", "deletedAt"}, RunOK', FreshIds', MembersOK', KeepRows,
         QuietBut(MemberNames)
  PROVE  MigrationInv'
<1>1. UNCHANGED <<before, removed, edited, cut>> /\ ledger = {1, 2}
  BY DEF Calm, history, MigrationInv, RunOK, Stage3
<1>2. MemberNames \cap {"users", "projects", "tasks", "comments", "notifications", "attachments"} = {}
  BY Names DEF MemberNames
<1>3. KeepUsers /\ KeepProjects /\ KeepTasks /\ KeepAssigned /\ KeepContent
  BY <1>1, <1>2, QuietKeeps DEF MigrationInv
<1>4. Passes
  BY <1>1 DEF Passes, PassStep, Passed, ProjectPcs, TaskPcs, AssigneePcs, Pending
<1>5. ProjectsOK' /\ TasksOK' /\ ContentOK' /\ UsersOK'
  BY <1>1, <1>3, <1>4, ProjectsStay, TasksStay, ContentStays, UsersStay DEF Still, Passes
<1>6. KeptOK' /\ RowsOK'
  BY <1>1, <1>3, KeptStays, RowsStay DEF KeepUsers, KeepProjects, KeepTasks
<1> QED BY <1>5, <1>6 DEF MigrationInv

(* A step that loses no member, and ends or goes on to the next collection. *)
LEMMA MovingOn ==
  ASSUME MigrationInv, Calm, UNCHANGED ledger, run.pc \in {"existing", "move", "merge"}, FreshIds', KeepRows,
         KeepMembers, QuietBut(MemberNames),
         \/ run'.pc \in {"idle", "deletedAt"}
         \/ /\ run'.pc = "move" /\ run'.i \in 1..4
            /\ \A j \in run'.i .. 3 : Renames[j][1] \in run'.existing => Renames[j][1] \in DOMAIN db'
  PROVE  MigrationInv'
<1>1. UNCHANGED before /\ ledger = {1, 2}
  BY DEF Calm, history, MigrationInv, RunOK, Stage3
<1>2. RunOK'
  BY <1>1 DEF MigrationInv, RunOK, Stage1, Stage2, Stage3
<1>3. \A c : Ids(before, c)' = Ids(before, c)
  BY <1>1 DEF Ids, Docs
<1>4. MembersOK'
  <2>1. \A i \in 1..3 :
          Ids(before, Renames[i][1]) \subseteq (In(Renames[i][1]) \cup In(Renames[i][2]) \cup removed)'
    BY DEF MigrationInv, MembersOK, KeepMembers
  <2>2. run'.pc # "merge"
    OBVIOUS
  <2> QED BY <1>3, <2>1, <2>2 DEF MembersOK
<1> QED BY <1>2, <1>4, RenamingKeeps

LEMMA ExistingKeeps ==
  ASSUME MigrationInv, Existing, Calm, UNCHANGED ledger
  PROVE  MigrationInv'
<1>1. /\ run.pc = "existing" /\ run'.pc = "move" /\ run'.i = 1 /\ run'.existing = DOMAIN db /\ db' = db
      /\ UNCHANGED <<before, removed>>
  BY DEF Existing, RunAt, Skip, Calm, history
<1>2. FreshIds' /\ KeepRows /\ KeepMembers /\ QuietBut({})
  BY <1>1, SkipKeepsAll, SkipKeeps DEF Existing
<1> QED BY <1>1, <1>2, MovingOn DEF QuietBut

LEMMA OldAndNew ==
  ASSUME NEW i \in 1..3
  PROVE  /\ Renames[i][1] \in MemberNames /\ Renames[i][2] \in MemberNames
         /\ \A j \in 1..3 : Renames[i][1] # Renames[j][2] /\ (j # i => Renames[i][1] # Renames[j][1]
                                                               /\ Renames[i][2] # Renames[j][2])
<1>1. i = 1 \/ i = 2 \/ i = 3
  OBVIOUS
<1>2. \A j \in 1..3 : j = 1 \/ j = 2 \/ j = 3
  OBVIOUS
<1> QED BY <1>1, <1>2, Names DEF MemberNames

LEMMA MoveCollectionKeeps ==
  ASSUME MigrationInv, MoveCollection, Calm, UNCHANGED ledger
  PROVE  MigrationInv'
<1>1. /\ run.pc = "move" /\ run.i \in 1..4 /\ UNCHANGED <<before, removed, edited, cut>>
      /\ \A j \in run.i .. 3 : Renames[j][1] \in run.existing => Renames[j][1] \in DOMAIN db
  BY DEF MoveCollection, RunAt, Calm, history, MigrationInv, RunOK, MembersOK
<1>2. ASSUME Skip, run' = [pc |-> "deletedAt"] \/ run' = NoRun \/ (NextMove /\ run.i \in 1..3)
      PROVE  MigrationInv'
  <2>1. FreshIds' /\ KeepRows /\ KeepMembers /\ QuietBut({}) /\ db' = db
    BY <1>1, <1>2, SkipKeepsAll, SkipKeeps DEF Skip
  <2>2. \/ run'.pc \in {"idle", "deletedAt"}
        \/ /\ run'.pc = "move" /\ run'.i \in 1..4
           /\ \A j \in run'.i .. 3 : Renames[j][1] \in run'.existing => Renames[j][1] \in DOMAIN db'
    BY <1>1, <1>2, <2>1 DEF NoRun, NextMove
  <2> QED BY <1>1, <2>1, <2>2, MovingOn DEF QuietBut
<1>3. ASSUME run.i \in 1..3, run' = [pc |-> "merge", i |-> run.i, existing |-> run.existing, todo |-> In(From)], Skip
      PROVE  MigrationInv'
  <2>1. FreshIds' /\ KeepRows /\ KeepMembers /\ QuietBut({}) /\ db' = db
    BY <1>1, <1>3, SkipKeepsAll, SkipKeeps DEF Skip
  <2>2. run'.pc = "merge" /\ run'.i = run.i /\ run'.existing = run.existing /\ run'.todo = In(From)
        /\ DOMAIN run' = {"pc", "i", "existing", "todo"}
    BY <1>3
  <2>3. In(From)' = In(From)
    BY <2>1, <2>2 DEF From, In, Ids, Docs
  <2>4. \A c : Ids(before, c)' = Ids(before, c)
    BY <1>1 DEF Ids, Docs
  <2>5. \A i \in 1..3 :
          Ids(before, Renames[i][1]) \subseteq (In(Renames[i][1]) \cup In(Renames[i][2]) \cup removed)'
    BY <2>1 DEF MigrationInv, MembersOK, KeepMembers
  <2>6. \A j \in run'.i .. 3 : Renames[j][1] \in run'.existing => Renames[j][1] \in DOMAIN db'
    BY <1>1, <2>1, <2>2
  <2>7. MembersOK'
    BY <2>2, <2>3, <2>4, <2>5, <2>6 DEF MembersOK
  <2>8. RunOK'
    BY <1>1, <1>3, <2>2 DEF MigrationInv, RunOK, Stage1, Stage2, Stage3
  <2> QED BY <1>1, <2>1, <2>2, <2>7, <2>8, RenamingKeeps DEF QuietBut
<1>4. ASSUME run.i \in 1..3, From \in run.existing, To \notin DOMAIN db, NextMove,
             Write(Over([c \in {To} |-> db[From]], Unset(db, {From})))
      PROVE  MigrationInv'
  <2>1. PICK old, new : old = From /\ new = To
    OBVIOUS
  <2>2. /\ old \in MemberNames /\ new \in MemberNames /\ old # new /\ old \in DOMAIN db /\ new \notin DOMAIN db
        /\ old = Renames[run.i][1] /\ new = Renames[run.i][2]
    BY <1>1, <1>4, <2>1, OldAndNew DEF From, To
  <2>3. /\ DOMAIN db' = {new} \cup (DOMAIN db \ {old}) /\ db'[new] = db[old]
        /\ \A c \in DOMAIN db \ {old} : db'[c] = db[c]
        /\ nextId' = nextId
    BY <1>4, <2>1, <2>2 DEF Write, Over, Unset, Restrict
  <2>4. QuietBut(MemberNames)
    BY <2>2, <2>3 DEF QuietBut, Docs
  <2>5. FreshIds'
    BY <1>1, <2>2, <2>3 DEF MigrationInv, FreshIds
  <2>6. /\ In(new)' = In(old) /\ In(new) = {} /\ \A c : c # old /\ c # new => In(c)' = In(c)
        /\ \A id \in In(old) : Doc(new, id)' = Doc(old, id)
        /\ \A c \in DOMAIN db : c # old => \A id : Doc(c, id)' = Doc(c, id)
    BY <2>2, <2>3 DEF In, Ids, Docs, Doc, Empty
  <2>7. KeepRows
    <3> SUFFICES ASSUME NEW p, NEW u, ProjectRow(db, p, u) PROVE ProjectRow(db', p, u)
      BY DEF KeepRows
    <3>0. PICK c \in {"projectmembers", "project_members"} :
            \E m \in In(c) : Doc(c, m).project = p /\ Doc(c, m).user = u
      BY DEF ProjectRow, In, Doc
    <3>1. PICK m \in In(c) : Doc(c, m).project = p /\ Doc(c, m).user = u
      BY <3>0
    <3>2. c \in DOMAIN db
      BY <3>1 DEF In, Ids, Docs, Empty
    <3>3. CASE c = old
      <4>1. new = "project_members"
        <5>1. run.i = 3
          BY <1>4, <2>2, <3>1, <3>3, OldAndNew, Names
        <5> QED BY <2>2, <5>1, Names
      <4> QED BY <2>6, <3>1, <3>3, <4>1 DEF ProjectRow, In, Doc
    <3>4. CASE c # old
      BY <2>2, <2>6, <3>1, <3>2, <3>4 DEF ProjectRow, In, Doc
    <3> QED BY <3>3, <3>4
  <2>8. KeepMembers
    <3> SUFFICES ASSUME NEW i \in 1..3
                 PROVE  In(Renames[i][1]) \cup In(Renames[i][2]) \cup removed
                          \subseteq (In(Renames[i][1]) \cup In(Renames[i][2]) \cup removed)'
      BY DEF KeepMembers
    <3>1. PICK a, b : a = Renames[i][1] /\ b = Renames[i][2]
      OBVIOUS
    <3>2. CASE i = run.i
      BY <1>1, <2>2, <2>6, <3>1, <3>2
    <3>3. CASE i # run.i
      <4>1. a # old /\ a # new /\ b # old /\ b # new
        BY <1>4, <2>2, <3>1, <3>3, OldAndNew
      <4> QED BY <1>1, <2>6, <3>1, <4>1
    <3> QED BY <3>2, <3>3
  <2>9. /\ run'.pc = "move" /\ run'.i = run.i + 1 /\ run'.existing = run.existing
    BY <1>4 DEF NextMove
  <2>10. \A j \in run'.i .. 3 : Renames[j][1] \in run'.existing => Renames[j][1] \in DOMAIN db'
    <3> SUFFICES ASSUME NEW j \in run'.i .. 3, Renames[j][1] \in run'.existing
                 PROVE  Renames[j][1] \in DOMAIN db'
      OBVIOUS
    <3>1. j \in 1..3 /\ j # run.i /\ j \in run.i .. 3
      BY <1>4, <2>9
    <3>2. Renames[j][1] # old
      BY <1>4, <2>2, <3>1, OldAndNew
    <3> QED BY <1>1, <2>3, <2>9, <3>1, <3>2
  <2> QED BY <1>1, <1>4, <2>4, <2>5, <2>7, <2>8, <2>9, <2>10, MovingOn
<1>5. \/ Skip /\ (run' = [pc |-> "deletedAt"] \/ run' = NoRun \/ (NextMove /\ run.i \in 1..3))
      \/ run.i \in 1..3 /\ Skip
         /\ run' = [pc |-> "merge", i |-> run.i, existing |-> run.existing, todo |-> In(From)]
      \/ run.i \in 1..3 /\ From \in run.existing /\ To \notin DOMAIN db /\ NextMove
         /\ Write(Over([c \in {To} |-> db[From]], Unset(db, {From})))
  BY <1>1 DEF MoveCollection, Abort, RunTo
<1> QED BY <1>2, <1>3, <1>4, <1>5

(* A document is added.                                                    *)
LEMMA AddDocs ==
  ASSUME NEW c, NEW id, NEW doc, db' = With(c, id, doc)
  PROVE  /\ QuietBut({c}) /\ In(c)' = In(c) \cup {id} /\ Doc(c, id)' = doc
         /\ \A e \in In(c) : e # id => Doc(c, e)' = Doc(c, e)
         /\ DOMAIN db' = DOMAIN db \cup {c}
         /\ FreshIds /\ UNCHANGED before /\ nextId' \in Nat /\ nextId <= nextId' /\ id \in Nat /\ id < nextId'
              => FreshIds'
<1>1. PICK docs : docs = Added(c, id, doc)
  OBVIOUS
<1>2. db' = Put(c, docs)
  BY <1>1 DEF With
<1>3. /\ DOMAIN docs = In(c) \cup {id} /\ docs[id] = doc
      /\ \A e \in In(c) : e # id => docs[e] = Docs(db, c)[e]
  BY <1>1 DEF Added, Over, In, Ids
<1>4. /\ Docs(db, c)' = docs /\ QuietBut({c}) /\ db'[c] = docs /\ DOMAIN db' = DOMAIN db \cup {c}
  BY <1>2, PutDocs
<1>5. \A e \in In(c) : Doc(c, e) = Docs(db, c)[e]
  BY DocsRead DEF In, Doc
<1>6. ASSUME FreshIds, UNCHANGED before, nextId' \in Nat, nextId <= nextId', id \in Nat, id < nextId'
      PROVE  FreshIds'
  <2>1. \A e \in In(c) : e \in Nat /\ e < nextId /\ nextId \in Nat
    BY <1>6 DEF FreshIds, In, Ids, Docs, Empty
  <2>2. \A e \in DOMAIN docs : e \in Nat /\ e < nextId'
    BY <1>3, <1>6, <2>1
  <2> QED BY <1>2, <1>6, <2>2, PutDocs
<1>7. In(c)' = DOMAIN docs
  BY <1>4 DEF In, Ids
<1> QED BY <1>3, <1>4, <1>5, <1>6, <1>7 DEF Doc

LEMMA MergeKeeps ==
  ASSUME MigrationInv, Merge, Calm, UNCHANGED ledger
  PROVE  MigrationInv'
<1>1. /\ run.pc = "merge" /\ run.i \in 1..3 /\ DOMAIN run = {"pc", "i", "existing", "todo"}
      /\ UNCHANGED <<before, removed, edited, cut>>
      /\ run.todo \subseteq In(From)
  BY DEF Merge, RunAt, Calm, history, MigrationInv, RunOK, MembersOK
<1>2. CASE Abort
  <2>1. FreshIds' /\ KeepRows /\ KeepMembers /\ QuietBut({}) /\ run'.pc = "idle"
    BY <1>1, <1>2, SkipKeepsAll, SkipKeeps DEF Abort, NoRun
  <2> QED BY <1>1, <2>1, MovingOn DEF QuietBut
<1>3. ASSUME NEW id \in run.todo, ~Clashes(To, id, Doc(From, id)),
             IF id \in In(To) THEN Skip ELSE Write(With(To, id, Doc(From, id))),
             run' = [run EXCEPT !.todo = @ \ {id}]
      PROVE  MigrationInv'
  <2>1. PICK old, new : old = From /\ new = To
    OBVIOUS
  <2>2. /\ old = Renames[run.i][1] /\ new = Renames[run.i][2]
        /\ old \in MemberNames /\ new \in MemberNames /\ old # new
    BY <1>1, <2>1, OldAndNew DEF From, To
  <2>3. /\ run'.pc = "merge" /\ run'.i = run.i /\ run'.existing = run.existing /\ run'.todo = run.todo \ {id}
        /\ DOMAIN run' = {"pc", "i", "existing", "todo"}
    BY <1>1, <1>3
  <2>4. From' = old /\ To' = new
    BY <2>2, <2>3 DEF From, To
  <2>5. id \in In(old) /\ id \in Nat /\ id < nextId /\ nextId \in Nat
    BY <1>1, <1>3, <2>1 DEF MigrationInv, FreshIds, In, Ids, Docs, Empty
  <2>6. /\ FreshIds' /\ QuietBut({new}) /\ In(new)' = In(new) \cup {id}
        /\ \A e \in In(new) : Doc(new, e)' = Doc(new, e)
        /\ Doc(new, id)' = Doc(old, id)
        /\ DOMAIN db \subseteq DOMAIN db'
    <3>1. CASE id \in In(new)
      <4>1. Skip /\ Doc(new, id) = Doc(old, id)
        BY <1>3, <2>1, <3>1 DEF Clashes, Same
      <4>2. FreshIds' /\ QuietBut({})
        BY <1>1, <4>1, SkipKeeps DEF MigrationInv
      <4> QED BY <3>1, <4>1, <4>2 DEF Skip, QuietBut, In, Doc
    <3>2. CASE id \notin In(new)
      <4>1. PICK doc : doc = Doc(old, id)
        OBVIOUS
      <4>2. db' = With(new, id, doc) /\ nextId' = nextId
        BY <1>3, <2>1, <3>2, <4>1 DEF Write
      <4>3. /\ QuietBut({new}) /\ In(new)' = In(new) \cup {id} /\ Doc(new, id)' = doc
            /\ \A e \in In(new) : e # id => Doc(new, e)' = Doc(new, e)
            /\ DOMAIN db' = DOMAIN db \cup {new}
            /\ FreshIds /\ UNCHANGED before /\ nextId' \in Nat /\ nextId <= nextId' /\ id \in Nat /\ id < nextId'
                 => FreshIds'
        BY ONLY <4>2, AddDocs, Zenon
      <4>4. FreshIds'
        BY <1>1, <2>5, <4>2, <4>3 DEF MigrationInv
      <4> QED BY <3>2, <4>1, <4>3, <4>4
    <3> QED BY <3>1, <3>2
  <2>7. \A c : /\ In(c) \subseteq In(c)' /\ \A e \in In(c) : Doc(c, e)' = Doc(c, e)
               /\ c # new => In(c)' = In(c)
    BY <2>6, QuietSame DEF QuietBut
  <2>8. KeepRows
    BY <2>7 DEF KeepRows, ProjectRow, In, Doc
  <2>9. /\ \A i \in 1..3 :
             Ids(before, Renames[i][1]) \subseteq (In(Renames[i][1]) \cup In(Renames[i][2]) \cup removed)'
        /\ \A c : Ids(before, c)' = Ids(before, c)
    BY <1>1, <2>7 DEF MigrationInv, MembersOK, Ids, Docs
  <2>10. \A e \in In(old) \ run'.todo :
            \/ e \in In(new)' /\ (run.i = 3 => Doc(new, e)' = Doc(old, e)')
            \/ run.i # 3 /\ e \in removed'
    <3> SUFFICES ASSUME NEW e \in In(old), e \notin run'.todo
                 PROVE  \/ e \in In(new)' /\ (run.i = 3 => Doc(new, e)' = Doc(old, e)')
                        \/ run.i # 3 /\ e \in removed'
      OBVIOUS
    <3>1. CASE e = id
      BY <2>5, <2>6, <2>7, <3>1
    <3>2. CASE e # id
      <4>1. e \in In(old) \ run.todo
        BY <2>3, <3>2
      <4>2. \/ e \in In(new) /\ (run.i = 3 => Doc(new, e) = Doc(old, e))
            \/ run.i # 3 /\ e \in removed
        BY <1>1, <2>1, <4>1 DEF MigrationInv, MembersOK
      <4> QED BY <1>1, <2>7, <4>2
    <3> QED BY <3>1, <3>2
  <2>11. \A j \in run'.i .. 3 : Renames[j][1] \in run'.existing => Renames[j][1] \in DOMAIN db'
    BY <1>1, <2>3, <2>6 DEF MigrationInv, MembersOK
  <2>12. run'.todo \subseteq In(old)' /\ In(old)' = In(old)
    BY <1>1, <2>1, <2>2, <2>3, <2>7
  <2>13. MembersOK'
    BY <2>3, <2>4, <2>9, <2>10, <2>11, <2>12 DEF MembersOK
  <2>14. RunOK'
    BY <1>1, <2>3 DEF MigrationInv, RunOK, Stage1, Stage2, Stage3
  <2> QED BY <1>1, <2>2, <2>3, <2>6, <2>8, <2>13, <2>14, RenamingKeeps DEF QuietBut
<1>4. Abort \/ \E id \in run.todo :
                  /\ ~Clashes(To, id, Doc(From, id))
                  /\ IF id \in In(To) THEN Skip ELSE Write(With(To, id, Doc(From, id)))
                  /\ run' = [run EXCEPT !.todo = @ \ {id}]
  BY DEF Merge
<1> QED BY <1>2, <1>3, <1>4

LEMMA DropCollectionKeeps ==
  ASSUME MigrationInv, DropCollection, Calm, UNCHANGED ledger
  PROVE  MigrationInv'
<1>1. /\ run.pc = "merge" /\ run.i \in 1..3 /\ run.todo = {}
      /\ UNCHANGED <<before, removed, edited, cut>>
      /\ run'.pc = "move" /\ run'.i = run.i + 1 /\ run'.existing = run.existing
      /\ db' = Unset(db, {From}) /\ nextId' = nextId
  BY DEF DropCollection, Merged, NextMove, Write, RunAt, Calm, history, MigrationInv, RunOK
<1>2. PICK old, new : old = From /\ new = To
  OBVIOUS
<1>3. /\ old = Renames[run.i][1] /\ new = Renames[run.i][2]
      /\ old \in MemberNames /\ new \in MemberNames /\ old # new
  BY <1>1, <1>2, OldAndNew DEF From, To
<1>4. /\ DOMAIN db' = DOMAIN db \ {old} /\ \A c \in DOMAIN db \ {old} : db'[c] = db[c]
  BY <1>1, <1>2 DEF Unset, Restrict
<1>5. QuietBut({old}) /\ In(old)' = {}
  BY <1>4 DEF QuietBut, Docs, In, Ids, Empty
<1>6. FreshIds'
  BY <1>1, <1>4 DEF MigrationInv, FreshIds
<1>7. \A id \in In(old) : \/ id \in In(new) /\ (run.i = 3 => Doc(new, id) = Doc(old, id))
                          \/ run.i # 3 /\ id \in removed
  BY <1>1, <1>2 DEF MigrationInv, MembersOK
<1>8. \A c : c # old => In(c)' = In(c) /\ \A e \in In(c) : Doc(c, e)' = Doc(c, e)
  BY <1>5, QuietSame DEF QuietBut
<1>9. KeepRows
  <2> SUFFICES ASSUME NEW p, NEW u, ProjectRow(db, p, u) PROVE ProjectRow(db', p, u)
    BY DEF KeepRows
  <2>1. PICK c \in {"projectmembers", "project_members"} :
          \E m \in In(c) : Doc(c, m).project = p /\ Doc(c, m).user = u
    BY DEF ProjectRow, In, Doc
  <2>2. PICK m \in In(c) : Doc(c, m).project = p /\ Doc(c, m).user = u
    BY <2>1
  <2>3. CASE c = old
    <3>1. run.i = 1 \/ run.i = 2 \/ run.i = 3
      BY <1>1
    <3>2. new = "project_members" /\ run.i = 3
      BY <1>3, <2>1, <2>3, <3>1, Names
    <3>3. m \in In(new) /\ Doc(new, m) = Doc(old, m)
      BY <1>7, <2>2, <2>3, <3>2
    <3>4. m \in In(new)' /\ Doc(new, m)' = Doc(c, m)
      BY <1>3, <1>8, <2>3, <3>3
    <3> QED BY <2>2, <3>2, <3>4 DEF ProjectRow, In, Doc
  <2>4. CASE c # old
    BY <1>8, <2>1, <2>2, <2>4 DEF ProjectRow, In, Doc
  <2> QED BY <2>3, <2>4
<1>10. KeepMembers
  <2> SUFFICES ASSUME NEW i \in 1..3
               PROVE  In(Renames[i][1]) \cup In(Renames[i][2]) \cup removed
                        \subseteq (In(Renames[i][1]) \cup In(Renames[i][2]) \cup removed)'
    BY DEF KeepMembers
  <2>1. PICK a, b : a = Renames[i][1] /\ b = Renames[i][2]
    OBVIOUS
  <2>2. CASE i = run.i
    BY <1>1, <1>3, <1>7, <1>8, <2>1, <2>2
  <2>3. CASE i # run.i
    <3>1. a # old /\ b # old
      BY <1>1, <1>3, <2>1, <2>3, OldAndNew
    <3> QED BY <1>1, <1>8, <2>1, <3>1
  <2> QED BY <2>2, <2>3
<1>11. \A j \in run'.i .. 3 : Renames[j][1] \in run'.existing => Renames[j][1] \in DOMAIN db'
  <2> SUFFICES ASSUME NEW j \in run'.i .. 3, Renames[j][1] \in run'.existing
               PROVE  Renames[j][1] \in DOMAIN db'
    OBVIOUS
  <2>1. j \in 1..3 /\ j # run.i /\ j \in run.i .. 3
    BY <1>1
  <2>2. Renames[j][1] # old
    BY <1>1, <1>3, <2>1, OldAndNew
  <2>3. Renames[j][1] \in DOMAIN db
    BY <1>1, <2>1 DEF MigrationInv, MembersOK
  <2> QED BY <1>4, <2>2, <2>3
<1>12. QuietBut(MemberNames)
  BY <1>3, <1>5 DEF QuietBut
<1>13. run'.i \in 1..4
  BY <1>1
<1> QED BY <1>1, <1>6, <1>9, <1>10, <1>11, <1>12, <1>13, MovingOn

LEMMA UserFieldsKeeps ==
  ASSUME MigrationInv, UserFields, Calm, UNCHANGED ledger
  PROVE  MigrationInv'
<1>1. UNCHANGED <<before, removed, edited, cut>>
  BY DEF Calm, history
<1>2. ASSUME run.pc = "deletedAt", run'.pc = "open",
             Write(Update("users", Flagged, LAMBDA u :
               Over([deletedAt |-> IF u.isDeleted THEN "then" ELSE None], Unset(u, {"isDeleted"}))))
      PROVE  MigrationInv'
  <2> DEFINE New(u) == Over([deletedAt |-> IF u.isDeleted THEN "then" ELSE None], Unset(u, {"isDeleted"}))
  <2>1. PICK docs : docs = [d \in Ids(db, "users") |-> IF d \in Flagged THEN New(db["users"][d]) ELSE db["users"][d]]
    OBVIOUS
  <2>2. Write(Put("users", docs))
    BY <1>2, <2>1 DEF Update
  <2>3. \A u : "isDeleted" \notin DOMAIN New(u)
    BY DEF Over, Unset, Restrict
  <2> HIDE DEF New
  <2>4. DOMAIN docs = In("users") /\ \A u \in In("users") : "isDeleted" \notin DOMAIN docs[u]
    BY <2>1, <2>3 DEF In, Flagged, Having, Has
  <2>5. /\ FreshIds' /\ KeepUsers /\ KeepProjects /\ KeepTasks /\ KeepAssigned /\ KeepContent
        /\ KeepRows /\ KeepMembers /\ Docs(db, "users")' = docs
    BY <1>1, <2>2, <2>4, UsersUpdated
  <2>6. Having(db, "users", "isDeleted")' = {}
    BY <2>4, <2>5, Bearing
  <2>7. ledger = {1, 2} /\ ledger' = {1, 2}
    BY <1>2 DEF MigrationInv, RunOK, Stage3
  <2>8. /\ PassStep(1, ProjectPcs) /\ PassStep(1, TaskPcs) /\ PassStep(2, AssigneePcs)
        /\ PassStep(1, {"notifications", "attachments"}) /\ PassStep(1, {"attachments"})
        /\ PassStep(1, {})
    BY <2>7 DEF PassStep, Passed
  <2>9. ProjectsOK' /\ TasksOK' /\ ContentOK'
    BY <1>1, <1>2, <2>5, <2>8, ProjectsStay, TasksStay, ContentStays DEF Still
  <2>10. UsersOK'
    BY <2>6 DEF UsersOK
  <2>11. KeptOK' /\ MembersOK' /\ RowsOK'
    BY <1>1, <1>2, <2>5, KeptStays, MembersStay, RowsStay DEF KeepUsers, KeepProjects, KeepTasks
  <2>12. RunOK'
    BY <1>2, <2>7 DEF MigrationInv, RunOK, Stage1, Stage2, Stage3
  <2> QED BY <2>5, <2>9, <2>10, <2>11, <2>12 DEF MigrationInv
<1>3. ASSUME run.pc = "open", run'.pc = "record",
             Write(Update("users", Lacking(db, "users", "deletedAt"), LAMBDA u : Over([deletedAt |-> None], u)))
      PROVE  MigrationInv'
  <2> DEFINE New(u) == Over([deletedAt |-> None], u)
  <2>1. PICK docs : docs = [d \in Ids(db, "users") |->
                              IF d \in Lacking(db, "users", "deletedAt") THEN New(db["users"][d]) ELSE db["users"][d]]
    OBVIOUS
  <2>2. Write(Put("users", docs))
    BY <1>3, <2>1 DEF Update
  <2>3. \A u : DOMAIN New(u) = {"deletedAt"} \cup DOMAIN u
    BY DEF Over
  <2> HIDE DEF New
  <2>4. /\ DOMAIN docs = In("users")
        /\ \A u \in In("users") : "isDeleted" \in DOMAIN docs[u] => "isDeleted" \in DOMAIN Doc("users", u)
    BY <2>1, <2>3 DEF In, Doc
  <2>5. /\ FreshIds' /\ KeepUsers /\ KeepProjects /\ KeepTasks /\ KeepAssigned /\ KeepContent
        /\ KeepRows /\ KeepMembers
    BY <1>1, <2>2, <2>4, UsersUpdated
  <2>6. ledger = {1, 2} /\ ledger' = {1, 2}
    BY <1>3 DEF MigrationInv, RunOK, Stage3
  <2>7. Passes
    BY <1>3, <2>6 DEF Passes, PassStep, Passed, ProjectPcs, TaskPcs, AssigneePcs, Pending
  <2>8. RunOK'
    BY <1>3, <2>6 DEF MigrationInv, RunOK, Stage1, Stage2, Stage3
  <2> QED BY <1>3, <2>5, <2>7, <2>8, OrdinaryStep
<1> QED BY <1>2, <1>3 DEF UserFields, RunAt, RunTo

-----------------------------------------------------------------------------
(* The application.  Of the collections that are renamed it writes one,    *)
(* under its new name, and takes away only what it notes as removed.       *)
LEMMA AppKeeps ==
  ASSUME MigrationInv, UNCHANGED <<before, cut, run, ledger>>, removed \subseteq removed', FreshIds', TasksOK',
         KeepUsers, KeepProjects, KeepContent, KeepRows, In("tasks") \subseteq In("tasks")',
         \A c \in MemberNames \ {"workspace_members"} : Docs(db, c)' = Docs(db, c),
         In("workspace_members") \subseteq In("workspace_members")' \cup removed',
         DOMAIN db \subseteq DOMAIN db'
  PROVE  MigrationInv'
<1>1. RunOK'
  BY DEF MigrationInv, RunOK
<1>2. \A n, pcs : PassStep(n, pcs)
  BY DEF PassStep, Passed
<1>3. ProjectsOK' /\ ContentOK' /\ UsersOK'
  BY <1>2, ProjectsStay, ContentStays, UsersStay DEF Still
<1>4. KeptOK'
  BY KeptStays DEF KeepUsers, KeepProjects
<1>5. RowsOK'
  BY RowsStay
<1>6. \A c \in MemberNames : /\ In(c) \subseteq In(c)' \cup removed'
                             /\ c # "workspace_members" =>
                                  In(c)' = In(c) /\ \A id \in In(c) : Doc(c, id)' = Doc(c, id)
  BY QuietSame
<1>7. MembersOK'
  <2>1. \A c : Ids(before, c)' = Ids(before, c)
    BY DEF Ids, Docs
  <2>2. ASSUME NEW i \in 1..3
        PROVE  Ids(before, Renames[i][1]) \subseteq (In(Renames[i][1]) \cup In(Renames[i][2]) \cup removed)'
    <3>1. PICK a, b : a = Renames[i][1] /\ b = Renames[i][2]
      OBVIOUS
    <3>2. a \in MemberNames /\ b \in MemberNames
      BY <3>1, OldAndNew
    <3>3. Ids(before, a) \subseteq In(a) \cup In(b) \cup removed
      BY <3>1 DEF MigrationInv, MembersOK
    <3> QED BY <1>6, <3>1, <3>2, <3>3
  <2>3. ASSUME run.pc = "merge"
        PROVE  /\ run'.todo \subseteq In(From)'
               /\ \A id \in In(From)' \ run'.todo :
                    \/ id \in In(To)' /\ (run'.i = 3 => Doc(To, id)' = Doc(From, id)')
                    \/ run'.i # 3 /\ id \in removed'
    <3>1. run.i \in 1..3 /\ (run.i = 1 \/ run.i = 2 \/ run.i = 3)
      BY <2>3 DEF MigrationInv, RunOK
    <3>2. PICK a, b : a = From /\ b = To
      OBVIOUS
    <3>3. /\ a \in MemberNames /\ b \in MemberNames /\ a # "workspace_members"
          /\ run.i = 3 => b # "workspace_members"
      BY <3>1, <3>2, OldAndNew, Names DEF From, To
    <3>4. From' = a /\ To' = b
      BY <3>2 DEF From, To
    <3>5. In(a)' = In(a) /\ \A id \in In(a) : Doc(a, id)' = Doc(a, id)
      BY <1>6, <3>3
    <3>6. In(b) \subseteq In(b)' \cup removed'
      BY <1>6, <3>3
    <3>7. run.i = 3 => In(b)' = In(b) /\ \A id \in In(b) : Doc(b, id)' = Doc(b, id)
      BY <1>6, <3>3
    <3>8. /\ run.todo \subseteq In(a)
          /\ \A id \in In(a) \ run.todo :
               \/ id \in In(b) /\ (run.i = 3 => Doc(b, id) = Doc(a, id))
               \/ run.i # 3 /\ id \in removed
      BY <2>3, <3>2 DEF MigrationInv, MembersOK
    <3>9. ASSUME NEW id \in In(a)' \ run'.todo
          PROVE  \/ id \in In(b)' /\ (run.i = 3 => Doc(b, id)' = Doc(a, id)')
                 \/ run.i # 3 /\ id \in removed'
      <4>1. id \in In(a) \ run.todo
        BY <3>5, <3>9
      <4>2. CASE run.i = 3
        BY <3>5, <3>7, <3>8, <4>1, <4>2
      <4>3. CASE run.i # 3
        BY <3>6, <3>8, <4>1, <4>3
      <4> QED BY <4>2, <4>3
    <3>10. run'.todo \subseteq In(a)' /\ run'.i = run.i
      BY <3>5, <3>8
    <3> QED BY <3>4, <3>9, <3>10
  <2>4. ASSUME run.pc \in {"move", "merge"}
        PROVE  \A j \in run'.i .. 3 : Renames[j][1] \in run'.existing => Renames[j][1] \in DOMAIN db'
    BY <2>4 DEF MigrationInv, MembersOK
  <2> QED BY <2>1, <2>2, <2>3, <2>4 DEF MembersOK
<1> QED BY <1>1, <1>3, <1>4, <1>5, <1>7 DEF MigrationInv

(* Calls that leave the members alone.                                     *)
LEMMA AppOrdinary ==
  ASSUME MigrationInv, UNCHANGED <<history, run, ledger>>, FreshIds', DOMAIN db \subseteq DOMAIN db',
         KeepUsers, KeepProjects, KeepTasks, KeepAssigned, KeepContent, KeepRows,
         \A c \in MemberNames \ {"workspace_members"} : Docs(db, c)' = Docs(db, c),
         In("workspace_members") \subseteq In("workspace_members")'
  PROVE  MigrationInv'
<1>1. UNCHANGED <<before, removed, edited, cut>>
  BY DEF history
<1>2. \A n, pcs : PassStep(n, pcs)
  BY DEF PassStep, Passed
<1>3. TasksOK'
  BY <1>1, <1>2, TasksStay DEF Still
<1> QED BY <1>1, <1>3, AppKeeps DEF KeepTasks

LEMMA BootKeeps ==
  ASSUME MigrationInv, Boot, UNCHANGED <<ledger, run, crashes>>
  PROVE  MigrationInv'
<1>1. /\ DOMAIN db' = NewCollections \cup DOMAIN db /\ \A c \in DOMAIN db' : db'[c] = Docs(db, c)
      /\ nextId' = nextId /\ UNCHANGED history /\ UNCHANGED <<before, removed>>
  BY DEF Boot, Write, history
<1>2. \A c : Docs(db, c)' = Docs(db, c)
  BY <1>1 DEF Docs
<1>3. FreshIds'
  BY <1>1 DEF MigrationInv, FreshIds, Docs, Empty
<1>4. QuietBut({})
  BY <1>2 DEF QuietBut
<1>5. KeepUsers /\ KeepProjects /\ KeepTasks /\ KeepAssigned /\ KeepContent /\ KeepRows
  BY <1>4, QuietKeeps DEF MigrationInv
<1>6. In("workspace_members") \subseteq In("workspace_members")'
  BY <1>2 DEF In, Ids
<1> QED BY <1>1, <1>2, <1>3, <1>5, <1>6, AppOrdinary

LEMMA AppPersonalKeeps ==
  ASSUME MigrationInv, NEW u, AppPersonal(u), UNCHANGED <<ledger, run, crashes>>
  PROVE  MigrationInv'
<1>1. PICK new, old, doc, row : /\ new = "workspace_members" /\ old = "workspaces"
                                /\ doc = [owner |-> u, type |-> "PERSONAL"] /\ row = OwnerRow(nextId, u)
  OBVIOUS
<1>2. PICK docs, rows : docs = Added(old, nextId, doc) /\ rows = Added(new, nextId + 1, row)
  OBVIOUS
<1>3. /\ db' = [Put(old, docs) EXCEPT ![new] = rows] /\ nextId' = nextId + 2
      /\ UNCHANGED history /\ UNCHANGED <<before, removed>> /\ new \in DOMAIN db
  BY <1>1, <1>2, Names DEF AppPersonal, With, history, Answer, Booted
<1>4. /\ DOMAIN db' = DOMAIN db \cup {old} /\ db'[old] = docs /\ db'[new] = rows
      /\ \A c \in DOMAIN db : c # old /\ c # new => db'[c] = db[c]
  BY <1>1, <1>3 DEF Put, Over
<1>5. /\ DOMAIN docs = In(old) \cup {nextId} /\ DOMAIN rows = In(new) \cup {nextId + 1}
  BY <1>2 DEF Added, Over, In, Ids
<1>6. QuietBut({old, new}) /\ In(new) \subseteq In(new)'
  BY <1>3, <1>4, <1>5 DEF QuietBut, Docs, In, Ids
<1>7. FreshIds'
  <2>1. \A c : \A id \in In(c) : id \in Nat /\ id < nextId
    BY DEF MigrationInv, FreshIds, In, Ids, Docs, Empty
  <2>2. nextId \in Nat /\ FirstId \in Nat /\ FirstId <= nextId
    BY MigrationsAssumption DEF MigrationInv, FreshIds
  <2>3. \A id \in DOMAIN docs \cup DOMAIN rows : id \in Nat /\ id < nextId'
    BY <1>3, <1>5, <2>1, <2>2
  <2>4. ASSUME NEW c \in DOMAIN db', NEW id \in DOMAIN db'[c] PROVE id \in Nat /\ id < nextId'
    <3>1. CASE c = old \/ c = new
      BY <1>4, <2>3, <2>4, <3>1
    <3>2. CASE c # old /\ c # new
      <4>1. c \in DOMAIN db /\ id \in In(c)
        BY <1>4, <2>4, <3>2 DEF In, Ids, Docs
      <4> QED BY <1>3, <2>1, <2>2, <4>1
    <3> QED BY <3>1, <3>2
  <2>5. \A c \in DOMAIN before' : \A id \in DOMAIN before'[c] : id \in Nat /\ id < FirstId
    BY <1>3 DEF MigrationInv, FreshIds
  <2>6. nextId' \in Nat /\ FirstId <= nextId'
    BY <1>3, <2>2
  <2> QED BY <2>4, <2>5, <2>6 DEF FreshIds
<1>8. KeepUsers /\ KeepProjects /\ KeepTasks /\ KeepAssigned /\ KeepContent /\ KeepRows
  <2>1. {old, new} \cap {"users", "projects", "tasks", "comments", "notifications", "attachments",
                         "projectmembers", "project_members"} = {}
    BY <1>1
  <2> QED BY <1>6, <2>1, QuietKeeps DEF MigrationInv
<1>9. \A c \in MemberNames \ {"workspace_members"} : Docs(db, c)' = Docs(db, c)
  BY <1>1, <1>6, Names DEF QuietBut, MemberNames
<1>10. In("workspace_members") \subseteq In("workspace_members")' /\ DOMAIN db \subseteq DOMAIN db'
  BY <1>1, <1>4, <1>6
<1> QED BY <1>3, <1>7, <1>8, <1>9, <1>10, AppOrdinary

LEMMA MembersQuiet ==
  ASSUME NEW c, c \notin MemberNames, QuietBut({c})
  PROVE  /\ \A k \in MemberNames \ {"workspace_members"} : Docs(db, k)' = Docs(db, k)
         /\ In("workspace_members") \subseteq In("workspace_members")'
<1>1. "workspace_members" \in MemberNames
  BY Names DEF MemberNames
<1> QED BY <1>1 DEF QuietBut, In, Ids

LEMMA AppRegisterKeeps ==
  ASSUME MigrationInv, AppRegister, UNCHANGED <<ledger, run, crashes>>
  PROVE  MigrationInv'
<1>1. UNCHANGED history /\ UNCHANGED <<before, removed>>
  BY DEF AppRegister, history
<1>2. PICK doc : doc = [role |-> "USER", userName |-> NewName, deletedAt |-> None]
  OBVIOUS
<1>3. Insert("users", doc)
  BY <1>2 DEF AppRegister
<1>4. /\ FreshIds' /\ QuietBut({"users"}) /\ In("users")' = In("users") \cup {nextId}
      /\ \A id \in In("users") : Doc("users", id)' = Doc("users", id)
  BY <1>1, <1>3, InsertDocs DEF MigrationInv
<1>5. db'["users"][nextId] = doc
  BY <1>1, <1>3, InsertDocs DEF MigrationInv
<1>6. DOMAIN db \subseteq DOMAIN db'
  BY <1>3 DEF Insert, With, Put, Over
<1>7. KeepUsers
  <2>1. "isDeleted" \notin DOMAIN doc
    BY <1>2
  <2>2. ASSUME NEW id \in Having(db, "users", "isDeleted")' PROVE id \in Having(db, "users", "isDeleted")
    <3>1. id \in In("users")' /\ "isDeleted" \in DOMAIN db'["users"][id]
      BY <2>2 DEF Having, Has, In
    <3>2. id # nextId
      BY <1>5, <2>1, <3>1
    <3>3. id \in In("users") /\ db'["users"][id] = db["users"][id]
      BY <1>4, <3>1, <3>2 DEF Doc
    <3> QED BY <3>1, <3>3 DEF Having, Has, In
  <2> QED BY <1>4, <2>2 DEF KeepUsers
<1>8. "users" \notin MemberNames
  BY Names DEF MemberNames
<1>9. KeepProjects /\ KeepTasks /\ KeepAssigned /\ KeepContent /\ KeepRows
  BY <1>4, QuietKeeps DEF MigrationInv
<1> QED BY <1>1, <1>4, <1>6, <1>7, <1>8, <1>9, MembersQuiet, AppOrdinary

LEMMA AppRemoveMemberKeeps ==
  ASSUME MigrationInv, NEW m, AppRemoveMember(m), UNCHANGED <<ledger, run, crashes>>
  PROVE  MigrationInv'
<1>1. PICK new : new = "workspace_members"
  OBVIOUS
<1>2. /\ Write(Without(new, {m})) /\ UNCHANGED <<before, edited, cut>>
      /\ removed' = removed \cup {m}
  BY <1>1 DEF AppRemoveMember
<1>3. PICK docs : Write(Put(new, docs)) /\ DOMAIN docs = In(new) \ {m}
  BY <1>2, WithoutDocs
<1>4. Docs(db, new)' = docs /\ QuietBut({new}) /\ FreshIds'
  BY <1>2, <1>3, UpdateDocs DEF MigrationInv
<1>5. DOMAIN db \subseteq DOMAIN db'
  BY <1>3 DEF Write, Put, Over
<1>6. KeepUsers /\ KeepProjects /\ KeepTasks /\ KeepAssigned /\ KeepContent /\ KeepRows
  BY <1>1, <1>4, QuietKeeps DEF MigrationInv
<1>7. \A n, pcs : PassStep(n, pcs)
  BY DEF PassStep, Passed
<1>8. TasksOK'
  BY <1>2, <1>6, <1>7, TasksStay DEF Still
<1>9. \A c \in MemberNames \ {"workspace_members"} : Docs(db, c)' = Docs(db, c)
  BY <1>1, <1>4 DEF QuietBut
<1>10. In("workspace_members") \subseteq In("workspace_members")' \cup removed'
  BY <1>1, <1>2, <1>3, <1>4 DEF In, Ids
<1> QED BY <1>2, <1>4, <1>5, <1>6, <1>8, <1>9, <1>10, AppKeeps DEF KeepTasks

LEMMA AppCloseKeeps ==
  ASSUME MigrationInv, NEW u, AppClose(u), UNCHANGED <<ledger, run, crashes>>
  PROVE  MigrationInv'
<1> DEFINE New(d) == Over([deletedAt |-> "now", userName |-> [base |-> u, caps |-> FALSE, n |-> 1]], d)
<1>1. UNCHANGED history /\ UNCHANGED <<before, removed>>
  BY DEF AppClose, history
<1>2. PICK docs : docs = [d \in Ids(db, "users") |-> IF d \in {u} THEN New(db["users"][d]) ELSE db["users"][d]]
  OBVIOUS
<1>3. Write(Put("users", docs))
  BY <1>2 DEF AppClose, Update
<1>4. \A d : DOMAIN New(d) = {"deletedAt", "userName"} \cup DOMAIN d
  BY DEF Over
<1> HIDE DEF New
<1>5. /\ DOMAIN docs = In("users")
      /\ \A v \in In("users") : "isDeleted" \in DOMAIN docs[v] => "isDeleted" \in DOMAIN Doc("users", v)
  BY <1>2, <1>4 DEF In, Doc
<1>6. FreshIds' /\ KeepUsers /\ KeepProjects /\ KeepTasks /\ KeepAssigned /\ KeepContent /\ KeepRows
  BY <1>1, <1>3, <1>5, UsersUpdated
<1>7. QuietBut({"users"}) /\ DOMAIN db \subseteq DOMAIN db'
  BY <1>3, PutDocs DEF Write
<1>8. "users" \notin MemberNames
  BY Names DEF MemberNames
<1> QED BY <1>1, <1>6, <1>7, <1>8, MembersQuiet, AppOrdinary

LEMMA AppAssignKeeps ==
  ASSUME MigrationInv, NEW t \in In("tasks"), NEW u, AppAssign(t, u), UNCHANGED <<ledger, run, crashes>>
  PROVE  MigrationInv'
<1> DEFINE New(d) == Over([assignees |-> {u}], d)
<1>1. UNCHANGED <<before, removed, cut>> /\ edited' = [edited EXCEPT ![t] = {u}]
      /\ "workspace" \in DOMAIN Doc("tasks", t)
  BY DEF AppAssign, Has
<1>2. PICK docs : docs = [d \in Ids(db, "tasks") |-> IF d \in {t} THEN New(db["tasks"][d]) ELSE db["tasks"][d]]
  OBVIOUS
<1>3. Write(Put("tasks", docs))
  BY <1>2 DEF AppAssign, Update
<1>4. \A d : DOMAIN New(d) = {"assignees"} \cup DOMAIN d /\ New(d).assignees = {u}
  BY DEF Over
<1> HIDE DEF New
<1>5. /\ DOMAIN docs = In("tasks") /\ docs[t] = New(Doc("tasks", t))
      /\ \A v \in In("tasks") : v # t => docs[v] = Doc("tasks", v)
  BY <1>2 DEF In, Doc
<1>6. /\ FreshIds' /\ KeepUsers /\ KeepProjects /\ KeepContent /\ KeepRows
      /\ In("tasks")' = In("tasks") /\ \A v \in In("tasks") : Doc("tasks", v)' = docs[v]
      /\ \A f : /\ Having(db, "tasks", f) = {v \in In("tasks") : f \in DOMAIN Doc("tasks", v)}
                /\ Having(db, "tasks", f)' = {v \in In("tasks") : f \in DOMAIN docs[v]}
                /\ Lacking(db, "tasks", f) = {v \in In("tasks") : f \notin DOMAIN Doc("tasks", v)}
                /\ Lacking(db, "tasks", f)' = {v \in In("tasks") : f \notin DOMAIN docs[v]}
  BY <1>1, <1>3, <1>5, TasksUpdated
<1>7. QuietBut({"tasks"}) /\ DOMAIN db \subseteq DOMAIN db'
  BY <1>3, PutDocs DEF Write
<1>8. \A v \in In("tasks") : \A f : f # "assignees" => (f \in DOMAIN docs[v] <=> f \in DOMAIN Doc("tasks", v))
  BY <1>4, <1>5
<1>9. /\ Lacking(db, "tasks", "workspace")' = Lacking(db, "tasks", "workspace")
      /\ Having(db, "tasks", "workspace")' = Having(db, "tasks", "workspace")
      /\ Having(db, "tasks", "assignee")' = Having(db, "tasks", "assignee")
      /\ t \in Having(db, "tasks", "assignees")' /\ t \in Having(db, "tasks", "workspace")
      /\ Doc("tasks", t)'.assignees = {u}
  <2>1. \A v \in In("tasks") : /\ "workspace" \in DOMAIN docs[v] <=> "workspace" \in DOMAIN Doc("tasks", v)
                               /\ "assignee" \in DOMAIN docs[v] <=> "assignee" \in DOMAIN Doc("tasks", v)
    BY <1>8
  <2>2. /\ Lacking(db, "tasks", "workspace")' = Lacking(db, "tasks", "workspace")
        /\ Having(db, "tasks", "workspace")' = Having(db, "tasks", "workspace")
    BY <1>6, <2>1
  <2>3. Having(db, "tasks", "assignee")' = Having(db, "tasks", "assignee")
    BY <1>6, <2>1
  <2>4. "assignees" \in DOMAIN docs[t] /\ docs[t].assignees = {u}
    BY <1>4, <1>5
  <2>5. t \in Having(db, "tasks", "assignees")' /\ Doc("tasks", t)'.assignees = {u}
    BY <1>6, <2>4
  <2>6. t \in Having(db, "tasks", "workspace")
    BY <1>1, <1>6
  <2> QED BY <2>2, <2>3, <2>5, <2>6
<1>10. \A v \in DOMAIN edited' : edited'[v] # None =>
         /\ v \in Having(db, "tasks", "workspace")' \cap Having(db, "tasks", "assignees")'
         /\ Doc("tasks", v)'.assignees = edited'[v]
  <2> SUFFICES ASSUME NEW v \in DOMAIN edited', edited'[v] # None
               PROVE  /\ v \in Having(db, "tasks", "workspace")' \cap Having(db, "tasks", "assignees")'
                      /\ Doc("tasks", v)'.assignees = edited'[v]
    OBVIOUS
  <2>1. CASE v = t
    BY <1>1, <1>9, <2>1
  <2>2. CASE v # t
    <3>1. v \in DOMAIN edited /\ edited'[v] = edited[v]
      BY <1>1, <2>2
    <3>2. /\ v \in Having(db, "tasks", "workspace") \cap Having(db, "tasks", "assignees")
          /\ Doc("tasks", v).assignees = edited[v]
      BY <3>1 DEF MigrationInv, TasksOK
    <3> QED BY <1>5, <1>6, <1>9, <2>2, <3>1, <3>2
  <2> QED BY <2>1, <2>2
<1>11. TasksOK'
  <2>1. \A n, pcs : Passed(n, pcs)' = Passed(n, pcs)
    BY DEF Passed
  <2> QED BY <1>9, <1>10, <2>1 DEF MigrationInv, TasksOK
<1>12. "tasks" \notin MemberNames
  BY Names DEF MemberNames
<1>13. removed' = removed
  BY <1>1
<1> QED BY <1>1, <1>6, <1>7, <1>11, <1>12, <1>13, MembersQuiet, AppKeeps

-----------------------------------------------------------------------------
(* The assumption about the databases to start from is what the invariant  *)
(* says of a migration that is recorded.                                   *)
LEMMA InitInv ==
  ASSUME MigrationsInit
  PROVE  MigrationInv
<1>1. PICK s \in Legacy : db = s.db /\ ledger = s.ledger
  BY DEF MigrationsInit
<1>2. /\ run = NoRun /\ run.pc = "idle" /\ nextId = FirstId /\ before = db /\ cut = {}
      /\ edited = [t \in Ids(db, "tasks") |-> None]
  BY DEF MigrationsInit, NoRun
<1>3. /\ FirstId \in Nat
      /\ \A c \in DOMAIN db : DOMAIN db[c] \subseteq 0 .. (FirstId - 1)
      /\ \E k \in 0..3 : ledger = 1..k
      /\ 1 \in ledger => Unmoved(db) = {} /\ Lacking(db, "projects", "workspace") \subseteq Ownerless(db)
      /\ 2 \in ledger => Having(db, "tasks", "assignee") = {}
      /\ 3 \in ledger => Having(db, "users", "isDeleted") = {}
      /\ Having(db, "comments", "isDeleted") \subseteq Lacking(db, "comments", "workspace")
  BY <1>1, MigrationsAssumption
<1>4. FreshIds
  BY <1>2, <1>3 DEF FreshIds
<1>5. RunOK
  <2>1. 1..0 = {} /\ 1..1 = {1} /\ 1..2 = {1, 2} /\ 1..3 = {1, 2, 3}
    OBVIOUS
  <2>2. PICK k \in 0..3 : ledger = 1..k
    BY <1>3
  <2>3. k = 0 \/ k = 1 \/ k = 2 \/ k = 3
    OBVIOUS
  <2>4. ledger \in {{}, {1}, {1, 2}, {1, 2, 3}}
    BY <2>1, <2>2, <2>3
  <2> QED BY <1>2, <2>4 DEF RunOK, Stage1, Stage2, Stage3
<1>6. \A n, pcs : Passed(n, pcs) => n \in ledger \/ "idle" \in pcs
  BY <1>2 DEF Passed
<1>7. 1 \in ledger => /\ Lacking(db, "tasks", "workspace") = {} /\ Having(db, "comments", "isDeleted") = {}
                      /\ Lacking(db, "notifications", "recipient") = {}
                      /\ Lacking(db, "attachments", "storageKey") = {}
  BY <1>3 DEF Unmoved
<1>8. ProjectsOK
  <2>1. \A p \in Lacking(db, "projects", "workspace") :
          p \in Ids(before, "projects") /\ Doc("projects", p) = before["projects"][p]
    BY <1>2 DEF Lacking, Doc
  <2> QED BY <1>2, <1>3, <1>6, <2>1 DEF ProjectsOK
<1>9. TasksOK
  BY <1>2, <1>3, <1>6, <1>7 DEF TasksOK
<1>10. ContentOK
  BY <1>2, <1>3, <1>6, <1>7 DEF ContentOK
<1>11. UsersOK
  BY <1>3, <1>6 DEF UsersOK
<1>12. KeptOK /\ MembersOK
  BY <1>2 DEF KeptOK, MembersOK, In
<1>13. RowsOK
  <2>1. Lacking(before, "projects", "workspace") \cap Having(db, "projects", "workspace") = {}
    BY <1>2 DEF Lacking
  <2> QED BY <1>2, <2>1 DEF RowsOK, ProjectRow
<1> QED BY <1>4, <1>5, <1>8, <1>9, <1>10, <1>11, <1>12, <1>13 DEF MigrationInv

(* Nothing happens. *)
LEMMA StutterKeeps ==
  ASSUME MigrationInv, UNCHANGED migrationVars
  PROVE  MigrationInv'
<1>1. /\ UNCHANGED <<history, run, ledger>> /\ UNCHANGED <<before, removed>>
      /\ db' = db /\ nextId' = nextId
  BY DEF migrationVars, history
<1>2. FreshIds' /\ KeepUsers /\ KeepProjects /\ KeepTasks /\ KeepAssigned /\ KeepContent /\ KeepRows
  BY <1>1, SkipKeepsAll DEF Skip
<1>3. /\ \A c \in MemberNames \ {"workspace_members"} : Docs(db, c)' = Docs(db, c)
      /\ In("workspace_members") \subseteq In("workspace_members")'
  BY <1>1 DEF Docs, In, Ids
<1> QED BY <1>1, <1>2, <1>3, AppOrdinary

(* All steps together. *)
LEMMA MigrationStepKeeps ==
  ASSUME MigrationInv, MigrationStep, Calm, UNCHANGED ledger
  PROVE  MigrationInv'
<1>1. CASE WorkspaceModel
  BY <1>1, RolesKeeps, UserWorkspaceKeeps, UserMembershipKeeps, MoveProjectKeeps, ProjectOwnerKeeps,
     PickTaskKeeps, JoinInboxKeeps, UpsertLabelKeeps, MoveTaskKeeps, DeleteCommentsKeeps,
     ScopeCommentKeeps, DeleteUnreachableKeeps DEF WorkspaceModel
<1>2. CASE AssigneesAndNames
  BY <1>2, ConvertAssigneesKeeps, NamesKeep DEF AssigneesAndNames
<1>3. CASE CanonicalNames
  BY <1>3, ExistingKeeps, MoveCollectionKeeps, MergeKeeps, DropCollectionKeeps, UserFieldsKeeps
     DEF CanonicalNames
<1> QED BY <1>1, <1>2, <1>3 DEF MigrationStep

LEMMA AppStepKeeps ==
  ASSUME MigrationInv, AppStep, UNCHANGED <<ledger, run, crashes>>
  PROVE  MigrationInv'
  BY BootKeeps, AppPersonalKeeps, AppCloseKeeps, AppRegisterKeeps, AppRemoveMemberKeeps, AppAssignKeeps
     DEF AppStep

(* Whatever database the migrations start from, however often runs die and *)
(* whatever the application does meanwhile, each record of the ledger      *)
(* stands for what its migration has done, and each place of a run for     *)
(* what is still to do.                                                    *)
THEOREM MigrationsKeep == MigrationsSpec => []MigrationInv
<1>1. MigrationsInit => MigrationInv
  BY InitInv
<1>2. MigrationInv /\ [MigrationsNext]_migrationVars => MigrationInv'
  BY RunnerKeeps, MigrationStepKeeps, AppStepKeeps, StutterKeeps DEF MigrationsNext
<1> QED BY <1>1, <1>2, PTL DEF MigrationsSpec

(* No migration loses user data: run-migrations.ts may be cut short         *)
(* anywhere, mergeInto and the drop after it (003) included.               *)
THEOREM NothingIsLost == MigrationsSpec => []NothingLost
<1>1. MigrationInv => NothingLost
  BY DEF MigrationInv, KeptOK, MembersOK, RowsOK, TasksOK, NothingLost
<1> QED BY <1>1, MigrationsKeep, PTL

(* What a recorded migration is there to convert is converted, and neither *)
(* a later run nor the application brings an old shape back.               *)
THEOREM ConvertedForGood == MigrationsSpec => []RecordedIsConverted
<1>1. ASSUME MigrationInv PROVE RecordedIsConverted
  <2>1. \A n \in ledger : \A pcs : Passed(n, pcs)
    BY DEF Passed
  <2>2. 1 \in ledger =>
          /\ Lacking(db, "tasks", "workspace") = {} /\ Having(db, "comments", "isDeleted") = {}
          /\ Lacking(db, "notifications", "recipient") = {} /\ Lacking(db, "attachments", "storageKey") = {}
          /\ Lacking(db, "projects", "workspace") \subseteq Ownerless(before)
    BY <1>1, <2>1 DEF MigrationInv, ProjectsOK, TasksOK, ContentOK
  <2>3. 2 \in ledger => Having(db, "tasks", "assignee") = {}
    BY <1>1, <2>1 DEF MigrationInv, TasksOK
  <2>4. 3 \in ledger => Having(db, "users", "isDeleted") = {}
    BY <1>1, <2>1 DEF MigrationInv, UsersOK
  <2>5. 1 \in ledger => Unmoved(db) = {}
    BY <2>2 DEF Unmoved
  <2>6. ledger = 1..3 => LegacyShapes(db) \subseteq Ownerless(before)
    <3> SUFFICES ASSUME ledger = 1..3 PROVE LegacyShapes(db) \subseteq Ownerless(before)
      OBVIOUS
    <3>1. 1 \in ledger /\ 2 \in ledger /\ 3 \in ledger
      OBVIOUS
    <3> QED BY <2>2, <2>3, <2>4, <3>1 DEF LegacyShapes
  <2> QED BY <2>2, <2>3, <2>5, <2>6 DEF RecordedIsConverted
<1> QED BY <1>1, MigrationsKeep, PTL
=============================================================================
