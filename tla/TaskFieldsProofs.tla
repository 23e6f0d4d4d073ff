-------------------------- MODULE TaskFieldsProofs --------------------------
(***************************************************************************)
(* Proofs about TaskFields: types, and what each request keeps right when  *)
(* nobody else writes while it runs.                                       *)
(***************************************************************************)
EXTENDS TaskFields, TLAPS

-----------------------------------------------------------------------------
(* Facts about patches. *)

LEMMA PatchedFields ==
  ASSUME NEW doc \in TaskDoc, NEW patch \in Patch
  PROVE  /\ Patched(doc, patch) \in TaskDoc
         /\ Patched(doc, patch).state = doc.state
         /\ Patched(doc, patch).status =
              IF "status" \in patch.given THEN patch.doc.status ELSE doc.status
         /\ Patched(doc, patch).completedAt =
              IF "completedAt" \in patch.given THEN patch.doc.completedAt ELSE doc.completedAt
         /\ Patched(doc, patch).dueDate =
              IF "dueDate" \in patch.given THEN patch.doc.dueDate ELSE doc.dueDate
         /\ Patched(doc, patch).dueReminderSentAt =
              IF "dueReminderSentAt" \in patch.given
              THEN patch.doc.dueReminderSentAt ELSE doc.dueReminderSentAt
         /\ Patched(doc, patch).assignees =
              IF "assignees" \in patch.given THEN patch.doc.assignees ELSE doc.assignees
         /\ Patched(doc, patch).labels =
              IF "labels" \in patch.given THEN patch.doc.labels ELSE doc.labels
<1>1. patch.doc \in TaskDoc
    BY DEF Patch
<1>2. PICK st, ca, dd, rs, as, ls :
        /\ st = IF "status" \in patch.given THEN patch.doc.status ELSE doc.status
        /\ ca = IF "completedAt" \in patch.given THEN patch.doc.completedAt ELSE doc.completedAt
        /\ dd = IF "dueDate" \in patch.given THEN patch.doc.dueDate ELSE doc.dueDate
        /\ rs = IF "dueReminderSentAt" \in patch.given
                THEN patch.doc.dueReminderSentAt ELSE doc.dueReminderSentAt
        /\ as = IF "assignees" \in patch.given THEN patch.doc.assignees ELSE doc.assignees
        /\ ls = IF "labels" \in patch.given THEN patch.doc.labels ELSE doc.labels
    OBVIOUS
<1>3. Patched(doc, patch) =
        [doc EXCEPT !.status = st, !.completedAt = ca, !.dueDate = dd,
                    !.dueReminderSentAt = rs, !.assignees = as, !.labels = ls]
    BY <1>2 DEF Patched, TaskDoc
<1>4. /\ st \in TaskStatus /\ ca \in BOOLEAN /\ dd \in Dates \cup {NoDate}
      /\ rs \in BOOLEAN /\ as \in SUBSET Users /\ ls \in SUBSET Labels
    BY <1>1, <1>2 DEF TaskDoc
<1>5. /\ Patched(doc, patch) \in TaskDoc
      /\ Patched(doc, patch).state = doc.state
      /\ Patched(doc, patch).status = st /\ Patched(doc, patch).completedAt = ca
      /\ Patched(doc, patch).dueDate = dd /\ Patched(doc, patch).dueReminderSentAt = rs
      /\ Patched(doc, patch).assignees = as /\ Patched(doc, patch).labels = ls
    BY <1>3, <1>4 DEF TaskDoc
<1> QED
    BY <1>2, <1>5

Follows(doc) == doc.completedAt <=> doc.status = "DONE"

(* What update decides is right for the document it has read: completedAt   *)
(* follows the status, the reminder is due again only for a new date, and   *)
(* whoever is new among the assignees is to be checked.                     *)
RightFor(doc, patch, adds) ==
  /\ Follows(doc) => Follows(Patched(doc, patch))
  /\ Patched(doc, patch).dueDate = doc.dueDate =>
       Patched(doc, patch).dueReminderSentAt = doc.dueReminderSentAt
  /\ Patched(doc, patch).assignees \ doc.assignees \subseteq adds

LEMMA UpdateIsRight ==
  ASSUME NEW doc \in TaskDoc, NEW body \in Bodies
  PROVE  /\ UpdatePatch(doc, body) \in Patch
         /\ RightFor(doc, UpdatePatch(doc, body),
                     IF "assignees" \in UpdatePatch(doc, body).given
                     THEN body.doc.assignees \ doc.assignees ELSE {})
<1> DEFINE p == UpdatePatch(doc, body)
<1>1. body \in [given : SUBSET BodyFields, doc : TaskDoc]
    BY TaskFieldsAssumption
<1>2. /\ p.given = Asked(doc, body)
                   \cup (IF "status" \in Changes(doc, body) THEN {"completedAt"} ELSE {})
                   \cup (IF "dueDate" \in Changes(doc, body) THEN {"dueReminderSentAt"} ELSE {})
      /\ p.doc \in TaskDoc
      /\ p.doc.status = body.doc.status
      /\ p.doc.completedAt = (body.doc.status = "DONE")
      /\ p.doc.dueDate = body.doc.dueDate
      /\ p.doc.dueReminderSentAt = FALSE
      /\ p.doc.assignees = body.doc.assignees
      /\ p = [given |-> p.given, doc |-> p.doc]
    BY <1>1 DEF UpdatePatch, TaskDoc
<1>3. Asked(doc, body) \subseteq BodyFields
    BY <1>1 DEF Asked
<1>4. p \in Patch
    BY <1>2, <1>3 DEF Patch, Fields, BodyFields
<1> HIDE DEF p
<1>5. "status" \in Changes(doc, body) <=>
        "status" \in p.given /\ body.doc.status # doc.status
    BY <1>2, <1>3 DEF Changes, BodyFields
<1>6. "dueDate" \in Changes(doc, body) <=>
        "dueDate" \in p.given /\ body.doc.dueDate # doc.dueDate
    BY <1>2, <1>3 DEF Changes, BodyFields
<1>7. /\ "completedAt" \in p.given <=> "status" \in Changes(doc, body)
      /\ "dueReminderSentAt" \in p.given <=> "dueDate" \in Changes(doc, body)
    BY <1>2, <1>3 DEF BodyFields
<1>8. RightFor(doc, p, IF "assignees" \in p.given THEN body.doc.assignees \ doc.assignees ELSE {})
    BY ZenonT(40), <1>2, <1>4, <1>5, <1>6, <1>7, PatchedFields DEF RightFor, Follows
<1> QED
    BY <1>4, <1>8 DEF p

-----------------------------------------------------------------------------
(* The inductive invariant. *)

Known(t) == t \in Tasks /\ task[t].state # "ABSENT"

Saves(s) == req[s].pc \in {"assign", "labels", "write"}

(* What a request holds, whatever anybody else does. *)
CreateHolds(s) ==
  Saves(s) /\ req[s].on = NoTask =>
    LET p == req[s].patch
    IN /\ p.given = Fields /\ p.doc.state = "LIVE"
       /\ Follows(p.doc) /\ ~p.doc.dueReminderSentAt /\ p.doc.assignees \subseteq req[s].adds

UpdateHolds(s) == Saves(s) /\ req[s].on # NoTask => Known(req[s].on)

TargetHolds(s) ==
  /\ req[s].pc \in {"join:insert", "leave:begin", "leave:commit"} => req[s].who \in Users
  /\ req[s].pc \in {"unlabel:begin", "unlabel:commit"} => req[s].tag \in Labels

(* What it has established, as long as nobody else writes. *)
UpdateDecided(s) ==
  Saves(s) /\ req[s].on # NoTask => RightFor(task[req[s].on], req[s].patch, req[s].adds)

AssigneesChecked(s) ==
  req[s].pc \in {"labels", "write"} => Assignable(req[s].adds)

LabelsChecked(s) ==
  At(s, "write") /\ "labels" \in req[s].patch.given =>
    ResolveForWorkspace(req[s].patch.doc.labels)

TargetRead(s) ==
  /\ At(s, "join:insert") => member[req[s].who] \in {"NARROW", "WIDE"}
  /\ At(s, "leave:commit") => req[s].hits = OpenWork(req[s].who)
  /\ At(s, "unlabel:commit") => req[s].hits = Tagged(req[s].tag)

Holds(s) == CreateHolds(s) /\ UpdateHolds(s) /\ TargetHolds(s)

Established(s) ==
  UpdateDecided(s) /\ AssigneesChecked(s) /\ LabelsChecked(s) /\ TargetRead(s)

IInv == TypeOK /\ \A s \in Requests : Holds(s) /\ (req[s].clean => Established(s))

(* What a step may not do while no other request has disturbed it: the      *)
(* properties of the module, said of one step.                              *)
Promise ==
  Undisturbed =>
    /\ CompletedIffDone => CompletedIffDone'
    /\ OneReminder => OneReminder'
    /\ \A t \in Tasks, l \in Labels : Untagged(t, l)' => Untagged(t, l)
    /\ \A t \in Tasks, u \in Users :
         Stranded(t, u)' =>
           Stranded(t, u) \/ (task[t].status = "DONE" /\ u \in task[t].assignees)
    /\ \A u \in onProject' : member'[u] = "NONE" => u \in onProject /\ member[u] = "NONE"
    /\ \A t \in Tasks : \A u \in task'[t].assignees \ task[t].assignees : CanSee(u)

-----------------------------------------------------------------------------
(* Steps that only read. *)

Reads == UNCHANGED <<member, onProject, label, task, reminders>>

LEMMA ReadPromise ==
  ASSUME Reads
  PROVE  Promise
BY DEF Reads, Promise, CompletedIffDone, OneReminder, Untagged, Stranded, Open

LEMMA OthersKeep ==
  ASSUME IInv, NEW s \in Requests, Reads,
         NEW r, req' = [req EXCEPT ![s] = r], r \in Request,
         Holds(s)', r.clean => Established(s)'
  PROVE  IInv'
<1>1. TypeOK'
    BY DEF IInv, TypeOK, Reads
<1>2. ASSUME NEW x \in Requests PROVE Holds(x)' /\ (req'[x].clean => Established(x)')
  <2>1. CASE x = s
      BY <2>1 DEF IInv, TypeOK
  <2>2. CASE x # s
    <3>1. req'[x] = req[x]
        BY <2>2 DEF IInv, TypeOK
    <3>2. Holds(x) /\ (req[x].clean => Established(x))
        BY DEF IInv
    <3>3. Holds(x)'
        BY <3>1, <3>2 DEF Holds, CreateHolds, UpdateHolds, TargetHolds, Saves, Known, Reads
    <3>4. Established(x) => Established(x)'
        BY <3>1 DEF Established, UpdateDecided, AssigneesChecked, LabelsChecked, TargetRead,
                    Saves, At, Reads, Assignable, CanSee, ResolveForWorkspace, OpenWork, Tagged
    <3> QED
        BY <3>1, <3>2, <3>3, <3>4
  <2> QED
      BY <2>1, <2>2
<1> QED
    BY <1>1, <1>2 DEF IInv

USE DEF NoRequest

LEMMA NothingRequested == NoRequest \in Request
BY DEF Request, RequestPc, Patch, NoPatch, NoDoc, TaskDoc, TaskStatus

(* A slot that has become free holds and claims nothing. *)
LEMMA FreeSlot ==
  ASSUME NEW s \in Requests, Idle(s)'
  PROVE  Holds(s)' /\ Established(s)'
BY DEF Idle, Holds, CreateHolds, UpdateHolds, TargetHolds, Established, UpdateDecided,
       AssigneesChecked, LabelsChecked, TargetRead, Saves, At

LEMMA DoneStep ==
  ASSUME IInv, NEW s \in Requests, Done(s), Reads
  PROVE  IInv'
<1>1. req'[s] = NoRequest
    BY DEF Done, IInv, TypeOK
<1>2. Holds(s)' /\ Established(s)'
    BY <1>1, FreeSlot DEF Idle
<1> QED
    BY <1>1, <1>2, NothingRequested, OthersKeep DEF Done

LEMMA CreateStep ==
  ASSUME IInv, NEW s \in Requests, NEW body \in Bodies, Create(s, body)
  PROVE  IInv'
<1> DEFINE doc   == Patched([NoDoc EXCEPT !.state = "LIVE"], body)
           patch == [given |-> Fields,
                     doc   |-> [doc EXCEPT !.completedAt = doc.status = "DONE"]]
           r == [NoRequest EXCEPT !.pc = AfterRead(doc.assignees, patch), !.patch = patch,
                                  !.adds = doc.assignees]
<1>1. body \in Patch
    BY TaskFieldsAssumption DEF Patch, Fields
<1>2. [NoDoc EXCEPT !.state = "LIVE"] \in TaskDoc
    BY DEF NoDoc, TaskDoc, TaskStatus
<1>3. doc \in TaskDoc /\ doc.state = "LIVE" /\ ~doc.dueReminderSentAt
  <2>1. "dueReminderSentAt" \notin body.given
      BY TaskFieldsAssumption DEF BodyFields
  <2> QED
      BY <1>1, <1>2, <2>1, PatchedFields DEF NoDoc
<1>4. req' = [req EXCEPT ![s] = r] /\ Reads
    BY DEF Create, Reads
<1> HIDE DEF doc
<1>5. /\ patch \in Patch /\ patch.given = Fields /\ patch.doc.state = "LIVE"
      /\ Follows(patch.doc) /\ ~patch.doc.dueReminderSentAt
      /\ patch.doc.assignees = doc.assignees
    BY <1>3 DEF Patch, TaskDoc, Follows
<1> HIDE DEF patch
<1>6. /\ r \in Request /\ r.pc = AfterRead(doc.assignees, patch) /\ r.on = NoTask
      /\ r.patch = patch /\ r.adds = doc.assignees
  <2>1. AfterRead(doc.assignees, patch) \in RequestPc
      BY DEF AfterRead, AfterAssign, RequestPc
  <2>2. doc.assignees \subseteq Users
      BY <1>3 DEF TaskDoc
  <2> QED
      BY <1>5, <2>1, <2>2, NothingRequested DEF Request
<1>7. req'[s] = r
    BY <1>4 DEF IInv, TypeOK
<1> HIDE DEF r
<1>8. Holds(s)'
    BY <1>5, <1>6, <1>7 DEF Holds, CreateHolds, UpdateHolds, TargetHolds, Saves, AfterRead, AfterAssign
<1>9. Established(s)'
    BY <1>6, <1>7 DEF Established, UpdateDecided, AssigneesChecked, LabelsChecked, TargetRead,
                      Saves, At, AfterRead, AfterAssign, Assignable, ResolveForWorkspace
<1> QED
    BY <1>4, <1>6, <1>8, <1>9, OthersKeep

LEMMA UpdateStep ==
  ASSUME IInv, NEW s \in Requests, NEW t \in Tasks, NEW body \in Bodies, Update(s, t, body)
  PROVE  IInv'
<1> DEFINE patch == UpdatePatch(task[t], body)
           adds  == IF "assignees" \in patch.given
                    THEN body.doc.assignees \ task[t].assignees ELSE {}
           r == [NoRequest EXCEPT !.pc = AfterRead(adds, patch), !.on = t,
                                  !.patch = patch, !.adds = adds]
<1>1. task[t] \in TaskDoc /\ t # NoTask
    BY TaskFieldsAssumption DEF IInv, TypeOK
<1>2. patch \in Patch /\ RightFor(task[t], patch, adds)
    BY <1>1, UpdateIsRight
<1>3. adds \subseteq Users
    BY TaskFieldsAssumption DEF TaskDoc
<1>4. req' = [req EXCEPT ![s] = r] /\ Reads /\ Known(t)
    BY DEF Update, Reads, Known, Live
<1> HIDE DEF patch, adds
<1>5. /\ r \in Request /\ r.pc = AfterRead(adds, patch) /\ r.on = t
      /\ r.patch = patch /\ r.adds = adds
  <2>1. AfterRead(adds, patch) \in RequestPc
      BY DEF AfterRead, AfterAssign, RequestPc
  <2> QED
      BY <1>2, <1>3, <2>1, NothingRequested DEF Request
<1>6. req'[s] = r
    BY <1>4 DEF IInv, TypeOK
<1> HIDE DEF r
<1>7. Holds(s)'
    BY <1>1, <1>4, <1>5, <1>6
    DEF Holds, CreateHolds, UpdateHolds, TargetHolds, Saves, AfterRead, AfterAssign, Known, Reads
<1>8. Established(s)'
  <2>1. RightFor(task'[t], patch, adds)
      BY <1>2, <1>4 DEF Reads
  <2> QED
      BY <1>5, <1>6, <2>1
      DEF Established, UpdateDecided, AssigneesChecked, LabelsChecked, TargetRead,
          Saves, At, AfterRead, AfterAssign, Assignable, ResolveForWorkspace
<1> QED
    BY <1>4, <1>5, <1>7, <1>8, OthersKeep

LEMMA CheckAssigneesStep ==
  ASSUME IInv, NEW s \in Requests, CheckAssignees(s)
  PROVE  IInv'
<1>1. CASE Assignable(req[s].adds)
  <2> DEFINE r == [req[s] EXCEPT !.pc = AfterAssign(req[s].patch)]
  <2>1. req[s] \in Request /\ Holds(s) /\ (req[s].clean => Established(s))
      BY DEF IInv, TypeOK
  <2>2. /\ r \in Request /\ r.pc = AfterAssign(req[s].patch) /\ r.on = req[s].on
        /\ r.patch = req[s].patch /\ r.adds = req[s].adds /\ r.clean = req[s].clean
      BY <2>1 DEF Request, RequestPc, AfterAssign
  <2>3. req' = [req EXCEPT ![s] = r] /\ req'[s] = r /\ Reads
      BY <1>1 DEF CheckAssignees, Goto, Reads, IInv, TypeOK
  <2> HIDE DEF r
  <2>4. Holds(s)'
      BY <2>1, <2>2, <2>3
      DEF Holds, CreateHolds, UpdateHolds, TargetHolds, Saves, AfterAssign, Known, Reads,
          CheckAssignees, At
  <2>5. r.clean => Established(s)'
    <3>1. Assignable(req[s].adds)'
        BY <1>1, <2>2, <2>3 DEF Assignable, CanSee, Reads
    <3>2. req[s].clean => UpdateDecided(s)'
        BY <2>1, <2>2, <2>3 DEF Established, UpdateDecided, Saves, CheckAssignees, At, Reads
    <3> QED
        BY <2>2, <2>3, <3>1, <3>2
        DEF Established, AssigneesChecked, LabelsChecked, TargetRead, At, AfterAssign,
            ResolveForWorkspace
  <2> QED
      BY <2>2, <2>3, <2>4, <2>5, OthersKeep
<1>2. CASE ~Assignable(req[s].adds)
    BY <1>2, DoneStep DEF CheckAssignees, Reads
<1> QED
    BY <1>1, <1>2

LEMMA CheckLabelsStep ==
  ASSUME IInv, NEW s \in Requests, CheckLabels(s)
  PROVE  IInv'
<1>1. CASE ResolveForWorkspace(req[s].patch.doc.labels)
  <2> DEFINE r == [req[s] EXCEPT !.pc = "write"]
  <2>1. req[s] \in Request /\ Holds(s) /\ (req[s].clean => Established(s))
      BY DEF IInv, TypeOK
  <2>2. /\ r \in Request /\ r.pc = "write" /\ r.on = req[s].on
        /\ r.patch = req[s].patch /\ r.adds = req[s].adds /\ r.clean = req[s].clean
      BY <2>1 DEF Request, RequestPc
  <2>3. req' = [req EXCEPT ![s] = r] /\ req'[s] = r /\ Reads
      BY <1>1 DEF CheckLabels, Goto, Reads, IInv, TypeOK
  <2> HIDE DEF r
  <2>4. Holds(s)'
      BY <2>1, <2>2, <2>3
      DEF Holds, CreateHolds, UpdateHolds, TargetHolds, Saves, Known, Reads, CheckLabels, At
  <2>5. r.clean => Established(s)'
    <3>1. ResolveForWorkspace(req[s].patch.doc.labels)'
        BY <1>1, <2>2, <2>3 DEF ResolveForWorkspace, Reads
    <3>2. req[s].clean => UpdateDecided(s)' /\ AssigneesChecked(s)'
        BY <2>1, <2>2, <2>3
        DEF Established, UpdateDecided, AssigneesChecked, Saves, CheckLabels, At, Reads,
            Assignable, CanSee
    <3> QED
        BY <2>2, <2>3, <3>1, <3>2 DEF Established, LabelsChecked, TargetRead, At
  <2> QED
      BY <2>2, <2>3, <2>4, <2>5, OthersKeep
<1>2. CASE ~ResolveForWorkspace(req[s].patch.doc.labels)
    BY <1>2, DoneStep DEF CheckLabels, Reads
<1> QED
    BY <1>1, <1>2

LEMMA AddProjectMemberStep ==
  ASSUME IInv, NEW s \in Requests, NEW u \in Users, AddProjectMember(s, u)
  PROVE  IInv'
<1> DEFINE r == [NoRequest EXCEPT !.pc = "join:insert", !.who = u]
<1>1. r \in Request /\ r.pc = "join:insert" /\ r.who = u
    BY NothingRequested DEF Request, RequestPc
<1>2. req' = [req EXCEPT ![s] = r] /\ req'[s] = r /\ Reads
    BY DEF AddProjectMember, Reads, IInv, TypeOK
<1> HIDE DEF r
<1>3. Holds(s)' /\ Established(s)'
    BY <1>1, <1>2
    DEF AddProjectMember, Reads, Holds, CreateHolds, UpdateHolds, TargetHolds, Established,
        UpdateDecided, AssigneesChecked, LabelsChecked, TargetRead, Saves, At
<1> QED
    BY <1>1, <1>2, <1>3, OthersKeep

LEMMA RemoveMemberStep ==
  ASSUME IInv, NEW s \in Requests, NEW u \in Users, RemoveMember(s, u)
  PROVE  IInv'
<1> DEFINE r == [NoRequest EXCEPT !.pc = "leave:begin", !.who = u, !.row = TRUE]
<1>1. r \in Request /\ r.pc = "leave:begin" /\ r.who = u
    BY NothingRequested DEF Request, RequestPc
<1>2. req' = [req EXCEPT ![s] = r] /\ req'[s] = r /\ Reads
    BY DEF RemoveMember, Reads, IInv, TypeOK
<1> HIDE DEF r
<1>3. Holds(s)' /\ Established(s)'
    BY <1>1, <1>2
    DEF RemoveMember, Reads, Holds, CreateHolds, UpdateHolds, TargetHolds, Established,
        UpdateDecided, AssigneesChecked, LabelsChecked, TargetRead, Saves, At
<1> QED
    BY <1>1, <1>2, <1>3, OthersKeep

LEMMA RemoveLabelStep ==
  ASSUME IInv, NEW s \in Requests, NEW l \in Labels, RemoveLabel(s, l)
  PROVE  IInv'
<1> DEFINE r == [NoRequest EXCEPT !.pc = "unlabel:begin", !.tag = l]
<1>1. r \in Request /\ r.pc = "unlabel:begin" /\ r.tag = l
    BY NothingRequested DEF Request, RequestPc
<1>2. req' = [req EXCEPT ![s] = r] /\ req'[s] = r /\ Reads
    BY DEF RemoveLabel, Reads, IInv, TypeOK
<1> HIDE DEF r
<1>3. Holds(s)' /\ Established(s)'
    BY <1>1, <1>2
    DEF RemoveLabel, Reads, Holds, CreateHolds, UpdateHolds, TargetHolds, Established,
        UpdateDecided, AssigneesChecked, LabelsChecked, TargetRead, Saves, At
<1> QED
    BY <1>1, <1>2, <1>3, OthersKeep

LEMMA RemoveMemberBeginStep ==
  ASSUME IInv, NEW s \in Requests, RemoveMemberBegin(s)
  PROVE  IInv'
<1> DEFINE r == [req[s] EXCEPT !.pc = "leave:commit", !.hits = OpenWork(req[s].who),
                               !.conflict = FALSE, !.clean = TRUE]
<1>1. req[s] \in Request /\ Holds(s)
    BY DEF IInv, TypeOK
<1>2. OpenWork(req[s].who) \subseteq Tasks
    BY DEF OpenWork
<1>3. r \in Request /\ r.pc = "leave:commit" /\ r.who = req[s].who /\ r.hits = OpenWork(r.who)
    BY <1>1, <1>2 DEF Request, RequestPc
<1>4. req' = [req EXCEPT ![s] = r] /\ req'[s] = r /\ Reads
    BY DEF RemoveMemberBegin, Reads, IInv, TypeOK
<1> HIDE DEF r
<1>5. Holds(s)'
    BY <1>1, <1>3, <1>4
    DEF RemoveMemberBegin, Holds, CreateHolds, UpdateHolds, TargetHolds, Saves, At
<1>6. Established(s)'
  <2>1. /\ task' = task /\ req'[s].who = req[s].who /\ req'[s].pc = "leave:commit"
        /\ req'[s].hits = OpenWork(req[s].who)
      BY <1>3, <1>4 DEF Reads
  <2>2. req'[s].hits = {t \in Tasks : req[s].who \in task[t].assignees /\ Open(task[t])}
      BY <2>1 DEF OpenWork
  <2>3. {t \in Tasks : req'[s].who \in task'[t].assignees /\ Open(task'[t])} = req'[s].hits
      BY <2>1, <2>2
  <2>4. TargetRead(s)'
      BY <2>1, <2>3 DEF TargetRead, OpenWork, At
  <2> QED
      BY <2>1, <2>4
      DEF Established, UpdateDecided, AssigneesChecked, LabelsChecked, Saves, At
<1> QED
    BY <1>3, <1>4, <1>5, <1>6, OthersKeep

LEMMA RemoveMemberAgain ==
  ASSUME IInv, NEW s \in Requests, At(s, "leave:commit"), Again(s, "leave:begin"), Reads
  PROVE  IInv'
<1> DEFINE r == [req[s] EXCEPT !.pc = "leave:begin", !.hits = {}, !.conflict = FALSE]
<1>1. req[s] \in Request /\ Holds(s)
    BY DEF IInv, TypeOK
<1>2. r \in Request /\ r.pc = "leave:begin" /\ r.who = req[s].who
    BY <1>1 DEF Request, RequestPc
<1>3. req' = [req EXCEPT ![s] = r] /\ req'[s] = r
    BY DEF Again, IInv, TypeOK
<1> HIDE DEF r
<1>4. Holds(s)' /\ Established(s)'
    BY <1>1, <1>2, <1>3
    DEF Holds, CreateHolds, UpdateHolds, TargetHolds, Established,
        UpdateDecided, AssigneesChecked, LabelsChecked, TargetRead, Saves, At
<1> QED
    BY <1>2, <1>3, <1>4, OthersKeep

LEMMA RemoveLabelBeginStep ==
  ASSUME IInv, NEW s \in Requests, RemoveLabelBegin(s)
  PROVE  IInv'
<1> DEFINE r == [req[s] EXCEPT !.pc = "unlabel:commit", !.hits = Tagged(req[s].tag),
                               !.conflict = FALSE, !.clean = TRUE]
<1>1. req[s] \in Request /\ Holds(s)
    BY DEF IInv, TypeOK
<1>2. Tagged(req[s].tag) \subseteq Tasks
    BY DEF Tagged
<1>3. r \in Request /\ r.pc = "unlabel:commit" /\ r.tag = req[s].tag /\ r.hits = Tagged(r.tag)
    BY <1>1, <1>2 DEF Request, RequestPc
<1>4. req' = [req EXCEPT ![s] = r] /\ req'[s] = r /\ Reads
    BY DEF RemoveLabelBegin, Reads, IInv, TypeOK
<1> HIDE DEF r
<1>5. Holds(s)'
    BY <1>1, <1>3, <1>4
    DEF RemoveLabelBegin, Holds, CreateHolds, UpdateHolds, TargetHolds, Saves, At
<1>6. Established(s)'
  <2>1. /\ task' = task /\ req'[s].tag = req[s].tag /\ req'[s].pc = "unlabel:commit"
        /\ req'[s].hits = Tagged(req[s].tag)
      BY <1>3, <1>4 DEF Reads
  <2>2. req'[s].hits = {t \in Tasks : req[s].tag \in task[t].labels}
      BY <2>1 DEF Tagged
  <2>3. {t \in Tasks : req'[s].tag \in task'[t].labels} = req'[s].hits
      BY <2>1, <2>2
  <2>4. TargetRead(s)'
      BY <2>1, <2>3 DEF TargetRead, Tagged, At
  <2> QED
      BY <2>1, <2>4
      DEF Established, UpdateDecided, AssigneesChecked, LabelsChecked, Saves, At
<1> QED
    BY <1>3, <1>4, <1>5, <1>6, OthersKeep

LEMMA RemoveLabelAgain ==
  ASSUME IInv, NEW s \in Requests, At(s, "unlabel:commit"), Again(s, "unlabel:begin"), Reads
  PROVE  IInv'
<1> DEFINE r == [req[s] EXCEPT !.pc = "unlabel:begin", !.hits = {}, !.conflict = FALSE]
<1>1. req[s] \in Request /\ Holds(s)
    BY DEF IInv, TypeOK
<1>2. r \in Request /\ r.pc = "unlabel:begin" /\ r.tag = req[s].tag
    BY <1>1 DEF Request, RequestPc
<1>3. req' = [req EXCEPT ![s] = r] /\ req'[s] = r
    BY DEF Again, IInv, TypeOK
<1> HIDE DEF r
<1>4. Holds(s)' /\ Established(s)'
    BY <1>1, <1>2, <1>3
    DEF Holds, CreateHolds, UpdateHolds, TargetHolds, Established,
        UpdateDecided, AssigneesChecked, LabelsChecked, TargetRead, Saves, At
<1> QED
    BY <1>2, <1>3, <1>4, OthersKeep

-----------------------------------------------------------------------------
(* Steps that write. *)

(* Whoever is in flight has been disturbed, and holds what it held: tasks   *)
(* that exist do not cease to.                                              *)
Stays == \A t \in Tasks : task[t].state # "ABSENT" => task'[t].state # "ABSENT"

LEMMA OthersDisturbed ==
  ASSUME IInv, NEW S, NEW T, NEW U, NEW gone, req' = Disturbed(S, T, U, gone), Stays
  PROVE  /\ (req \in [Requests -> Request])'
         /\ \A x \in Requests : Holds(x)' /\ (req'[x].clean => Established(x)')
         /\ \A x \in Requests : x \in S => Idle(x)'
<1>1. ASSUME NEW x \in Requests
      PROVE  /\ req'[x] \in Request
             /\ x \in S \/ Idle(x) => req'[x] = NoRequest
             /\ ~(x \in S \/ Idle(x)) =>
                  /\ req'[x].pc = req[x].pc /\ req'[x].on = req[x].on
                  /\ req'[x].patch = req[x].patch /\ req'[x].adds = req[x].adds
                  /\ req'[x].who = req[x].who /\ req'[x].tag = req[x].tag
                  /\ ~req'[x].clean
  <2>1. CASE x \in S \/ Idle(x)
    <3>1. req'[x] = NoRequest
        BY <2>1 DEF Disturbed
    <3> QED
        BY <2>1, <3>1, NothingRequested
  <2>2. CASE ~(x \in S \/ Idle(x))
    <3>1. req[x] \in Request
        BY DEF IInv, TypeOK
    <3>2. PICK row \in BOOLEAN, conflict \in BOOLEAN :
            req'[x] = [req[x] EXCEPT !.row = row, !.conflict = conflict, !.clean = FALSE]
      <4>1. PICK row, conflict :
              /\ row = (req[x].row /\ req[x].who \notin gone)
              /\ conflict = (req[x].conflict
                             \/ (req[x].pc \in {"leave:commit", "unlabel:commit"}
                                 /\ (req[x].hits \cap T # {} \/ req[x].who \in U)))
          OBVIOUS
      <4>2. row \in BOOLEAN /\ conflict \in BOOLEAN
          BY <3>1, <4>1 DEF Request
      <4>3. req'[x] = [req[x] EXCEPT !.row = row, !.conflict = conflict, !.clean = FALSE]
          BY <2>2, <3>1, <4>1 DEF Disturbed, Request
      <4> QED
          BY <4>2, <4>3
    <3> QED
        BY <2>2, <3>1, <3>2 DEF Request
  <2> QED
      BY <2>1, <2>2
<1>2. (req \in [Requests -> Request])'
  <2>1. req' = [x \in Requests |-> req'[x]]
      BY DEF Disturbed
  <2> QED
      BY <1>1, <2>1
<1>3. ASSUME NEW x \in Requests
      PROVE  Holds(x)' /\ (req'[x].clean => Established(x)') /\ (x \in S => Idle(x)')
  <2>1. CASE x \in S \/ Idle(x)
    <3>1. Idle(x)'
        BY <1>1, <2>1 DEF Idle
    <3> QED
        BY <3>1, FreeSlot
  <2>2. CASE ~(x \in S \/ Idle(x))
    <3>1. Holds(x)
        BY DEF IInv
    <3>2. Holds(x)'
        BY <1>1, <2>2, <3>1
        DEF Holds, CreateHolds, UpdateHolds, TargetHolds, Saves, Known, Stays
    <3> QED
        BY <1>1, <2>2, <3>2
  <2> QED
      BY <2>1, <2>2
<1> QED
    BY <1>2, <1>3

LEMMA WriteInvariant ==
  ASSUME IInv, NEW S, NEW T, NEW U, NEW gone, req' = Disturbed(S, T, U, gone), Stays,
         member' \in [Users -> Standing], onProject' \subseteq Users,
         label' \in [Labels -> {"ABSENT", "LIVE", "DELETED"}],
         task' \in [Tasks -> TaskDoc], reminders' \in [Tasks -> Nat],
         \A t \in Tasks : task'[t].state = "ABSENT" => task'[t] = NoDoc
  PROVE  IInv'
<1>1. /\ (req \in [Requests -> Request])'
      /\ \A x \in Requests : Holds(x)' /\ (req'[x].clean => Established(x)')
  <2> HIDE DEF IInv, Stays, Disturbed
  <2> QED
      BY OthersDisturbed
<1> QED
    BY <1>1 DEF IInv, TypeOK

(* A request whose write this step is was clean, if the step is undisturbed.*)
LEMMA WriterClean ==
  ASSUME Undisturbed, NEW s \in Requests,
         req[s].pc \in {"write", "join:insert", "leave:commit", "unlabel:commit"},
         NEW T, NEW U, NEW gone, req' = Disturbed({s}, T, U, gone)
  PROVE  req[s].clean
<1>1. Idle(s)'
    BY DEF Disturbed, Idle
<1> QED
    BY <1>1 DEF Undisturbed, Writing

(* One task is written. *)
OneOf(doc, n) == n = 0 \/ (n = 1 /\ doc.dueReminderSentAt)

LEMMA TaskWritten ==
  ASSUME IInv, NEW t \in Tasks, NEW doc \in TaskDoc, doc.state # "ABSENT",
         task' = [task EXCEPT ![t] = doc], UNCHANGED <<member, onProject, label>>,
         NEW n \in Nat, reminders' = [reminders EXCEPT ![t] = n],
         NEW S, NEW T, NEW U, NEW gone, req' = Disturbed(S, T, U, gone),
         Undisturbed =>
           /\ Follows(task[t]) => Follows(doc)
           /\ OneOf(task[t], reminders[t]) => OneOf(doc, n)
           /\ \A l \in doc.labels \ task[t].labels : label[l] = "LIVE"
           /\ \A u \in doc.assignees \ task[t].assignees : CanSee(u)
           /\ Open(doc) => Open(task[t]) \/ task[t].status = "DONE" \/ task[t].assignees = {}
  PROVE  IInv' /\ Promise
<1>1. /\ task'[t] = doc /\ reminders'[t] = n
      /\ \A x \in Tasks : x # t => task'[x] = task[x] /\ reminders'[x] = reminders[x]
      /\ task' \in [Tasks -> TaskDoc] /\ reminders' \in [Tasks -> Nat]
    BY DEF IInv, TypeOK
<1>2. Stays
    BY <1>1 DEF Stays
<1>3. IInv'
  <2>1. /\ member' \in [Users -> Standing] /\ onProject' \subseteq Users
        /\ label' \in [Labels -> {"ABSENT", "LIVE", "DELETED"}]
        /\ \A x \in Tasks : task'[x].state = "ABSENT" => task'[x] = NoDoc
      BY <1>1 DEF IInv, TypeOK
  <2> HIDE DEF IInv, Stays, Disturbed
  <2> QED
      BY <1>1, <1>2, <2>1, WriteInvariant
<1>4. ASSUME Undisturbed
      PROVE  /\ CompletedIffDone => CompletedIffDone'
             /\ OneReminder => OneReminder'
  <2>1. CompletedIffDone => CompletedIffDone'
      BY <1>1, <1>4 DEF CompletedIffDone, Follows
  <2>2. OneReminder => OneReminder'
      BY <1>1, <1>4 DEF OneReminder, OneOf
  <2> QED
      BY <2>1, <2>2
<1>5. ASSUME Undisturbed, NEW x \in Tasks, NEW l \in Labels, Untagged(x, l)'
      PROVE  Untagged(x, l)
  <2>1. l \in task'[x].labels /\ label[l] # "LIVE"
      BY <1>5 DEF Untagged
  <2>2. l \in task[x].labels
      BY <1>1, <1>5, <2>1
  <2> QED
      BY <2>1, <2>2 DEF Untagged
<1>6. ASSUME Undisturbed, NEW x \in Tasks, NEW u \in task'[x].assignees \ task[x].assignees
      PROVE  CanSee(u)
    BY <1>1, <1>6
<1>7. ASSUME Undisturbed, NEW x \in Tasks, NEW u \in Users, Stranded(x, u)'
      PROVE  Stranded(x, u) \/ (task[x].status = "DONE" /\ u \in task[x].assignees)
  <2>1. Open(task'[x]) /\ u \in task'[x].assignees /\ member[u] = "NONE"
      BY <1>7 DEF Stranded
  <2>2. u \in task[x].assignees
      BY <1>6, <1>7, <2>1 DEF CanSee
  <2>3. Open(task[x]) \/ task[x].status = "DONE"
      BY <1>1, <1>7, <2>1, <2>2
  <2> QED
      BY <2>1, <2>2, <2>3 DEF Stranded
<1> QED
    BY <1>3, <1>4, <1>5, <1>6, <1>7 DEF Promise

LEMMA CreateInsertStep ==
  ASSUME IInv, NEW s \in Requests, NEW t \in Tasks, CreateInsert(s, t)
  PROVE  IInv' /\ Promise
<1>1. PICK doc \in TaskDoc : doc = req[s].patch.doc
    BY DEF IInv, TypeOK, Request, Patch
<1>2. /\ doc.state = "LIVE" /\ Follows(doc) /\ ~doc.dueReminderSentAt
      /\ doc.assignees \subseteq req[s].adds /\ "labels" \in req[s].patch.given
    BY <1>1 DEF IInv, Holds, CreateHolds, Saves, CreateInsert, At, Fields, BodyFields
<1>3. task[t] = NoDoc /\ reminders[t] \in Nat
    BY DEF IInv, TypeOK, CreateInsert
<1>4. /\ task' = [task EXCEPT ![t] = doc] /\ UNCHANGED <<member, onProject, label>>
      /\ reminders' = [reminders EXCEPT ![t] = reminders[t]]
      /\ req' = Disturbed({s}, {t}, {}, {})
    BY <1>1 DEF CreateInsert, IInv, TypeOK
<1>5. ASSUME Undisturbed
      PROVE  /\ OneOf(task[t], reminders[t]) => OneOf(doc, reminders[t])
             /\ \A l \in doc.labels \ task[t].labels : label[l] = "LIVE"
             /\ \A u \in doc.assignees \ task[t].assignees : CanSee(u)
             /\ task[t].assignees = {}
  <2>1. req[s].clean
      BY <1>4, <1>5, WriterClean DEF CreateInsert, At
  <2>2. Established(s)
      BY <2>1 DEF IInv
  <2>3. Assignable(req[s].adds) /\ ResolveForWorkspace(doc.labels)
      BY <1>1, <1>2, <2>2
      DEF Established, AssigneesChecked, LabelsChecked, CreateInsert, At
  <2> QED
      BY <1>2, <1>3, <2>3 DEF OneOf, NoDoc, Assignable, ResolveForWorkspace
<1> HIDE DEF IInv
<1> QED
    BY <1>2, <1>3, <1>4, <1>5, TaskWritten

LEMMA UpdateWriteStep ==
  ASSUME IInv, NEW s \in Requests, UpdateWrite(s)
  PROVE  IInv' /\ Promise
<1>1. PICK t \in Tasks : t = req[s].on
    BY DEF IInv, Holds, UpdateHolds, Saves, UpdateWrite, At, Known
<1>2. PICK patch \in Patch : patch = req[s].patch
    BY DEF IInv, TypeOK, Request
<1>3. PICK old \in TaskDoc : old = task[t]
    BY DEF IInv, TypeOK
<1>4. PICK doc \in TaskDoc : doc = Patched(old, patch)
    BY PatchedFields
<1>5. /\ doc.state = old.state
      /\ doc.labels = IF "labels" \in patch.given THEN patch.doc.labels ELSE old.labels
    BY <1>4, PatchedFields
<1>6. old.state # "ABSENT"
    BY <1>1, <1>3 DEF IInv, Holds, UpdateHolds, Saves, UpdateWrite, At, Known
<1>7. PICK n \in Nat : n = IF doc.dueDate = old.dueDate THEN reminders[t] ELSE 0
    BY DEF IInv, TypeOK
<1>8. /\ task' = [task EXCEPT ![t] = doc] /\ UNCHANGED <<member, onProject, label>>
      /\ reminders' = [reminders EXCEPT ![t] = n]
      /\ req' = Disturbed({s}, {t}, {}, {})
    BY <1>1, <1>2, <1>3, <1>4, <1>7 DEF UpdateWrite, IInv, TypeOK
<1>9. ASSUME Undisturbed
      PROVE  /\ Follows(old) => Follows(doc)
             /\ OneOf(old, reminders[t]) => OneOf(doc, n)
             /\ \A l \in doc.labels \ old.labels : label[l] = "LIVE"
             /\ \A u \in doc.assignees \ old.assignees : CanSee(u)
  <2>1. req[s].clean
      BY <1>8, <1>9, WriterClean DEF UpdateWrite, At
  <2>2. Established(s)
      BY <2>1 DEF IInv
  <2>3. RightFor(old, patch, req[s].adds)
      BY <1>1, <1>2, <1>3, <2>2 DEF Established, UpdateDecided, Saves, UpdateWrite, At
  <2>4. Assignable(req[s].adds)
      BY <2>2 DEF Established, AssigneesChecked, UpdateWrite, At
  <2>5. "labels" \in patch.given => ResolveForWorkspace(patch.doc.labels)
      BY <1>2, <2>2 DEF Established, LabelsChecked, UpdateWrite, At
  <2> QED
      BY <1>4, <1>5, <1>7, <2>3, <2>4, <2>5
      DEF RightFor, Assignable, ResolveForWorkspace, OneOf
<1>10. Open(doc) => Open(old) \/ old.status = "DONE"
    BY <1>5 DEF Open
<1> HIDE DEF IInv
<1> QED
    BY <1>3, <1>5, <1>6, <1>8, <1>9, <1>10, TaskWritten

LEMMA RemoveTaskStep ==
  ASSUME IInv, NEW t \in Tasks, RemoveTask(t)
  PROVE  IInv' /\ Promise
<1>1. PICK doc \in TaskDoc : doc = [task[t] EXCEPT !.state = "DELETED"]
    BY DEF IInv, TypeOK, TaskDoc
<1>2. /\ doc.state = "DELETED" /\ (Follows(task[t]) => Follows(doc))
      /\ (OneOf(task[t], reminders[t]) => OneOf(doc, reminders[t]))
      /\ doc.labels = task[t].labels /\ doc.assignees = task[t].assignees
    BY <1>1 DEF IInv, TypeOK, TaskDoc, Follows, OneOf
<1>3. /\ task' = [task EXCEPT ![t] = doc] /\ UNCHANGED <<member, onProject, label>>
      /\ reminders' = [reminders EXCEPT ![t] = reminders[t]] /\ reminders[t] \in Nat
      /\ req' = Disturbed({}, {t}, {}, {})
    BY <1>1 DEF RemoveTask, IInv, TypeOK
<1>4. ~Open(doc)
    BY <1>2 DEF Open
<1> HIDE DEF IInv
<1> QED
    BY <1>2, <1>3, <1>4, TaskWritten

LEMMA ClaimReminderStep ==
  ASSUME IInv, NEW t \in Tasks, ClaimReminder(t)
  PROVE  IInv' /\ Promise
<1>1. PICK doc \in TaskDoc : doc = [task[t] EXCEPT !.dueReminderSentAt = TRUE]
    BY DEF IInv, TypeOK, TaskDoc
<1>2. PICK n \in Nat : n = reminders[t] + 1
    BY DEF IInv, TypeOK
<1>3. /\ doc.state # "ABSENT" /\ (Follows(task[t]) => Follows(doc)) /\ Open(task[t])
      /\ (OneOf(task[t], reminders[t]) => OneOf(doc, n))
      /\ doc.labels = task[t].labels /\ doc.assignees = task[t].assignees
    BY <1>1, <1>2 DEF IInv, TypeOK, TaskDoc, Follows, OneOf, ClaimReminder, DueSoon, Open
<1>4. /\ task' = [task EXCEPT ![t] = doc] /\ UNCHANGED <<member, onProject, label>>
      /\ reminders' = [reminders EXCEPT ![t] = n]
      /\ req' = Disturbed({}, {t}, {}, {})
    BY <1>1, <1>2 DEF ClaimReminder
<1> HIDE DEF IInv
<1> QED
    BY <1>3, <1>4, TaskWritten

(* Only people are written. *)
LEMMA PeopleWritten ==
  ASSUME IInv, UNCHANGED <<label, task, reminders>>,
         member' \in [Users -> Standing], onProject' \subseteq Users,
         NEW S, NEW T, NEW U, NEW gone, req' = Disturbed(S, T, U, gone),
         \A u \in Users : member'[u] = "NONE" => member[u] = "NONE",
         Undisturbed => \A u \in onProject' \ onProject : member'[u] # "NONE"
  PROVE  IInv' /\ Promise
<1>1. Stays
    BY DEF Stays
<1>2. IInv'
  <2>1. /\ label' \in [Labels -> {"ABSENT", "LIVE", "DELETED"}]
        /\ task' \in [Tasks -> TaskDoc] /\ reminders' \in [Tasks -> Nat]
        /\ \A x \in Tasks : task'[x].state = "ABSENT" => task'[x] = NoDoc
      BY DEF IInv, TypeOK
  <2> HIDE DEF IInv, Stays, Disturbed
  <2> QED
      BY <1>1, <2>1, WriteInvariant
<1>3. Promise
  <2>1. (CompletedIffDone => CompletedIffDone') /\ (OneReminder => OneReminder')
      BY DEF CompletedIffDone, OneReminder
  <2>2. /\ \A t \in Tasks, l \in Labels : Untagged(t, l)' => Untagged(t, l)
        /\ \A t \in Tasks, u \in Users : Stranded(t, u)' => Stranded(t, u)
      BY DEF Untagged, Stranded, Open
  <2>3. Undisturbed =>
          \A u \in onProject' : member'[u] = "NONE" => u \in onProject /\ member[u] = "NONE"
      OBVIOUS
  <2> QED
      BY <2>1, <2>2, <2>3 DEF Promise
<1> QED
    BY <1>2, <1>3

LEMMA JoinStep ==
  ASSUME IInv, NEW u \in Users, NEW standing \in Standing, Join(u, standing)
  PROVE  IInv' /\ Promise
<1>1. /\ UNCHANGED <<label, task, reminders>> /\ onProject' = onProject
      /\ onProject' \subseteq Users
      /\ member' \in [Users -> Standing] /\ req' = Disturbed({}, {}, {}, {})
      /\ \A x \in Users : member'[x] = "NONE" => member[x] = "NONE"
    BY DEF Join, IInv, TypeOK
<1> HIDE DEF IInv
<1> QED
    BY <1>1, PeopleWritten

LEMMA UpdateMemberStep ==
  ASSUME IInv, NEW u \in Users, NEW standing \in Standing, UpdateMember(u, standing)
  PROVE  IInv' /\ Promise
<1>1. /\ UNCHANGED <<label, task, reminders>> /\ onProject' = onProject
      /\ onProject' \subseteq Users
      /\ member' \in [Users -> Standing] /\ req' = Disturbed({}, {}, {u}, {})
      /\ \A x \in Users : member'[x] = "NONE" => member[x] = "NONE"
    BY DEF UpdateMember, IInv, TypeOK
<1> HIDE DEF IInv
<1> QED
    BY <1>1, PeopleWritten

LEMMA RemoveProjectMemberStep ==
  ASSUME IInv, NEW u \in Users, RemoveProjectMember(u)
  PROVE  IInv' /\ Promise
<1>1. /\ UNCHANGED <<label, task, reminders>> /\ onProject' \ onProject = {}
      /\ onProject' \subseteq Users
      /\ member' \in [Users -> Standing] /\ req' = Disturbed({}, {}, {u}, {})
      /\ \A x \in Users : member'[x] = "NONE" => member[x] = "NONE"
    BY DEF RemoveProjectMember, IInv, TypeOK
<1> HIDE DEF IInv
<1> QED
    BY <1>1, PeopleWritten

LEMMA AddProjectMemberInsertStep ==
  ASSUME IInv, NEW s \in Requests, AddProjectMemberInsert(s)
  PROVE  IInv' /\ Promise
<1>1. CASE req[s].who \in onProject
  <2>1. Done(s) /\ Reads
      BY <1>1 DEF AddProjectMemberInsert, Reads
  <2> QED
      BY <2>1, DoneStep, ReadPromise
<1>2. CASE req[s].who \notin onProject
  <2>1. req[s].who \in Users
      BY DEF IInv, Holds, TargetHolds, AddProjectMemberInsert, At
  <2>2. /\ UNCHANGED <<label, task, reminders>> /\ member' = member
        /\ onProject' = onProject \cup {req[s].who} /\ onProject' \subseteq Users
        /\ member' \in [Users -> Standing] /\ req' = Disturbed({s}, {}, {}, {})
        /\ \A x \in Users : member'[x] = "NONE" => member[x] = "NONE"
      BY <1>2, <2>1 DEF AddProjectMemberInsert, IInv, TypeOK
  <2>3. ASSUME Undisturbed
        PROVE  member[req[s].who] # "NONE"
    <3>1. req[s].clean
        BY <2>2, <2>3, WriterClean DEF AddProjectMemberInsert, At
    <3> QED
        BY <3>1 DEF IInv, Established, TargetRead, AddProjectMemberInsert
  <2>4. Undisturbed => \A u \in onProject' \ onProject : member'[u] # "NONE"
      BY <2>2, <2>3
  <2> HIDE DEF IInv
  <2> QED
      BY <2>2, <2>4, PeopleWritten
<1> QED
    BY <1>1, <1>2

LEMMA CreateLabelStep ==
  ASSUME IInv, NEW l \in Labels, CreateLabel(l)
  PROVE  IInv' /\ Promise
<1>1. /\ UNCHANGED <<member, onProject, task, reminders>> /\ Stays
      /\ req' = Disturbed({}, {}, {}, {})
      /\ label' \in [Labels -> {"ABSENT", "LIVE", "DELETED"}]
      /\ \A k \in Labels : label'[k] # "LIVE" => label[k] # "LIVE"
    BY DEF CreateLabel, IInv, TypeOK, Stays
<1>2. IInv'
  <2>1. /\ member' \in [Users -> Standing] /\ onProject' \subseteq Users
        /\ task' \in [Tasks -> TaskDoc] /\ reminders' \in [Tasks -> Nat]
        /\ \A x \in Tasks : task'[x].state = "ABSENT" => task'[x] = NoDoc
      BY <1>1 DEF IInv, TypeOK
  <2> HIDE DEF IInv, Stays, Disturbed
  <2> QED
      BY <1>1, <2>1, WriteInvariant
<1>3. Promise
    BY <1>1 DEF Promise, CompletedIffDone, OneReminder, Untagged, Stranded, Open
<1> QED
    BY <1>2, <1>3

(* Assignees and labels are pulled from tasks, and nothing else is touched. *)
Pulls ==
  /\ task' = [t \in Tasks |-> task'[t]]
  /\ \A t \in Tasks :
       \E as \in SUBSET task[t].assignees, ls \in SUBSET task[t].labels :
         task'[t] = [task[t] EXCEPT !.assignees = as, !.labels = ls]

LEMMA Pulled ==
  ASSUME IInv, Pulls
  PROVE  /\ task' \in [Tasks -> TaskDoc] /\ Stays
         /\ \A t \in Tasks : task'[t].state = "ABSENT" => task'[t] = NoDoc
         /\ \A t \in Tasks :
              /\ task'[t].completedAt = task[t].completedAt
              /\ task'[t].status = task[t].status
              /\ task'[t].state = task[t].state
              /\ task'[t].dueReminderSentAt = task[t].dueReminderSentAt
              /\ task'[t].assignees \subseteq task[t].assignees
              /\ task'[t].labels \subseteq task[t].labels
<1>1. ASSUME NEW t \in Tasks
      PROVE  /\ task'[t] \in TaskDoc
             /\ task'[t].completedAt = task[t].completedAt
             /\ task'[t].status = task[t].status
             /\ task'[t].state = task[t].state
             /\ task'[t].dueReminderSentAt = task[t].dueReminderSentAt
             /\ task'[t].assignees \subseteq task[t].assignees
             /\ task'[t].labels \subseteq task[t].labels
             /\ task[t] = NoDoc => task'[t] = NoDoc
  <2>1. PICK as \in SUBSET task[t].assignees, ls \in SUBSET task[t].labels :
          task'[t] = [task[t] EXCEPT !.assignees = as, !.labels = ls]
      BY DEF Pulls
  <2>2. task[t] \in TaskDoc
      BY DEF IInv, TypeOK
  <2>3. as \subseteq Users /\ ls \subseteq Labels
      BY <2>2 DEF TaskDoc
  <2>4. ASSUME task[t] = NoDoc PROVE task'[t] = NoDoc
    <3>1. NoDoc.assignees = {} /\ NoDoc.labels = {}
        BY DEF NoDoc
    <3>2. as = {} /\ ls = {}
        BY <2>4, <3>1
    <3>3. task'[t] = [NoDoc EXCEPT !.assignees = {}, !.labels = {}]
        BY <2>1, <2>4, <3>2
    <3> QED
        BY <3>3 DEF NoDoc
  <2> QED
      BY <2>1, <2>2, <2>3, <2>4 DEF TaskDoc
<1>2. task' \in [Tasks -> TaskDoc]
    BY <1>1 DEF Pulls
<1>3. Stays
    BY <1>1 DEF Stays
<1>4. \A t \in Tasks : task'[t].state = "ABSENT" => task'[t] = NoDoc
    BY <1>1 DEF IInv, TypeOK
<1> QED
    BY <1>1, <1>2, <1>3, <1>4

LEMMA RemoveMemberCommitStep ==
  ASSUME IInv, NEW s \in Requests, RemoveMemberCommit(s)
  PROVE  IInv' /\ Promise
<1>1. CASE req[s].conflict
  <2>1. At(s, "leave:commit") /\ Again(s, "leave:begin") /\ Reads
      BY <1>1 DEF RemoveMemberCommit, Reads
  <2> QED
      BY <2>1, RemoveMemberAgain, ReadPromise
<1>2. CASE ~req[s].conflict
  <2>1. PICK who \in Users : who = req[s].who
      BY DEF IInv, Holds, TargetHolds, RemoveMemberCommit, At
  <2>2. PICK hits \in SUBSET Tasks : hits = req[s].hits
      BY DEF IInv, TypeOK, Request
  <2>3. PICK gone : gone = IF req[s].row THEN {who} ELSE {}
      OBVIOUS
  <2>4. /\ At(s, "leave:commit") /\ UNCHANGED <<label, reminders>>
        /\ member' = [member EXCEPT ![who] = IF req[s].row THEN "NONE" ELSE @]
        /\ onProject' = onProject \ {who}
        /\ task' = [t \in Tasks |-> IF t \in hits
                                    THEN [task[t] EXCEPT !.assignees = @ \ {who}]
                                    ELSE task[t]]
        /\ req' = Disturbed({s}, hits, {who}, gone)
      BY <1>2, <2>1, <2>2, <2>3 DEF RemoveMemberCommit
  <2>5. ASSUME NEW t \in Tasks
        PROVE  /\ \E as \in SUBSET task[t].assignees, ls \in SUBSET task[t].labels :
                    task'[t] = [task[t] EXCEPT !.assignees = as, !.labels = ls]
               /\ t \notin hits => task'[t] = task[t]
               /\ t \in hits => who \notin task'[t].assignees
    <3>1. task[t] \in TaskDoc
        BY DEF IInv, TypeOK
    <3>2. CASE t \in hits
      <4>1. task'[t] = [task[t] EXCEPT !.assignees = task[t].assignees \ {who},
                                       !.labels = task[t].labels]
          BY <2>4, <3>1, <3>2 DEF TaskDoc
      <4>2. who \notin task'[t].assignees
          BY <3>1, <4>1 DEF TaskDoc
      <4> QED
          BY <3>2, <4>1, <4>2
    <3>3. CASE t \notin hits
      <4>1. /\ task'[t] = task[t]
            /\ task[t] = [task[t] EXCEPT !.assignees = task[t].assignees, !.labels = task[t].labels]
          BY <2>4, <3>1, <3>3 DEF TaskDoc
      <4> QED
          BY <3>3, <4>1
    <3> QED
        BY <3>2, <3>3
  <2>6. Pulls
      BY <2>4, <2>5 DEF Pulls
  <2>7. /\ member' \in [Users -> Standing] /\ onProject' \subseteq Users
        /\ label' \in [Labels -> {"ABSENT", "LIVE", "DELETED"}]
        /\ reminders' \in [Tasks -> Nat]
        /\ \A u \in Users : u # who => member'[u] = member[u]
      BY <2>4 DEF IInv, TypeOK, Standing
  <2>8. IInv'
    <3>1. /\ task' \in [Tasks -> TaskDoc] /\ Stays
          /\ \A t \in Tasks : task'[t].state = "ABSENT" => task'[t] = NoDoc
        BY <2>6, Pulled
    <3> HIDE DEF IInv, Stays, Disturbed
    <3> QED
        BY <2>4, <2>7, <3>1, WriteInvariant
  <2>9. (CompletedIffDone => CompletedIffDone') /\ (OneReminder => OneReminder')
      BY <2>4, <2>6, Pulled DEF CompletedIffDone, OneReminder
  <2>10. \A t \in Tasks, l \in Labels : Untagged(t, l)' => Untagged(t, l)
      BY <2>4, <2>6, Pulled DEF Untagged
  <2>11. ASSUME Undisturbed, NEW t \in Tasks, NEW u \in Users, Stranded(t, u)'
         PROVE  Stranded(t, u)
    <3>1. Open(task'[t]) /\ u \in task'[t].assignees /\ member'[u] = "NONE"
        BY <2>11 DEF Stranded
    <3>2. Open(task[t]) /\ u \in task[t].assignees
        BY <2>6, <3>1, Pulled DEF Open
    <3>3. u # who
      <4>1. req[s].clean
          BY <2>4, <2>11, WriterClean DEF At
      <4>2. hits = OpenWork(who)
          BY <2>1, <2>2, <2>4, <4>1 DEF IInv, Established, TargetRead
      <4> QED
          BY <2>5, <3>1, <3>2, <4>2 DEF OpenWork
    <3> QED
        BY <2>7, <3>1, <3>2, <3>3 DEF Stranded
  <2>12. \A u \in onProject' : member'[u] = "NONE" => u \in onProject /\ member[u] = "NONE"
      BY <2>4, <2>7
  <2>13. \A t \in Tasks : \A u \in task'[t].assignees \ task[t].assignees : CanSee(u)
      BY <2>6, Pulled
  <2> QED
      BY <2>8, <2>9, <2>10, <2>11, <2>12, <2>13 DEF Promise
<1> QED
    BY <1>1, <1>2

LEMMA RemoveLabelCommitStep ==
  ASSUME IInv, NEW s \in Requests, RemoveLabelCommit(s)
  PROVE  IInv' /\ Promise
<1>1. CASE req[s].conflict
  <2>1. At(s, "unlabel:commit") /\ Again(s, "unlabel:begin") /\ Reads
      BY <1>1 DEF RemoveLabelCommit, Reads
  <2> QED
      BY <2>1, RemoveLabelAgain, ReadPromise
<1>2. CASE ~req[s].conflict
  <2>1. PICK tag \in Labels : tag = req[s].tag
      BY DEF IInv, Holds, TargetHolds, RemoveLabelCommit, At
  <2>2. PICK hits \in SUBSET Tasks : hits = req[s].hits
      BY DEF IInv, TypeOK, Request
  <2>4. /\ At(s, "unlabel:commit") /\ UNCHANGED <<member, onProject, reminders>>
        /\ label' = [label EXCEPT ![tag] = "DELETED"]
        /\ task' = [t \in Tasks |-> IF t \in hits
                                    THEN [task[t] EXCEPT !.labels = @ \ {tag}]
                                    ELSE task[t]]
        /\ req' = Disturbed({s}, hits, {}, {})
      BY <1>2, <2>1, <2>2 DEF RemoveLabelCommit
  <2>5. ASSUME NEW t \in Tasks
        PROVE  /\ \E as \in SUBSET task[t].assignees, ls \in SUBSET task[t].labels :
                    task'[t] = [task[t] EXCEPT !.assignees = as, !.labels = ls]
               /\ t \notin hits => task'[t] = task[t]
               /\ t \in hits => tag \notin task'[t].labels
    <3>1. task[t] \in TaskDoc
        BY DEF IInv, TypeOK
    <3>2. CASE t \in hits
      <4>1. task'[t] = [task[t] EXCEPT !.assignees = task[t].assignees,
                                       !.labels = task[t].labels \ {tag}]
          BY <2>4, <3>1, <3>2 DEF TaskDoc
      <4>2. tag \notin task'[t].labels
          BY <3>1, <4>1 DEF TaskDoc
      <4> QED
          BY <3>2, <4>1, <4>2
    <3>3. CASE t \notin hits
      <4>1. /\ task'[t] = task[t]
            /\ task[t] = [task[t] EXCEPT !.assignees = task[t].assignees, !.labels = task[t].labels]
          BY <2>4, <3>1, <3>3 DEF TaskDoc
      <4> QED
          BY <3>3, <4>1
    <3> QED
        BY <3>2, <3>3
  <2>6. Pulls
      BY <2>4, <2>5 DEF Pulls
  <2>7. /\ member' \in [Users -> Standing] /\ onProject' \subseteq Users
        /\ label' \in [Labels -> {"ABSENT", "LIVE", "DELETED"}]
        /\ reminders' \in [Tasks -> Nat]
        /\ \A l \in Labels : l # tag => label'[l] = label[l]
      BY <2>4 DEF IInv, TypeOK
  <2>8. IInv'
    <3>1. /\ task' \in [Tasks -> TaskDoc] /\ Stays
          /\ \A t \in Tasks : task'[t].state = "ABSENT" => task'[t] = NoDoc
        BY <2>6, Pulled
    <3> HIDE DEF IInv, Stays, Disturbed
    <3> QED
        BY <2>4, <2>7, <3>1, WriteInvariant
  <2>9. (CompletedIffDone => CompletedIffDone') /\ (OneReminder => OneReminder')
      BY <2>4, <2>6, Pulled DEF CompletedIffDone, OneReminder
  <2>10. ASSUME Undisturbed, NEW t \in Tasks, NEW l \in Labels, Untagged(t, l)'
         PROVE  Untagged(t, l)
    <3>1. l \in task'[t].labels /\ label'[l] # "LIVE"
        BY <2>10 DEF Untagged
    <3>2. l \in task[t].labels
        BY <2>6, <3>1, Pulled
    <3>3. l # tag
      <4>1. req[s].clean
          BY <2>4, <2>10, WriterClean DEF At
      <4>2. hits = Tagged(tag)
          BY <2>1, <2>2, <2>4, <4>1 DEF IInv, Established, TargetRead
      <4> QED
          BY <2>5, <3>1, <3>2, <4>2 DEF Tagged
    <3> QED
        BY <2>7, <3>1, <3>2, <3>3 DEF Untagged
  <2>11. \A t \in Tasks, u \in Users : Stranded(t, u)' => Stranded(t, u)
      BY <2>4, <2>6, Pulled DEF Stranded, Open
  <2>12. \A t \in Tasks : \A u \in task'[t].assignees \ task[t].assignees : CanSee(u)
      BY <2>6, Pulled
  <2> QED
      BY <2>4, <2>8, <2>9, <2>10, <2>11, <2>12 DEF Promise
<1> QED
    BY <1>1, <1>2

-----------------------------------------------------------------------------
LEMMA InitInvariant == Init => IInv
<1> SUFFICES ASSUME Init PROVE IInv
    OBVIOUS
<1>1. NoDoc \in TaskDoc /\ NoDoc.state = "ABSENT"
    BY DEF NoDoc, TaskDoc, TaskStatus
<1>2. TypeOK
    BY <1>1, NothingRequested DEF Init, TypeOK, Standing
<1>3. ASSUME NEW s \in Requests PROVE Holds(s) /\ Established(s)
  <2>1. req[s] = NoRequest
      BY DEF Init
  <2> QED
      BY <2>1
      DEF Holds, CreateHolds, UpdateHolds, TargetHolds, Established, UpdateDecided,
          AssigneesChecked, LabelsChecked, TargetRead, Saves, At
<1> QED
    BY <1>2, <1>3 DEF IInv

LEMMA StutterStep ==
  ASSUME IInv, UNCHANGED vars
  PROVE  IInv' /\ Promise
<1>1. IInv'
    BY DEF vars, IInv, TypeOK, Holds, CreateHolds, UpdateHolds, TargetHolds, Established,
           UpdateDecided, AssigneesChecked, LabelsChecked, TargetRead, Saves, At, Known,
           Assignable, CanSee, ResolveForWorkspace, OpenWork, Tagged
<1> QED
    BY <1>1, ReadPromise DEF vars, Reads

LEMMA StepInvariant == IInv /\ [Next]_vars => IInv' /\ Promise
<1> SUFFICES ASSUME IInv, [Next]_vars PROVE IInv' /\ Promise
    OBVIOUS
<1> HIDE DEF IInv
<1>1. ASSUME NEW s \in Requests, NEW body \in Bodies, Create(s, body) PROVE IInv' /\ Promise
    BY <1>1, CreateStep, ReadPromise DEF Create, Reads
<1>2. ASSUME NEW s \in Requests, NEW t \in Tasks, NEW body \in Bodies, Update(s, t, body)
      PROVE  IInv' /\ Promise
    BY <1>2, UpdateStep, ReadPromise DEF Update, Reads
<1>3. ASSUME NEW s \in Requests, CheckAssignees(s) PROVE IInv' /\ Promise
    BY <1>3, CheckAssigneesStep, ReadPromise DEF CheckAssignees, Reads
<1>4. ASSUME NEW s \in Requests, CheckLabels(s) PROVE IInv' /\ Promise
    BY <1>4, CheckLabelsStep, ReadPromise DEF CheckLabels, Reads
<1>5. ASSUME NEW s \in Requests, NEW t \in Tasks, CreateInsert(s, t) PROVE IInv' /\ Promise
    BY <1>5, CreateInsertStep
<1>6. ASSUME NEW s \in Requests, UpdateWrite(s) PROVE IInv' /\ Promise
    BY <1>6, UpdateWriteStep
<1>7. ASSUME NEW t \in Tasks, RemoveTask(t) PROVE IInv' /\ Promise
    BY <1>7, RemoveTaskStep
<1>8. ASSUME NEW t \in Tasks, ClaimReminder(t) PROVE IInv' /\ Promise
    BY <1>8, ClaimReminderStep
<1>9. ASSUME NEW u \in Users, NEW standing \in Standing, Join(u, standing) PROVE IInv' /\ Promise
    BY <1>9, JoinStep
<1>10. ASSUME NEW u \in Users, NEW standing \in Standing, UpdateMember(u, standing) PROVE IInv' /\ Promise
    BY <1>10, UpdateMemberStep
<1>11. ASSUME NEW s \in Requests, NEW u \in Users, AddProjectMember(s, u) PROVE IInv' /\ Promise
    BY <1>11, AddProjectMemberStep, ReadPromise DEF AddProjectMember, Reads
<1>12. ASSUME NEW s \in Requests, AddProjectMemberInsert(s) PROVE IInv' /\ Promise
    BY <1>12, AddProjectMemberInsertStep
<1>13. ASSUME NEW u \in Users, RemoveProjectMember(u) PROVE IInv' /\ Promise
    BY <1>13, RemoveProjectMemberStep
<1>14. ASSUME NEW s \in Requests, NEW u \in Users, RemoveMember(s, u) PROVE IInv' /\ Promise
    BY <1>14, RemoveMemberStep, ReadPromise DEF RemoveMember, Reads
<1>15. ASSUME NEW s \in Requests, RemoveMemberBegin(s) PROVE IInv' /\ Promise
    BY <1>15, RemoveMemberBeginStep, ReadPromise DEF RemoveMemberBegin, Reads
<1>16. ASSUME NEW s \in Requests, RemoveMemberCommit(s) PROVE IInv' /\ Promise
    BY <1>16, RemoveMemberCommitStep
<1>17. ASSUME NEW l \in Labels, CreateLabel(l) PROVE IInv' /\ Promise
    BY <1>17, CreateLabelStep
<1>18. ASSUME NEW s \in Requests, NEW l \in Labels, RemoveLabel(s, l) PROVE IInv' /\ Promise
    BY <1>18, RemoveLabelStep, ReadPromise DEF RemoveLabel, Reads
<1>19. ASSUME NEW s \in Requests, RemoveLabelBegin(s) PROVE IInv' /\ Promise
    BY <1>19, RemoveLabelBeginStep, ReadPromise DEF RemoveLabelBegin, Reads
<1>20. ASSUME NEW s \in Requests, RemoveLabelCommit(s) PROVE IInv' /\ Promise
    BY <1>20, RemoveLabelCommitStep
<1>21. CASE UNCHANGED vars
    BY <1>21, StutterStep
<1> QED
    BY <1>1, <1>2, <1>3, <1>4, <1>5, <1>6, <1>7, <1>8, <1>9, <1>10, <1>11,
       <1>12, <1>13, <1>14, <1>15, <1>16, <1>17, <1>18, <1>19, <1>20, <1>21 DEF Next, vars

-----------------------------------------------------------------------------
(* The inductive invariant: shapes, and what each request in flight holds   *)
(* for good or has established as long as nobody else writes.               *)
THEOREM InvariantHolds == Spec => []IInv
<1>1. IInv /\ [Next]_vars => IInv'
    BY StepInvariant
<1> QED
    BY <1>1, InitInvariant, PTL DEF Spec

(* The collections keep their shape, whatever is requested in any order.    *)
THEOREM TypeCorrect == Spec => []TypeOK
<1>1. IInv => TypeOK
    BY DEF IInv
<1> QED
    BY <1>1, InvariantHolds, PTL

(* completedAt falls out of step with the status only when somebody else    *)
(* writes between an update's read and its write.                           *)
THEOREM CompletionCorrect == Spec => CompletionFollows
<1>1. IInv /\ [Next]_vars => [CompletedIffDone /\ Undisturbed => CompletedIffDone']_vars
    BY StepInvariant DEF Promise
<1> QED
    BY <1>1, InvariantHolds, PTL DEF Spec, CompletionFollows

(* No due date is reminded of twice, by any number of schedulers, unless an *)
(* update writes a decision that somebody else has overtaken.               *)
THEOREM ReminderCorrect == Spec => RemindsOnce
<1>1. IInv /\ [Next]_vars => [OneReminder /\ Undisturbed => OneReminder']_vars
    BY StepInvariant DEF Promise
<1> QED
    BY <1>1, InvariantHolds, PTL DEF Spec, RemindsOnce

(* A task comes to carry a label that does not exist only when it was       *)
(* looked up before the label was deleted.                                  *)
THEOREM LabelsCorrect == Spec => LabelsExist
<1>1. IInv /\ [Next]_vars =>
        [Undisturbed => \A t \in Tasks, l \in Labels : Untagged(t, l)' => Untagged(t, l)]_vars
    BY StepInvariant DEF Promise
<1> QED
    BY <1>1, InvariantHolds, PTL DEF Spec, LabelsExist

(* Who leaves the workspace keeps neither open work nor a project, and gets *)
(* none later but by reopening what they had finished.                      *)
THEOREM LeaversCorrect == Spec => LeaversLetGo
<1>1. IInv /\ [Next]_vars =>
        [Undisturbed =>
           /\ \A t \in Tasks, u \in Users :
                Stranded(t, u)' =>
                  Stranded(t, u) \/ (task[t].status = "DONE" /\ u \in task[t].assignees)
           /\ \A u \in onProject' :
                member'[u] = "NONE" => u \in onProject /\ member[u] = "NONE"]_vars
    BY StepInvariant DEF Promise
<1> QED
    BY <1>1, InvariantHolds, PTL DEF Spec, LeaversLetGo

(* Nobody is newly assigned to a task of a project they cannot see.         *)
THEOREM AssigneesCorrect == Spec => AssigneesSeeProject
<1>1. IInv /\ [Next]_vars =>
        [Undisturbed =>
           \A t \in Tasks : \A u \in task'[t].assignees \ task[t].assignees : CanSee(u)]_vars
    BY StepInvariant DEF Promise
<1> QED
    BY <1>1, InvariantHolds, PTL DEF Spec, AssigneesSeeProject
=============================================================================
