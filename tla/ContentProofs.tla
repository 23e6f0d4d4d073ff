--------------------------- MODULE ContentProofs ----------------------------
(***************************************************************************)
(* What TLAPS proves about Content and Inbox for any users, devices,       *)
(* requests and plans: who is told of a comment and how often, what becomes *)
(* of a comment's replies, of files, of registered devices and of a note's *)
(* reminders.                                                              *)
(***************************************************************************)
EXTENDS Content, TLAPS

(* Comments are a function, and a listener has rules left to apply. *)
Base ==
  /\ plan \in Plans /\ TypeOK
  /\ comments = [m \in DOMAIN comments |-> comments[m]]
  /\ \A r \in Requests : At(r, "rule") => req[r].rules # <<>>

-----------------------------------------------------------------------------
(* Reminders: a setting of the note is claimed before it is reminded of,    *)
(* once, and no longer waits to be claimed by then; crossed are those that *)
(* two updates have set.                                                   *)
Waits(s) == note.by = s /\ ~note.sent

SettingOK(s) ==
  s \notin crossed =>
    /\ s \in claimed => reminded[s] = 0 /\ ~Waits(s)
    /\ Waits(s) => reminded[s] = 0
    /\ reminded[s] <= 1

(* A request that has set nothing yet. *)
Unset(r) == At(r, "new") \/ At(r, "note")
UnsetOK(r) == Unset(r) => reminded[r] = 0 /\ r \notin claimed /\ note.by # r

ReminderInv ==
  /\ \A s \in Made : SettingOK(s)
  /\ \A r \in Requests : UnsetOK(r)

-----------------------------------------------------------------------------
(* Comments: what a request that makes or removes one relies on. *)
CommentReqOK(r) ==
  /\ (At(r, "mentions") \/ At(r, "insert")) /\ req[r].parent # None =>
       /\ req[r].parent \in DOMAIN comments
       /\ comments[req[r].parent].parent = None
  /\ At(r, "remove") => req[r].comment \in DOMAIN comments
  /\ r \in DOMAIN comments => req[r].pc \in {"rule", "store", "done"}

(* Replies answer comments at the top level, live or not. *)
TwoLevels ==
  \A m \in DOMAIN comments :
    comments[m].parent # None => /\ comments[m].parent \in DOMAIN comments
                                 /\ comments[comments[m].parent].parent = None

ThreadInv == TwoLevels /\ RepliesAnchored /\ \A r \in Requests : CommentReqOK(r)

-----------------------------------------------------------------------------
(* Telling: requests that tell, and those that may come to tell of a        *)
(* comment they make.                                                      *)
AboutComments == {"MENTIONED", "COMMENT"}
Says(m) == m \in Requests /\ m \in DOMAIN comments
Tells(r) == At(r, "rule") \/ At(r, "store")
Fresh(r) == At(r, "new") \/ At(r, "mentions") \/ At(r, "insert")

(* Who sees the project now, and who was found to see it, is among those    *)
(* who have seen it since.                                                 *)
SeesOK(r) ==
  /\ Tells(r) => access \subseteq had[r]
  /\ At(r, "store") => req[r].to \subseteq had[r]

Untold(r, to) == \A n \in inbox : n.from = r => n.user \notin to

(* Of a comment, whose turn it is and who follows are apart from each other, *)
(* from those told already and from the author.                            *)
SaysOnce(r) ==
  Says(r) =>
    /\ Tells(r) =>
         /\ req[r].actor = comments[r].author
         /\ \A i \in 1..Len(req[r].rules) : Untold(r, req[r].rules[i].to)
         /\ \A i, j \in 1..Len(req[r].rules) :
              i # j => req[r].rules[i].to \cap req[r].rules[j].to = {}
    /\ At(r, "store") =>
         /\ req[r].actor \notin req[r].to
         /\ Untold(r, req[r].to)
         /\ \A i \in 1..Len(req[r].rules) : req[r].rules[i].to \cap req[r].to = {}

(* Only who has made a comment tells of it. *)
OwnKinds(r) ==
  ~Says(r) =>
    /\ Tells(r) => \A i \in 1..Len(req[r].rules) : req[r].rules[i].kind \notin AboutComments
    /\ At(r, "store") => req[r].kind \notin AboutComments

TellerOK(r) == SeesOK(r) /\ SaysOnce(r) /\ OwnKinds(r)

(* Settings of the note are no comments, nor will they be. *)
NotesApart ==
  \A s \in claimed \cup {note.by} : ~Says(s) /\ (s \in Requests => ~Fresh(s))

ToldOnce(n) ==
  /\ n.kind \in AboutComments => Says(n.from)
  /\ n.kind # "NOTE" => n.from \in Requests
  /\ n.from \in Requests => ~Fresh(n.from)
  /\ Says(n.from) => comments[n.from].author # n.user
  /\ Says(n.from) => \A k \in inbox : k.user = n.user /\ k.from = n.from => k = n

TellingInv ==
  /\ \A r \in Requests : TellerOK(r)
  /\ \A n \in inbox : ToldOnce(n)
  /\ NotesApart /\ ToldWhoSees

-----------------------------------------------------------------------------
(* Files: whose they are. *)
FilePcs == {"put", "row", "undo", "drop", "file", "previous", "avatar", "unlink"}

Replaces(r, f) == (At(r, "avatar") \/ At(r, "unlink")) /\ req[r].old = f
Drops(r, f) == (At(r, "drop") \/ At(r, "file")) /\ req[r].file = f

Worn(f) == (\E u \in Users : avatar[u] = f) \/ (\E r \in Requests : Replaces(r, f))
Attached(f) == f \in rows \/ \E r \in Requests : Drops(r, f)

(* A file is an avatar or an attachment, and neither before its upload has  *)
(* come so far.                                                            *)
KindOfFile(f) ==
  /\ Worn(f) => f \in Requests /\ (At(f, "unlink") \/ At(f, "done"))
  /\ Attached(f) => f = Earlier \/ At(f, "undo") \/ At(f, "done")
  /\ ~(Worn(f) /\ Attached(f))

UploadOK(r) ==
  /\ At(r, "put") \/ At(r, "row") \/ At(r, "undo") => req[r].file = r /\ req[r].old = None
  /\ At(r, "row") => r \in files
  /\ At(r, "undo") /\ r \in rows => r \in strays
  /\ At(r, "file") => req[r].file \notin rows

AvatarOK(r) ==
  /\ At(r, "previous") \/ At(r, "avatar") =>
       /\ req[r].file \in {r, None, Url}
       /\ req[r].file = r => r \in files
  /\ At(r, "avatar") /\ req[r].old \in Made =>
       \A u \in Users : avatar[u] = req[r].old => u = req[r].user
  /\ At(r, "unlink") /\ req[r].old \in Made => \A u \in Users : avatar[u] # req[r].old

(* No two users wear one uploaded file. *)
OneWearer == \A u, v \in Users : avatar[u] \in Made /\ avatar[u] = avatar[v] => u = v

(* The files a request is to store, to refer to or to delete. *)
Owes(r, f) ==
  \/ req[r].pc \in {"put", "row", "undo", "file", "previous", "avatar"} /\ req[r].file = f
  \/ At(r, "unlink") /\ req[r].old = f

Remembered(f) ==
  \/ f \in rows \/ f \in strays
  \/ \E u \in Users : avatar[u] = f
  \/ \E r \in Requests : Owes(r, f)

FileInv ==
  /\ \A f \in Made : KindOfFile(f)
  /\ \A r \in Requests : UploadOK(r) /\ AvatarOK(r)
  /\ OneWearer
  /\ FilesAreThere
  /\ \A f \in files : Remembered(f)

-----------------------------------------------------------------------------
(* Types. *)

(* A step of one request leaves the others alone. *)
LEMMA GotoReq ==
  ASSUME TypeOK, NEW r \in Requests, NEW x, Goto(r, x)
  PROVE  /\ req'[r] = x
         /\ \A q \in Requests : q # r => req'[q] = req[q]
  BY DEF Goto, TypeOK

LEMMA GotoTypes ==
  ASSUME TypeOK, NEW r \in Requests, NEW x \in Req, Goto(r, x)
  PROVE  req' \in [Requests -> Req]
  BY DEF Goto, TypeOK

(* What a request carries, by what it is doing. *)
LEMMA ReqIs ==
  ASSUME NEW x \in Req
  PROVE  /\ x.pc = "new" => x = NewReq
         /\ x.pc = "rule" => x \in RuleReq
         /\ x.pc = "store" => x \in StoreReq
         /\ x.pc = "note" => x \in NoteReq
         /\ x.pc \in FilePcs => x \in FileReq
         /\ x.pc \in {"mentions", "insert"} => x \in CommentReq
         /\ x.pc \in {"remention", "edit"} => x \in EditReq
         /\ x.pc = "remove" => x \in RemoveReq
  BY DEF Req, NewReq, Done, RuleReq, StoreReq, NoteReq, FileReq, FilePcs, CommentReq, EditReq,
         RemoveReq

(* Steps along the way of a file. *)
LEMMA FileSteps ==
  ASSUME NEW x \in FileReq, NEW pc \in FilePcs
  PROVE  /\ [x EXCEPT !.pc = pc] \in FileReq
         /\ [x EXCEPT !.pc = pc].pc = pc
         /\ [x EXCEPT !.pc = pc].file = x.file
         /\ [x EXCEPT !.pc = pc].old = x.old
         /\ [x EXCEPT !.pc = pc].user = x.user
  BY DEF FileReq, FilePcs

LEMMA StepGoto ==
  ASSUME NEW r \in Requests, NEW pc, Step(r, pc)
  PROVE  Goto(r, [req[r] EXCEPT !.pc = pc])
  BY DEF Step, Goto

LEMMA RuleTypes ==
  ASSUME NEW rules \in Seq(RuleSet), rules # <<>>
  PROVE  Head(rules) \in RuleSet /\ Tail(rules) \in Seq(RuleSet)
  OBVIOUS

(* Where a request goes by a step. *)
Moves(r, pcs) ==
  \E x \in Req : Goto(r, x) /\ x.pc \in pcs /\ (x.pc = "rule" => x.rules # <<>>)

LEMMA StartMoves ==
  ASSUME TypeOK, NEW r \in Requests, NEW c \in Call
  PROVE  /\ GrantOrRevoke(r, c) \/ ReadOrClear(r, c) \/ Register(r, c) \/ Unregister(r, c)
            \/ RemoveNote(r, c) \/ ReplaceAvatar(r, c) => Moves(r, {"done"})
         /\ Write(r, c) => Moves(r, {"rule"})
         /\ ReadNote(r, c) => Moves(r, {"note"})
         /\ StartComment(r, c) => Moves(r, {"mentions", "done"})
         /\ StartEdit(r, c) => Moves(r, {"remention", "done"})
         /\ StartRemove(r, c) => Moves(r, {"remove", "done"})
         /\ Upload(r, c) => Moves(r, {"put", "done"})
         /\ RemoveAttachment(r, c) => Moves(r, {"drop", "done"})
         /\ StartAvatar(r, c) => Moves(r, {"previous"})
  <1>1. Done \in Req /\ Done.pc = "done"
    BY DEF Req, Done
  <1>2. GrantOrRevoke(r, c) \/ ReadOrClear(r, c) \/ Register(r, c) \/ Unregister(r, c)
        \/ RemoveNote(r, c) \/ ReplaceAvatar(r, c) => Moves(r, {"done"})
    BY <1>1 DEF Moves, GrantOrRevoke, ReadOrClear, Register, Unregister, RemoveNote, ReplaceAvatar
  <1>3. Write(r, c) => Moves(r, {"rule"})
    <2>1. SUFFICES ASSUME Write(r, c)
                   PROVE  Moves(r, {"rule"})
      OBVIOUS
    <2>2. c.user \in Users /\ c.added \subseteq Users
      BY <2>1 DEF Write, Call, InboxCall
    <2>3. c.op = "task" => c.watchers \subseteq Users
      BY <2>1 DEF Write, Call, InboxCall
    <2>4. EventRules(c) \in Seq(RuleSet) /\ EventRules(c) # <<>>
      <3>1. \A to \in SUBSET Users :
              /\ Rule("ASSIGNED", to) \in RuleSet
              /\ Rule("MEMBER", to) \in RuleSet
              /\ Rule("STATUS", to) \in RuleSet
        BY DEF Rule, RuleSet, Kind
      <3>2. CASE c.op = "created"
        BY <2>2, <3>1, <3>2 DEF EventRules
      <3>3. CASE c.op = "joined"
        BY <2>2, <3>1, <3>3 DEF EventRules
      <3>4. CASE c.op = "task"
        BY <2>2, <2>3, <3>1, <3>4 DEF EventRules
      <3>5. QED BY <2>1, <3>2, <3>3, <3>4 DEF Write
    <2>5. Telling(r, c.user, EventRules(c)) \in RuleReq
      BY <2>2, <2>4 DEF Telling, RuleReq
    <2>6. /\ Telling(r, c.user, EventRules(c)).pc = "rule"
          /\ Telling(r, c.user, EventRules(c)).rules = EventRules(c)
      BY DEF Telling
    <2>7. QED BY <2>1, <2>4, <2>5, <2>6 DEF Write, Moves, Req
  <1>4. ReadNote(r, c) => Moves(r, {"note"})
    <2>1. SUFFICES ASSUME ReadNote(r, c)
                   PROVE  Moves(r, {"note"})
      OBVIOUS
    <2>2. c.at \in Time \cup {None}
      BY <2>1 DEF ReadNote, Call, InboxCall
    <2>3. note.at \in Time \cup {None}
      BY DEF TypeOK, InboxTypeOK, Note
    <2>4. [pc |-> "note", at |-> c.at, was |-> note.at] \in NoteReq
      BY <2>2, <2>3 DEF NoteReq
    <2>5. QED BY <2>1, <2>4 DEF ReadNote, Moves, Req
  <1>5. StartComment(r, c) => Moves(r, {"mentions", "done"})
    <2>1. SUFFICES ASSUME StartComment(r, c)
                   PROVE  Moves(r, {"mentions", "done"})
      OBVIOUS
    <2>2. c.user \in Users /\ c.parent \in Made \cup {None} /\ c.mentions \subseteq Users
      BY <2>1 DEF StartComment, Call, InboxCall
    <2>3. [pc |-> "mentions", user |-> c.user, parent |-> c.parent, mentions |-> c.mentions]
            \in CommentReq
      BY <2>2 DEF CommentReq
    <2>4. QED BY <1>1, <2>1, <2>3 DEF StartComment, Moves, Req
  <1>6. StartEdit(r, c) => Moves(r, {"remention", "done"})
    <2>1. SUFFICES ASSUME StartEdit(r, c)
                   PROVE  Moves(r, {"remention", "done"})
      OBVIOUS
    <2>2. c.user \in Users /\ c.comment \in Made /\ c.mentions \subseteq Users
      BY <2>1 DEF StartEdit, Call, InboxCall
    <2>3. [pc |-> "remention", user |-> c.user, comment |-> c.comment, mentions |-> c.mentions]
            \in EditReq
      BY <2>2 DEF EditReq
    <2>4. QED BY <1>1, <2>1, <2>3 DEF StartEdit, Moves, Req
  <1>7. StartRemove(r, c) => Moves(r, {"remove", "done"})
    <2>1. SUFFICES ASSUME StartRemove(r, c)
                   PROVE  Moves(r, {"remove", "done"})
      OBVIOUS
    <2>2. c.comment \in Made
      BY <2>1 DEF StartRemove, Call, InboxCall
    <2>3. [pc |-> "remove", comment |-> c.comment] \in RemoveReq
      BY <2>2 DEF RemoveReq
    <2>4. QED BY <1>1, <2>1, <2>3 DEF StartRemove, Moves, Req
  <1>8. Upload(r, c) => Moves(r, {"put", "done"})
    <2>1. SUFFICES ASSUME Upload(r, c)
                   PROVE  Moves(r, {"put", "done"})
      OBVIOUS
    <2>2. c.user \in Users
      BY <2>1 DEF Upload, Call, InboxCall
    <2>3. Handling("put", c.user, r, None) \in FileReq
      BY <2>2 DEF Handling, FileReq, Made
    <2>4. Handling("put", c.user, r, None).pc = "put"
      BY DEF Handling
    <2>5. QED BY <1>1, <2>1, <2>3, <2>4 DEF Upload, Moves, Req
  <1>9. RemoveAttachment(r, c) => Moves(r, {"drop", "done"})
    <2>1. SUFFICES ASSUME RemoveAttachment(r, c)
                   PROVE  Moves(r, {"drop", "done"})
      OBVIOUS
    <2>2. c.user \in Users /\ c.file \in Made
      BY <2>1 DEF RemoveAttachment, Call, InboxCall
    <2>3. Handling("drop", c.user, c.file, None) \in FileReq
      BY <2>2 DEF Handling, FileReq, Made
    <2>4. Handling("drop", c.user, c.file, None).pc = "drop"
      BY DEF Handling
    <2>5. QED BY <1>1, <2>1, <2>3, <2>4 DEF RemoveAttachment, Moves, Req
  <1>10. StartAvatar(r, c) => Moves(r, {"previous"})
    <2>1. SUFFICES ASSUME StartAvatar(r, c)
                   PROVE  Moves(r, {"previous"})
      OBVIOUS
    <2>2. c.user \in Users /\ (c.to = "file" \/ c.to \in {None, Url})
      BY <2>1 DEF StartAvatar, Call, InboxCall
    <2>3. PICK f : f = IF c.to = "file" THEN r ELSE c.to
      OBVIOUS
    <2>4. f \in Made \cup {None, Url}
      BY <2>2, <2>3 DEF Made
    <2>5. Handling("previous", c.user, f, None) \in FileReq
      BY <2>2, <2>4 DEF Handling, FileReq
    <2>6. Handling("previous", c.user, f, None).pc = "previous"
      BY DEF Handling
    <2>7. QED BY <2>1, <2>3, <2>5, <2>6 DEF StartAvatar, Moves, Req
  <1>11. QED BY <1>2, <1>3, <1>4, <1>5, <1>6, <1>7, <1>8, <1>9, <1>10

LEMMA CommentMoves ==
  ASSUME TypeOK, NEW r \in Requests
  PROVE  /\ ResolveMentions(r) => Moves(r, {"insert"})
         /\ InsertComment(r) => Moves(r, {"rule"})
         /\ ResolveEdited(r) => Moves(r, {"edit"})
         /\ EditComment(r) \/ RemoveComment(r) => Moves(r, {"done"})
  <1>1. Done \in Req /\ Done.pc = "done"
    BY DEF Req, Done
  <1>2. req[r] \in Req
    BY DEF TypeOK
  <1>3. ResolveMentions(r) => Moves(r, {"insert"})
    <2>1. SUFFICES ASSUME ResolveMentions(r)
                   PROVE  Moves(r, {"insert"})
      OBVIOUS
    <2>2. req[r] \in CommentReq
      BY <1>2, <2>1, ReqIs DEF ResolveMentions, At
    <2>3. PICK x : x = [req[r] EXCEPT !.pc = "insert",
                                      !.mentions = Visible(req[r].user, req[r].mentions)]
      OBVIOUS
    <2>4. x \in CommentReq /\ x.pc = "insert"
      BY <2>2, <2>3 DEF CommentReq, Visible
    <2>5. Goto(r, x)
      BY <2>1, <2>3 DEF ResolveMentions, Goto
    <2>6. QED BY <2>4, <2>5 DEF Moves, Req
  <1>4. InsertComment(r) => Moves(r, {"rule"})
    <2>1. SUFFICES ASSUME InsertComment(r)
                   PROVE  Moves(r, {"rule"})
      OBVIOUS
    <2>2. req[r] \in CommentReq
      BY <1>2, <2>1, ReqIs DEF InsertComment, At
    <2>3. req[r].user \in Users /\ req[r].mentions \subseteq Users
      BY <2>2 DEF CommentReq
    <2>4. /\ CommentRules(req[r].user, req[r].mentions) \in Seq(RuleSet)
          /\ CommentRules(req[r].user, req[r].mentions) # <<>>
      BY <2>3, ContentAssumption DEF CommentRules, Rule, RuleSet, Kind
    <2>5. PICK x : x = Telling(r, req[r].user, CommentRules(req[r].user, req[r].mentions))
      OBVIOUS
    <2>6. x \in RuleReq /\ x.pc = "rule" /\ x.rules # <<>>
      BY <2>3, <2>4, <2>5 DEF Telling, RuleReq
    <2>7. Goto(r, x)
      BY <2>1, <2>5 DEF InsertComment
    <2>8. QED BY <2>6, <2>7 DEF Moves, Req
  <1>5. ResolveEdited(r) => Moves(r, {"edit"})
    <2>1. SUFFICES ASSUME ResolveEdited(r)
                   PROVE  Moves(r, {"edit"})
      OBVIOUS
    <2>2. req[r] \in EditReq
      BY <1>2, <2>1, ReqIs DEF ResolveEdited, At
    <2>3. PICK x : x = [req[r] EXCEPT !.pc = "edit",
                                      !.mentions = Visible(req[r].user, req[r].mentions)]
      OBVIOUS
    <2>4. x \in EditReq /\ x.pc = "edit"
      BY <2>2, <2>3 DEF EditReq, Visible
    <2>5. Goto(r, x)
      BY <2>1, <2>3 DEF ResolveEdited, Goto
    <2>6. QED BY <2>4, <2>5 DEF Moves, Req
  <1>6. EditComment(r) \/ RemoveComment(r) => Moves(r, {"done"})
    BY <1>1 DEF EditComment, RemoveComment, Moves
  <1>7. QED BY <1>3, <1>4, <1>5, <1>6

LEMMA FileMoves ==
  ASSUME TypeOK, NEW r \in Requests
  PROVE  /\ PutFile(r) => Moves(r, {"row"})
         /\ InsertRow(r) => Moves(r, {"done", "undo"})
         /\ UndoFile(r) \/ DropFile(r) \/ UnlinkAvatar(r) \/ DieHandling(r) => Moves(r, {"done"})
         /\ DropRow(r) => Moves(r, {"file"})
         /\ ReadAvatar(r) => Moves(r, {"avatar"})
         /\ WriteAvatar(r) => Moves(r, {"unlink"})
  <1>1. Done \in Req /\ Done.pc = "done"
    BY DEF Req, Done
  <1>2. ASSUME req[r].pc \in FilePcs, NEW pc \in FilePcs
        PROVE  [req[r] EXCEPT !.pc = pc] \in Req /\ [req[r] EXCEPT !.pc = pc].pc = pc
    <2>1. req[r] \in FileReq
      BY <1>2, ReqIs DEF TypeOK
    <2>2. QED BY <2>1, FileSteps DEF Req
  <1>3. PutFile(r) => Moves(r, {"row"})
    BY <1>2, StepGoto DEF PutFile, FilePcs, At, Moves
  <1>4. DropRow(r) => Moves(r, {"file"})
    BY <1>2, StepGoto DEF DropRow, FilePcs, At, Moves
  <1>5. WriteAvatar(r) => Moves(r, {"unlink"})
    BY <1>2, StepGoto DEF WriteAvatar, FilePcs, At, Moves
  <1>6. InsertRow(r) => Moves(r, {"done", "undo"})
    BY <1>1, <1>2 DEF InsertRow, AfterFailure, FilePcs, At, Moves
  <1>7. UndoFile(r) \/ DropFile(r) \/ UnlinkAvatar(r) \/ DieHandling(r) => Moves(r, {"done"})
    BY <1>1 DEF UndoFile, DropFile, UnlinkAvatar, DieHandling, Die, Moves
  <1>8. ReadAvatar(r) => Moves(r, {"avatar"})
    <2>1. SUFFICES ASSUME ReadAvatar(r)
                   PROVE  Moves(r, {"avatar"})
      OBVIOUS
    <2>2. req[r] \in FileReq
      BY <2>1, ReqIs DEF ReadAvatar, At, FilePcs, TypeOK
    <2>3. avatar[req[r].user] \in Made \cup {None, Url}
      BY <2>2 DEF FileReq, TypeOK
    <2>4. PICK x : x = [req[r] EXCEPT !.pc = "avatar", !.old = avatar[req[r].user]]
      OBVIOUS
    <2>5. x \in FileReq /\ x.pc = "avatar"
      BY <2>2, <2>3, <2>4 DEF FileReq
    <2>6. Goto(r, x)
      BY <2>1, <2>4 DEF ReadAvatar, Goto
    <2>7. QED BY <2>5, <2>6 DEF Moves, Req
  <1>9. QED BY <1>3, <1>4, <1>5, <1>6, <1>7, <1>8

LEMMA TellingMoves ==
  ASSUME TypeOK, NEW r \in Requests
  PROVE  /\ CheckRecipients(r) /\ req[r].rules # <<>> => Moves(r, {"store", "done", "rule"})
         /\ StoreNotifications(r) => Moves(r, {"done", "rule"})
         /\ WriteNote(r) => Moves(r, {"done"})
  <1>1. Done \in Req /\ Done.pc = "done"
    BY DEF Req, Done
  <1>2. req[r] \in Req
    BY DEF TypeOK
  <1>3. CheckRecipients(r) /\ req[r].rules # <<>> => Moves(r, {"store", "done", "rule"})
    <2>1. SUFFICES ASSUME CheckRecipients(r), req[r].rules # <<>>
                   PROVE  Moves(r, {"store", "done", "rule"})
      OBVIOUS
    <2>2. req[r] \in RuleReq
      BY <1>2, <2>1, ReqIs DEF CheckRecipients, At
    <2>3. req[r].actor \in Users /\ req[r].rules \in Seq(RuleSet)
      BY <2>2 DEF RuleReq
    <2>4. PICK h, left : h = Head(req[r].rules) /\ left = Tail(req[r].rules)
      OBVIOUS
    <2>5. h \in RuleSet /\ left \in Seq(RuleSet)
      BY <2>1, <2>3, <2>4, RuleTypes
    <2>6. PICK to : to = Recipients(req[r].actor, h.to)
      OBVIOUS
    <2>7. h.kind \in Kind /\ to \subseteq Users
      BY <2>5, <2>6 DEF RuleSet, Recipients
    <2>8. PICK x : x = [pc |-> "store", actor |-> req[r].actor, rules |-> left, kind |-> h.kind,
                        to |-> to]
      OBVIOUS
    <2>9. x \in StoreReq /\ x.pc = "store"
      BY <2>3, <2>5, <2>7, <2>8 DEF StoreReq
    <2>10. PICK y : y = [req[r] EXCEPT !.rules = left]
      OBVIOUS
    <2>11. y \in RuleReq /\ y.pc = "rule" /\ y.rules = left
      BY <2>2, <2>5, <2>10 DEF RuleReq
    <2>12. Goto(r, x) \/ Goto(r, Done) \/ (Goto(r, y) /\ left # <<>>)
      BY <2>1, <2>4, <2>6, <2>8, <2>10 DEF CheckRecipients
    <2>13. QED BY <1>1, <2>9, <2>11, <2>12 DEF Moves, Req
  <1>4. StoreNotifications(r) => Moves(r, {"done", "rule"})
    <2>1. SUFFICES ASSUME StoreNotifications(r)
                   PROVE  Moves(r, {"done", "rule"})
      OBVIOUS
    <2>2. req[r] \in StoreReq
      BY <1>2, <2>1, ReqIs DEF StoreNotifications, At
    <2>3. PICK x : x = Telling(r, req[r].actor, req[r].rules)
      OBVIOUS
    <2>4. x \in RuleReq /\ x.pc = "rule" /\ x.rules = req[r].rules
      BY <2>2, <2>3 DEF Telling, StoreReq, RuleReq
    <2>5. Goto(r, Done) \/ (Goto(r, x) /\ req[r].rules # <<>>)
      BY <2>1, <2>3 DEF StoreNotifications
    <2>6. QED BY <1>1, <2>4, <2>5 DEF Moves, Req
  <1>5. WriteNote(r) => Moves(r, {"done"})
    BY <1>1 DEF WriteNote, Moves
  <1>6. QED BY <1>3, <1>4, <1>5

-----------------------------------------------------------------------------
(* A step keeps the types. *)
LEMMA MovesTypes ==
  ASSUME Base, NEW r \in Requests, NEW pcs, Moves(r, pcs)
  PROVE  /\ req' \in [Requests -> Req]
         /\ \A q \in Requests : At(q, "rule")' => req'[q].rules # <<>>
  <1>1. PICK x \in Req : Goto(r, x) /\ (x.pc = "rule" => x.rules # <<>>)
    BY DEF Moves
  <1>2. req' \in [Requests -> Req]
    BY <1>1, GotoTypes DEF Base
  <1>3. req'[r] = x /\ \A q \in Requests : q # r => req'[q] = req[q]
    BY <1>1, GotoReq DEF Base
  <1>4. ASSUME NEW q \in Requests, At(q, "rule")'
        PROVE  req'[q].rules # <<>>
    <2>1. CASE q = r
      BY <1>1, <1>3, <1>4, <2>1 DEF At
    <2>2. CASE q # r
      BY <1>3, <1>4, <2>2 DEF At, Base
    <2>3. QED BY <2>1, <2>2
  <1>5. QED BY <1>2, <1>4

(* A step that moves a request and nothing else. *)
LEMMA OnlyMoves ==
  ASSUME Base, NEW r \in Requests, NEW pcs, Moves(r, pcs),
         UNCHANGED <<plan, deaths, people, telling, phones, notes, contentVars>>
  PROVE  Base'
  BY MovesTypes DEF Base, TypeOK, InboxTypeOK, people, telling, phones, notes, contentVars

LEMMA StartTypes ==
  ASSUME Base, NEW r \in Requests, NEW c \in Call, Start(r, c)
  PROVE  Base'
  <1>1. CASE InboxStart(r, c) /\ UNCHANGED contentVars
    <2>1. CASE GrantOrRevoke(r, c)
      <3>1. c.user \in Users
        BY <2>1 DEF GrantOrRevoke, Call, InboxCall
      <3>2. access' \subseteq Users
        BY <2>1, <3>1 DEF GrantOrRevoke, Base, TypeOK, InboxTypeOK
      <3>3. had' \in [Requests -> SUBSET Users]
        BY <2>1, <3>2 DEF GrantOrRevoke, Base, TypeOK, InboxTypeOK
      <3>4. Moves(r, {"done"})
        BY <2>1, StartMoves DEF Base
      <3>5. QED BY <1>1, <2>1, <3>2, <3>3, <3>4, MovesTypes
                DEF GrantOrRevoke, Base, TypeOK, InboxTypeOK, telling, phones, notes, contentVars
    <2>2. CASE Write(r, c)
      <3>1. Moves(r, {"rule"})
        BY <2>2, StartMoves DEF Base
      <3>2. had' \in [Requests -> SUBSET Users]
        BY <2>2 DEF Write, Published, Base, TypeOK, InboxTypeOK
      <3>3. QED BY <1>1, <2>2, <3>1, <3>2, MovesTypes
                DEF Write, Base, TypeOK, InboxTypeOK, telling, phones, notes, contentVars
    <2>3. CASE ReadOrClear(r, c)
      <3>1. Moves(r, {"done"})
        BY <2>3, StartMoves DEF Base
      <3>2. inbox' \subseteq Notification
        <4>1. PICK chosen \in SUBSET inbox :
                inbox' = CASE c.op = "read" ->
                                (inbox \ chosen) \cup {[n EXCEPT !.read = TRUE] : n \in chosen}
                           [] c.op = "clear" -> inbox \ chosen
                           [] c.op = "clearRead" -> inbox \ {n \in chosen : n.read}
          BY <2>3 DEF ReadOrClear
        <4>2. \A n \in inbox : n \in Notification /\ [n EXCEPT !.read = TRUE] \in Notification
          BY DEF Base, TypeOK, InboxTypeOK, Notification
        <4>3. c.op \in {"read", "clear", "clearRead"}
          BY <2>3 DEF ReadOrClear
        <4>4. QED BY <4>1, <4>2, <4>3
      <3>3. QED BY <1>1, <2>3, <3>1, <3>2, MovesTypes
                DEF ReadOrClear, Base, TypeOK, InboxTypeOK, people, phones, notes, contentVars
    <2>4. CASE Register(r, c)
      <3>1. Moves(r, {"done"})
        BY <2>4, StartMoves DEF Base
      <3>2. c.user \in Users /\ c.token \in Tokens
        BY <2>4 DEF Register, Call, InboxCall
      <3>3. QED BY <1>1, <2>4, <3>1, <3>2, MovesTypes
                DEF Register, Base, TypeOK, InboxTypeOK, people, telling, notes, contentVars
    <2>5. CASE Unregister(r, c)
      <3>1. Moves(r, {"done"})
        BY <2>5, StartMoves DEF Base
      <3>2. QED BY <1>1, <2>5, <3>1, MovesTypes
                DEF Unregister, Unregistered, Base, TypeOK, InboxTypeOK, people, telling, notes,
                    contentVars
    <2>6. CASE ReadNote(r, c)
      <3>1. Moves(r, {"note"})
        BY <2>6, StartMoves DEF Base
      <3>2. QED BY <1>1, <2>6, <3>1, OnlyMoves DEF ReadNote
    <2>7. CASE RemoveNote(r, c)
      <3>1. Moves(r, {"done"})
        BY <2>7, StartMoves DEF Base
      <3>2. note' \in Note
        BY <2>7 DEF RemoveNote, Base, TypeOK, InboxTypeOK, Note
      <3>3. QED BY <1>1, <2>7, <3>1, <3>2, MovesTypes
                DEF RemoveNote, Base, TypeOK, InboxTypeOK, people, telling, phones, contentVars
    <2>8. QED BY <1>1, <2>1, <2>2, <2>3, <2>4, <2>5, <2>6, <2>7 DEF InboxStart
  <1>2. CASE StartComment(r, c)
    BY <1>2, StartMoves, OnlyMoves DEF StartComment, Base
  <1>3. CASE StartEdit(r, c)
    BY <1>3, StartMoves, OnlyMoves DEF StartEdit, Base
  <1>4. CASE StartRemove(r, c)
    BY <1>4, StartMoves, OnlyMoves DEF StartRemove, Base
  <1>5. CASE Upload(r, c)
    BY <1>5, StartMoves, OnlyMoves DEF Upload, Base
  <1>6. CASE RemoveAttachment(r, c)
    BY <1>6, StartMoves, OnlyMoves DEF RemoveAttachment, Base
  <1>7. CASE StartAvatar(r, c)
    <2>1. Moves(r, {"previous"})
      BY <1>7, StartMoves DEF Base
    <2>2. QED BY <1>7, <2>1, MovesTypes
              DEF StartAvatar, Base, TypeOK, InboxTypeOK, people, telling, phones, notes, thread,
                  Made
  <1>8. CASE ReplaceAvatar(r, c)
    <2>1. Moves(r, {"done"})
      BY <1>8, StartMoves DEF Base
    <2>2. avatar' \in [Users -> Made \cup {None, Url}] /\ strays' \subseteq Made
      BY <1>8 DEF ReplaceAvatar, Base, TypeOK
    <2>3. QED BY <1>8, <2>1, <2>2, MovesTypes
              DEF ReplaceAvatar, Base, TypeOK, InboxTypeOK, people, telling, phones, notes, thread
  <1>9. QED BY <1>1, <1>2, <1>3, <1>4, <1>5, <1>6, <1>7, <1>8 DEF Start

LEMMA ProceedTypes ==
  ASSUME Base, NEW r \in Requests, Proceed(r)
  PROVE  Base'
  <1>1. CASE ResolveMentions(r) \/ ResolveEdited(r)
    BY <1>1, CommentMoves, OnlyMoves DEF ResolveMentions, ResolveEdited, Base
  <1>2. CASE InsertComment(r)
    <2>1. Moves(r, {"rule"})
      BY <1>2, CommentMoves DEF Base
    <2>2. req[r] \in CommentReq
      BY <1>2, ReqIs DEF InsertComment, At, Base, TypeOK
    <2>3. [live |-> TRUE, author |-> req[r].user, parent |-> req[r].parent,
           mentions |-> req[r].mentions] \in Comment
      BY <2>2 DEF CommentReq, Comment
    <2>4. /\ \A m \in DOMAIN comments' : m \in Made /\ comments'[m] \in Comment
          /\ comments' = [m \in DOMAIN comments' |-> comments'[m]]
      BY <1>2, <2>3 DEF InsertComment, Base, TypeOK, Made
    <2>5. had' \in [Requests -> SUBSET Users]
      BY <1>2 DEF InsertComment, Published, Base, TypeOK, InboxTypeOK
    <2>6. orphans' \subseteq Made
      BY <1>2 DEF InsertComment, Base, TypeOK, Made
    <2>7. QED BY <1>2, <2>1, <2>4, <2>5, <2>6, MovesTypes
              DEF InsertComment, Base, TypeOK, InboxTypeOK, telling, phones, notes, disk
  <1>3. CASE EditComment(r)
    <2>1. Moves(r, {"done"})
      BY <1>3, CommentMoves DEF Base
    <2>2. req[r] \in EditReq
      BY <1>3, ReqIs DEF EditComment, At, Base, TypeOK
    <2>3. /\ \A m \in DOMAIN comments' : m \in Made /\ comments'[m] \in Comment
          /\ comments' = [m \in DOMAIN comments' |-> comments'[m]]
      <3>1. PICK named : named = req[r].mentions
        OBVIOUS
      <3>2. named \in SUBSET Users
        BY <2>2, <3>1 DEF EditReq
      <3>3. \A m \in DOMAIN comments : [comments[m] EXCEPT !.mentions = named] \in Comment
        BY <3>2 DEF Base, TypeOK, Comment
      <3>4. PICK edited : edited = req[r].comment
        OBVIOUS
      <3>5. comments' = IF Live(edited) THEN [comments EXCEPT ![edited].mentions = named]
                        ELSE comments
        BY <1>3, <3>1, <3>4 DEF EditComment
      <3>6. comments' = [comments EXCEPT ![edited] = [comments[edited] EXCEPT !.mentions = named]]
            \/ comments' = comments
        BY <3>5
      <3>7. QED BY <3>3, <3>6 DEF Base, TypeOK
    <2>4. QED BY <1>3, <2>1, <2>3, MovesTypes
              DEF EditComment, Base, TypeOK, InboxTypeOK, people, telling, phones, notes, disk
  <1>4. CASE RemoveComment(r)
    <2>1. Moves(r, {"done"})
      BY <1>4, CommentMoves DEF Base
    <2>2. /\ \A m \in DOMAIN comments' : m \in Made /\ comments'[m] \in Comment
          /\ comments' = [m \in DOMAIN comments' |-> comments'[m]]
      <3>1. \A m \in DOMAIN comments : [comments[m] EXCEPT !.live = FALSE] \in Comment
        BY DEF Base, TypeOK, Comment
      <3>2. PICK removed : removed = Thread(req[r].comment)
        OBVIOUS
      <3>3. comments' = [m \in DOMAIN comments |->
                           IF m \in removed THEN [comments[m] EXCEPT !.live = FALSE] ELSE comments[m]]
        BY <1>4, <3>2 DEF RemoveComment
      <3>4. QED BY <3>1, <3>3 DEF Base, TypeOK
    <2>3. QED BY <1>4, <2>1, <2>2, MovesTypes
              DEF RemoveComment, Base, TypeOK, InboxTypeOK, people, telling, phones, notes, disk
  <1>5. CASE PutFile(r) \/ InsertRow(r) \/ UndoFile(r)
    <2>1. \E pcs : Moves(r, pcs)
      BY <1>5, FileMoves DEF Base
    <2>2. deaths' \in 0..MaxDeaths
      BY <1>5, InboxAssumption DEF PutFile, InsertRow, UndoFile, Base, TypeOK, InboxTypeOK
    <2>3. QED BY <1>5, <2>1, <2>2, MovesTypes
              DEF PutFile, InsertRow, UndoFile, Base, TypeOK, InboxTypeOK, people, telling, phones,
                  notes, thread, Made
  <1>6. CASE DropRow(r) \/ DropFile(r) \/ UnlinkAvatar(r)
    <2>1. \E pcs : Moves(r, pcs)
      BY <1>6, FileMoves DEF Base
    <2>2. QED BY <1>6, <2>1, MovesTypes
              DEF DropRow, DropFile, UnlinkAvatar, Base, TypeOK, InboxTypeOK, people, telling,
                  phones, notes, thread
  <1>7. CASE ReadAvatar(r)
    BY <1>7, FileMoves, OnlyMoves DEF ReadAvatar, Base
  <1>8. CASE WriteAvatar(r)
    <2>1. Moves(r, {"unlink"})
      BY <1>8, FileMoves DEF Base
    <2>2. req[r] \in FileReq
      BY <1>8, ReqIs DEF WriteAvatar, At, FilePcs, Base, TypeOK
    <2>3. avatar' \in [Users -> Made \cup {None, Url}]
      BY <1>8, <2>2 DEF WriteAvatar, FileReq, Base, TypeOK
    <2>4. strays' \subseteq Made
      BY <1>8 DEF WriteAvatar, Base, TypeOK
    <2>5. QED BY <1>8, <2>1, <2>3, <2>4, MovesTypes
              DEF WriteAvatar, Base, TypeOK, InboxTypeOK, people, telling, phones, notes, thread
  <1>9. CASE DieHandling(r)
    <2>1. Moves(r, {"done"})
      BY <1>9, FileMoves DEF Base
    <2>2. deaths' \in 0..MaxDeaths
      BY <1>9, InboxAssumption DEF DieHandling, Die, Base, TypeOK, InboxTypeOK
    <2>3. strays' \subseteq Made
      BY <1>9 DEF DieHandling, Base, TypeOK
    <2>4. QED BY <1>9, <2>1, <2>2, <2>3, MovesTypes
              DEF DieHandling, Die, Base, TypeOK, InboxTypeOK, people, telling, phones, notes,
                  thread
  <1>10. QED BY <1>1, <1>2, <1>3, <1>4, <1>5, <1>6, <1>7, <1>8, <1>9 DEF Proceed

LEMMA StoredTypes ==
  ASSUME TypeOK, NEW to \in SUBSET Users, NEW from \in Made, NEW kind \in Kind,
         Stored(to, from, kind)
  PROVE  inbox' \subseteq Notification /\ pushes' \subseteq Push
  BY DEF Stored, TypeOK, InboxTypeOK, Notification, Push

LEMMA InboxTypes ==
  ASSUME Base, InboxNext, UNCHANGED contentVars
  PROVE  Base'
  <1>1. ASSUME NEW r \in Requests, CheckRecipients(r)
        PROVE  Base'
    <2>1. Moves(r, {"store", "done", "rule"})
      BY <1>1, TellingMoves DEF Base, CheckRecipients
    <2>2. QED BY <1>1, <2>1, OnlyMoves DEF CheckRecipients
  <1>2. ASSUME NEW r \in Requests, StoreNotifications(r)
        PROVE  Base'
    <2>1. Moves(r, {"done", "rule"})
      BY <1>2, TellingMoves DEF Base
    <2>2. req[r] \in StoreReq
      BY <1>2, ReqIs DEF StoreNotifications, At, Base, TypeOK
    <2>3. inbox' \subseteq Notification /\ pushes' \subseteq Push
      BY <1>2, <2>2, StoredTypes DEF StoreNotifications, StoreReq, Made, Base
    <2>4. QED BY <1>2, <2>1, <2>3, MovesTypes
              DEF StoreNotifications, Base, TypeOK, InboxTypeOK, people, phones, notes, contentVars
  <1>3. ASSUME NEW r \in Requests, WriteNote(r)
        PROVE  Base'
    <2>1. Moves(r, {"done"})
      BY <1>3, TellingMoves DEF Base
    <2>2. req[r] \in NoteReq
      BY <1>3, ReqIs DEF WriteNote, At, Base, TypeOK
    <2>3. note' \in Note
      <3>1. note \in Note /\ r \in Made
        BY DEF Base, TypeOK, InboxTypeOK, Made
      <3>2. PICK at \in Time \cup {None} : at = req[r].at
        BY <2>2 DEF NoteReq
      <3>3. PICK by \in Made : by = IF note.at = at THEN note.by ELSE r
        BY <3>1 DEF Note
      <3>4. [note EXCEPT !.at = at, !.sent = FALSE, !.by = by] \in Note
        BY <3>1 DEF Note
      <3>5. Patched(r) = [note EXCEPT !.at = at, !.sent = FALSE, !.by = by]
        BY <3>1, <3>2, <3>3 DEF Patched, Note
      <3>6. QED BY <1>3, <3>1, <3>4, <3>5 DEF WriteNote
    <2>4. crossed' \subseteq Made
      BY <1>3 DEF WriteNote, Note, Base, TypeOK, InboxTypeOK
    <2>5. QED BY <1>3, <2>1, <2>3, <2>4, MovesTypes
              DEF WriteNote, Base, TypeOK, InboxTypeOK, people, telling, phones, contentVars
  <1>4. ASSUME NEW p \in pushes, FindTokens(p)
        PROVE  Base'
    <2>1. \A found \in SUBSET Tokens : [p EXCEPT !.pc = "send", !.tokens = found] \in Push
      BY DEF Base, TypeOK, InboxTypeOK, Push
    <2>2. pushes' \subseteq Push
      BY <1>4, <2>1 DEF FindTokens, Base, TypeOK, InboxTypeOK
    <2>3. QED BY <1>4, <2>2 DEF FindTokens, Base, At, TypeOK, InboxTypeOK, people, phones, notes,
                                contentVars
  <1>5. ASSUME NEW p \in pushes, SendPush(p)
        PROVE  Base'
    BY <1>5 DEF SendPush, Base, At, TypeOK, InboxTypeOK, people, notes, contentVars
  <1>6. ASSUME NEW d \in Tokens, Uninstall(d)
        PROVE  Base'
    BY <1>6 DEF Uninstall, Base, At, TypeOK, InboxTypeOK, people, telling, notes, contentVars
  <1>7. ASSUME NEW s \in Made, Remind(s)
        PROVE  Base'
    <2>1. inbox' \subseteq Notification /\ pushes' \subseteq Push
      BY <1>7, StoredTypes, InboxAssumption DEF Remind, Base, Kind
    <2>2. reminded' \in [Made -> Nat]
      BY <1>7 DEF Remind, Base, TypeOK, InboxTypeOK
    <2>3. QED BY <1>7, <2>1, <2>2 DEF Remind, Base, At, TypeOK, InboxTypeOK, people, phones,
                                      contentVars
  <1>8. ASSUME NEW s \in Made, LoseReminder(s)
        PROVE  Base'
    <2>1. reminded' \in [Made -> Nat] /\ deaths' \in 0..MaxDeaths
      BY <1>8, InboxAssumption DEF LoseReminder, Base, TypeOK, InboxTypeOK
    <2>2. QED BY <1>8, <2>1 DEF LoseReminder, Base, At, TypeOK, InboxTypeOK, people, telling,
                                phones, contentVars
  <1>9. CASE Tick
    BY <1>9, InboxAssumption DEF Tick, Time, Base, At, TypeOK, InboxTypeOK, people, telling,
                                 phones, contentVars
  <1>10. CASE ClaimReminder
    BY <1>10 DEF ClaimReminder, Note, Base, At, TypeOK, InboxTypeOK, people, telling, phones,
                 contentVars
  <1>11. QED BY <1>1, <1>2, <1>3, <1>4, <1>5, <1>6, <1>7, <1>8, <1>9, <1>10 DEF InboxNext

LEMMA InitBase == Init => Base
  <1>1. SUFFICES ASSUME Init
                 PROVE  Base
    OBVIOUS
  <1>2. InboxTypeOK
    BY <1>1, InboxAssumption DEF Init, InboxInit, InboxTypeOK
  <1>3. req \in [Requests -> Req] /\ \A r \in Requests : req[r].pc = "new"
    BY <1>1 DEF Init, InboxInit, Req, NewReq
  <1>4. /\ \A m \in DOMAIN comments : m \in Made /\ comments[m] \in Comment
        /\ comments = [m \in DOMAIN comments |-> comments[m]]
    BY <1>1, ContentAssumption DEF Init, Made
  <1>5. /\ files \subseteq Made /\ rows \subseteq Made
        /\ avatar \in [Users -> Made \cup {None, Url}]
    BY <1>1, ContentAssumption DEF Init, Made
  <1>6. QED BY <1>1, <1>2, <1>3, <1>4, <1>5 DEF Base, TypeOK, Init, InboxInit, At

(* A step is one of a call, one of a request under way or one of no call. *)
LEMMA Steps ==
  ASSUME Base, [Next]_vars
  PROVE  \/ \E r \in Requests, c \in Call : At(r, "new") /\ Start(r, c)
         \/ \E r \in Requests : Proceed(r)
         \/ InboxNext /\ UNCHANGED contentVars
         \/ UNCHANGED vars
  <1>1. plan.calls \subseteq Call
    BY ContentAssumption DEF Base
  <1>2. QED BY <1>1 DEF Next, Free

LEMMA NextBase == Base /\ [Next]_vars => Base'
  <1>1. ASSUME Base, UNCHANGED vars
        PROVE  Base'
    BY <1>1 DEF vars, inboxVars, contentVars, Base, At, TypeOK, InboxTypeOK
  <1>2. QED BY <1>1, Steps, StartTypes, ProceedTypes, InboxTypes

(* What moves to where, and what stays. *)
LEMMA MovesReq ==
  ASSUME Base, NEW r \in Requests, NEW pcs, Moves(r, pcs)
  PROVE  /\ req'[r].pc \in pcs
         /\ \A q \in Requests : q # r => req'[q] = req[q]
  BY GotoReq DEF Moves, Base

(* What a request does first it does as it starts. *)
FirstPcs == {"new", "note", "mentions", "remention", "remove", "put", "drop", "previous"}

LEMMA FirstSteps ==
  ASSUME Base, [Next]_vars, NEW q \in Requests, req'[q].pc \in FirstPcs, ~At(q, "new")
  PROVE  req'[q] = req[q]
  <1>1. ASSUME NEW r \in Requests, NEW pcs, Moves(r, pcs), r # q \/ pcs \cap FirstPcs = {}
        PROVE  req'[q] = req[q]
    <2>1. PICK x \in Req : Goto(r, x) /\ x.pc \in pcs
      BY <1>1 DEF Moves
    <2>2. req'[r] = x /\ (q # r => req'[q] = req[q])
      BY <2>1, GotoReq DEF Base
    <2>3. QED BY <1>1, <2>1, <2>2
  <1>2. ASSUME NEW r \in Requests, NEW c \in Call, At(r, "new"), Start(r, c)
        PROVE  req'[q] = req[q]
    <2>1. \E pcs : Moves(r, pcs)
      BY <1>2, StartMoves DEF Start, InboxStart, Base
    <2>2. QED BY <1>1, <1>2, <2>1
  <1>3. ASSUME NEW r \in Requests, Proceed(r)
        PROVE  req'[q] = req[q]
    <2>1. \E pcs : Moves(r, pcs) /\ pcs \cap FirstPcs = {}
      <3>1. /\ {"insert"} \cap FirstPcs = {} /\ {"rule"} \cap FirstPcs = {}
            /\ {"edit"} \cap FirstPcs = {} /\ {"done"} \cap FirstPcs = {}
            /\ {"row"} \cap FirstPcs = {} /\ {"done", "undo"} \cap FirstPcs = {}
            /\ {"file"} \cap FirstPcs = {} /\ {"avatar"} \cap FirstPcs = {}
            /\ {"unlink"} \cap FirstPcs = {}
        BY DEF FirstPcs
      <3>2. QED BY <1>3, <3>1, CommentMoves, FileMoves DEF Proceed, Base
    <2>2. QED BY <1>1, <2>1
  <1>4. CASE InboxNext
    <2>1. ASSUME NEW r \in Requests, CheckRecipients(r) \/ StoreNotifications(r) \/ WriteNote(r)
          PROVE  req'[q] = req[q]
      <3>1. /\ {"store", "done", "rule"} \cap FirstPcs = {} /\ {"done"} \cap FirstPcs = {}
            /\ {"done", "rule"} \cap FirstPcs = {}
        BY DEF FirstPcs
      <3>2. QED BY <1>1, <2>1, <3>1, TellingMoves DEF Base, CheckRecipients
    <2>2. QED BY <1>4, <2>1 DEF InboxNext, FindTokens, SendPush, Uninstall, Remind, LoseReminder,
                                Tick, ClaimReminder
  <1>5. CASE UNCHANGED vars
    BY <1>5 DEF vars, inboxVars
  <1>6. QED BY <1>2, <1>3, <1>4, <1>5, Steps

(* Who tells does nothing else until it is done. *)
TellPcs == {"rule", "store", "done"}

LEMMA TellSteps ==
  ASSUME Base, [Next]_vars, NEW q \in Requests, req[q].pc \in TellPcs
  PROVE  req'[q].pc \in TellPcs
  <1>1. ASSUME NEW r \in Requests, NEW pcs, Moves(r, pcs),
               r # q \/ pcs \subseteq TellPcs
        PROVE  req'[q].pc \in TellPcs
    BY <1>1, MovesReq
  <1>2. ASSUME NEW r \in Requests, NEW c \in Call, At(r, "new"), Start(r, c)
        PROVE  req'[q].pc \in TellPcs
    <2>1. \E pcs : Moves(r, pcs)
      BY <1>2, StartMoves DEF Start, InboxStart, Base
    <2>2. r # q
      BY <1>2 DEF At, TellPcs
    <2>3. QED BY <1>1, <2>1, <2>2
  <1>3. ASSUME NEW r \in Requests, Proceed(r)
        PROVE  req'[q].pc \in TellPcs
    <2>1. CASE DieHandling(r)
      BY <1>1, <2>1, FileMoves DEF TellPcs, Base
    <2>2. CASE ~DieHandling(r)
      <3>1. \E pcs : Moves(r, pcs)
        BY <1>3, <2>2, CommentMoves, FileMoves DEF Proceed, Base
      <3>2. r # q
        BY <1>3, <2>2 DEF Proceed, TellPcs, At, ResolveMentions, InsertComment, ResolveEdited,
             EditComment, RemoveComment, PutFile, InsertRow, UndoFile, DropRow, DropFile,
             ReadAvatar, WriteAvatar, UnlinkAvatar
      <3>3. QED BY <1>1, <3>1, <3>2
    <2>3. QED BY <2>1, <2>2
  <1>4. CASE InboxNext
    <2>1. ASSUME NEW r \in Requests, CheckRecipients(r) \/ StoreNotifications(r) \/ WriteNote(r)
          PROVE  req'[q].pc \in TellPcs
      <3>1. /\ {"store", "done", "rule"} \subseteq TellPcs /\ {"done"} \subseteq TellPcs
            /\ {"done", "rule"} \subseteq TellPcs
        BY DEF TellPcs
      <3>2. QED BY <1>1, <2>1, <3>1, TellingMoves DEF Base, CheckRecipients
    <2>2. QED BY <1>4, <2>1 DEF InboxNext, FindTokens, SendPush, Uninstall, Remind, LoseReminder,
                                Tick, ClaimReminder
  <1>5. CASE UNCHANGED vars
    BY <1>5 DEF vars, inboxVars
  <1>6. QED BY <1>2, <1>3, <1>4, <1>5, Steps

(* Types: what every request, notification, delivery, comment, file and     *)
(* avatar is.                                                              *)
THEOREM TypesCorrect == Spec => []TypeOK
  <1>1. Spec => []Base
    BY InitBase, NextBase, PTL DEF Spec
  <1>2. Base => TypeOK
    BY DEF Base
  <1>3. QED BY <1>1, <1>2, PTL

-----------------------------------------------------------------------------
(* Devices: the steps that change what is registered, or who is signed in. *)
PhoneStep ==
  \/ \E r \in Requests, c \in Call : Register(r, c) \/ Unregister(r, c)
  \/ \E d \in Tokens : Uninstall(d)
  \/ \E p \in pushes : SendPush(p)

LEMMA PhoneSteps ==
  ASSUME Base, [Next]_vars
  PROVE  PhoneStep \/ UNCHANGED phones
  <1>1. ASSUME NEW r \in Requests, NEW c \in Call, Start(r, c)
        PROVE  PhoneStep \/ UNCHANGED phones
    <2>1. CASE GrantOrRevoke(r, c) \/ Write(r, c) \/ ReadOrClear(r, c)
      BY <2>1 DEF GrantOrRevoke, Write, ReadOrClear
    <2>2. CASE ReadNote(r, c) \/ RemoveNote(r, c)
      BY <2>2 DEF ReadNote, RemoveNote
    <2>3. CASE Register(r, c) \/ Unregister(r, c)
      BY <2>3 DEF PhoneStep
    <2>4. CASE StartComment(r, c) \/ StartEdit(r, c) \/ StartRemove(r, c)
      BY <2>4 DEF StartComment, StartEdit, StartRemove
    <2>5. CASE Upload(r, c) \/ RemoveAttachment(r, c) \/ StartAvatar(r, c) \/ ReplaceAvatar(r, c)
      BY <2>5 DEF Upload, RemoveAttachment, StartAvatar, ReplaceAvatar
    <2>6. QED BY <1>1, <2>1, <2>2, <2>3, <2>4, <2>5 DEF Start, InboxStart
  <1>2. ASSUME NEW r \in Requests, Proceed(r)
        PROVE  UNCHANGED phones
    <2>1. CASE ResolveMentions(r) \/ ResolveEdited(r) \/ PutFile(r) \/ DropRow(r)
      BY <2>1 DEF ResolveMentions, ResolveEdited, PutFile, DropRow
    <2>2. CASE InsertComment(r) \/ EditComment(r) \/ RemoveComment(r)
      BY <2>2 DEF InsertComment, EditComment, RemoveComment
    <2>3. CASE InsertRow(r) \/ UndoFile(r) \/ DropFile(r) \/ UnlinkAvatar(r)
      BY <2>3 DEF InsertRow, UndoFile, DropFile, UnlinkAvatar
    <2>4. CASE ReadAvatar(r) \/ WriteAvatar(r) \/ DieHandling(r)
      BY <2>4 DEF ReadAvatar, WriteAvatar, DieHandling, Die
    <2>5. QED BY <1>2, <2>1, <2>2, <2>3, <2>4 DEF Proceed
  <1>3. CASE InboxNext
    <2>1. ASSUME NEW r \in Requests, CheckRecipients(r) \/ StoreNotifications(r) \/ WriteNote(r)
          PROVE  UNCHANGED phones
      BY <2>1 DEF CheckRecipients, StoreNotifications, WriteNote
    <2>2. ASSUME NEW p \in pushes, FindTokens(p)
          PROVE  UNCHANGED phones
      BY <2>2 DEF FindTokens
    <2>3. ASSUME NEW s \in Made, Remind(s) \/ LoseReminder(s)
          PROVE  UNCHANGED phones
      BY <2>3 DEF Remind, LoseReminder
    <2>4. CASE Tick \/ ClaimReminder
      BY <2>4 DEF Tick, ClaimReminder
    <2>5. QED BY <1>3, <2>1, <2>2, <2>3, <2>4 DEF InboxNext, PhoneStep
  <1>4. CASE UNCHANGED vars
    BY <1>4 DEF vars, inboxVars, phones
  <1>5. QED BY <1>1, <1>2, <1>3, <1>4, Steps

LEMMA TokenCalls ==
  ASSUME NEW c \in Call, c.op \in {"register", "unregister"}
  PROVE  c.user \in Users /\ c.token \in Tokens
  BY DEF Call, InboxCall

LEMMA InitPhones == Init => DevicesFollowSignIn
  BY DEF Init, InboxInit, DevicesFollowSignIn

LEMMA NextPhones == Base /\ DevicesFollowSignIn /\ [Next]_vars => DevicesFollowSignIn'
  <1>1. SUFFICES ASSUME Base, DevicesFollowSignIn, [Next]_vars
                 PROVE  DevicesFollowSignIn'
    OBVIOUS
  <1>2. ASSUME NEW r \in Requests, NEW c \in Call, Register(r, c)
        PROVE  DevicesFollowSignIn'
    <2>1. c.user \in Users /\ c.token \in Tokens
      BY <1>2, TokenCalls DEF Register
    <2>2. c.user # None
      BY <2>1, InboxAssumption
    <2>3. QED BY <1>1, <1>2, <2>1, <2>2 DEF Register, Base, TypeOK, InboxTypeOK, DevicesFollowSignIn
  <1>3. ASSUME NEW r \in Requests, NEW c \in Call, Unregister(r, c)
        PROVE  DevicesFollowSignIn'
    <2>1. c.user \in Users /\ c.token \in Tokens
      BY <1>3, TokenCalls DEF Unregister
    <2>2. c.user # None
      BY <2>1, InboxAssumption
    <2>3. gone' = gone
      BY <1>3 DEF Unregister
    <2>4. ASSUME NEW d \in Tokens \ gone
          PROVE  {u \in Users : <<u, d>> \in devices'} =
                   IF signedIn'[d] = None THEN {} ELSE {signedIn'[d]}
      <3>1. {u \in Users : <<u, d>> \in devices} =
              IF signedIn[d] = None THEN {} ELSE {signedIn[d]}
        BY <1>1, <2>4 DEF Base, TypeOK, InboxTypeOK, DevicesFollowSignIn
      <3>2. CASE d # c.token
        BY <1>1, <1>3, <2>1, <2>4, <3>1, <3>2
        DEF Unregister, Unregistered, Base, TypeOK, InboxTypeOK
      <3>3. CASE d = c.token
        BY <1>1, <1>3, <2>1, <2>2, <2>4, <3>1, <3>3
        DEF Unregister, Unregistered, Base, TypeOK, InboxTypeOK
      <3>4. QED BY <3>2, <3>3
    <2>5. QED BY <2>3, <2>4 DEF DevicesFollowSignIn
  <1>4. ASSUME NEW d \in Tokens, Uninstall(d)
        PROVE  DevicesFollowSignIn'
    BY <1>1, <1>4 DEF Uninstall, Base, TypeOK, InboxTypeOK, DevicesFollowSignIn
  <1>5. ASSUME NEW p \in pushes, SendPush(p)
        PROVE  DevicesFollowSignIn'
    BY <1>1, <1>5 DEF SendPush, Dead, Base, TypeOK, InboxTypeOK, DevicesFollowSignIn
  <1>6. CASE UNCHANGED phones
    BY <1>1, <1>6 DEF phones, Base, TypeOK, InboxTypeOK, DevicesFollowSignIn
  <1>7. QED BY <1>1, <1>2, <1>3, <1>4, <1>5, <1>6, PhoneSteps DEF PhoneStep

(* A device is registered for who signed in on it last and for nobody else, *)
(* in whatever order sign-ins, sign-outs and deliveries arrive.            *)
THEOREM DevicesCorrect == Spec => []DevicesFollowSignIn
  <1>1. Init => Base /\ DevicesFollowSignIn
    BY InitBase, InitPhones
  <1>2. (Base /\ DevicesFollowSignIn) /\ [Next]_vars => (Base /\ DevicesFollowSignIn)'
    BY NextBase, NextPhones
  <1>3. QED BY <1>1, <1>2, PTL DEF Spec

-----------------------------------------------------------------------------
(* Reminders: the steps that change the note or what is reminded of. *)
settings == <<note, claimed, reminded, crossed>>

ReminderStep ==
  \/ \E r \in Requests, c \in Call : RemoveNote(r, c)
  \/ \E r \in Requests : WriteNote(r)
  \/ ClaimReminder
  \/ \E s \in Made : Remind(s) \/ LoseReminder(s)

LEMMA ReminderSteps ==
  ASSUME Base, [Next]_vars
  PROVE  ReminderStep \/ UNCHANGED settings
  <1>1. ASSUME NEW r \in Requests, NEW c \in Call, Start(r, c)
        PROVE  ReminderStep \/ UNCHANGED settings
    <2>1. CASE GrantOrRevoke(r, c) \/ Write(r, c) \/ ReadOrClear(r, c)
      BY <2>1 DEF GrantOrRevoke, Write, ReadOrClear, notes, settings
    <2>2. CASE ReadNote(r, c) \/ Register(r, c) \/ Unregister(r, c)
      BY <2>2 DEF ReadNote, Register, Unregister, notes, settings
    <2>3. CASE RemoveNote(r, c)
      BY <2>3 DEF ReminderStep
    <2>4. CASE StartComment(r, c) \/ StartEdit(r, c) \/ StartRemove(r, c)
      BY <2>4 DEF StartComment, StartEdit, StartRemove, notes, settings
    <2>5. CASE Upload(r, c) \/ RemoveAttachment(r, c) \/ StartAvatar(r, c) \/ ReplaceAvatar(r, c)
      BY <2>5 DEF Upload, RemoveAttachment, StartAvatar, ReplaceAvatar, notes, settings
    <2>6. QED BY <1>1, <2>1, <2>2, <2>3, <2>4, <2>5 DEF Start, InboxStart
  <1>2. ASSUME NEW r \in Requests, Proceed(r)
        PROVE  UNCHANGED settings
    <2>1. CASE ResolveMentions(r) \/ ResolveEdited(r) \/ PutFile(r) \/ DropRow(r)
      BY <2>1 DEF ResolveMentions, ResolveEdited, PutFile, DropRow, notes, settings
    <2>2. CASE InsertComment(r) \/ EditComment(r) \/ RemoveComment(r)
      BY <2>2 DEF InsertComment, EditComment, RemoveComment, notes, settings
    <2>3. CASE InsertRow(r) \/ UndoFile(r) \/ DropFile(r) \/ UnlinkAvatar(r)
      BY <2>3 DEF InsertRow, UndoFile, DropFile, UnlinkAvatar, notes, settings
    <2>4. CASE ReadAvatar(r) \/ WriteAvatar(r) \/ DieHandling(r)
      BY <2>4 DEF ReadAvatar, WriteAvatar, DieHandling, Die, notes, settings
    <2>5. QED BY <1>2, <2>1, <2>2, <2>3, <2>4 DEF Proceed
  <1>3. CASE InboxNext
    <2>1. ASSUME NEW r \in Requests, CheckRecipients(r) \/ StoreNotifications(r)
          PROVE  UNCHANGED settings
      BY <2>1 DEF CheckRecipients, StoreNotifications, notes, settings
    <2>2. ASSUME NEW p \in pushes, FindTokens(p) \/ SendPush(p)
          PROVE  UNCHANGED settings
      BY <2>2 DEF FindTokens, SendPush, notes, settings
    <2>3. ASSUME NEW d \in Tokens, Uninstall(d)
          PROVE  UNCHANGED settings
      BY <2>3 DEF Uninstall, notes, settings
    <2>4. CASE Tick
      BY <2>4 DEF Tick, settings
    <2>5. QED BY <1>3, <2>1, <2>2, <2>3, <2>4 DEF InboxNext, ReminderStep
  <1>4. CASE UNCHANGED vars
    BY <1>4 DEF vars, inboxVars, settings
  <1>5. QED BY <1>1, <1>2, <1>3, <1>4, Steps

LEMMA InitReminders == Init => ReminderInv
  BY InboxAssumption DEF Init, InboxInit, ReminderInv, SettingOK, Waits, Unset, UnsetOK, Made

LEMMA NextReminders == Base /\ ReminderInv /\ [Next]_vars => ReminderInv'
  <1>1. SUFFICES ASSUME Base, ReminderInv, [Next]_vars
                 PROVE  ReminderInv'
    OBVIOUS
  <1>2. \A r \in Requests : Unset(r)' => Unset(r)
    BY <1>1, FirstSteps DEF Unset, At, FirstPcs
  <1>3. /\ note \in Note /\ claimed \subseteq Made /\ reminded \in [Made -> Nat]
        /\ \A s \in Made : SettingOK(s)
        /\ \A r \in Requests : UnsetOK(r)
    BY <1>1 DEF Base, TypeOK, InboxTypeOK, ReminderInv
  <1>4. ASSUME NEW r \in Requests, NEW c \in Call, RemoveNote(r, c)
        PROVE  ReminderInv'
    <2>1. note'.by = note.by /\ note'.sent = note.sent
      BY <1>3, <1>4 DEF RemoveNote, Note
    <2>2. UNCHANGED <<claimed, reminded, crossed>>
      BY <1>4 DEF RemoveNote
    <2>3. QED BY <1>2, <1>3, <2>1, <2>2 DEF ReminderInv, SettingOK, UnsetOK, Waits
  <1>5. ASSUME NEW r \in Requests, WriteNote(r)
        PROVE  ReminderInv'
    <2>1. Unset(r) /\ ~Unset(r)'
      <3>1. Moves(r, {"done"})
        BY <1>1, <1>5, TellingMoves DEF Base
      <3>2. QED BY <1>1, <1>5, <3>1, GotoReq DEF WriteNote, Moves, Unset, At, Base
    <2>2. UNCHANGED <<claimed, reminded>> /\ crossed \subseteq crossed'
      BY <1>5 DEF WriteNote
    <2>3. \/ note' = note
          \/ note'.by = r
          \/ note'.by = note.by /\ note.by \in crossed'
      BY <1>3, <1>5 DEF WriteNote, Patched, Changes, Note
    <2>4. reminded[r] = 0 /\ r \notin claimed
      BY <1>3, <2>1 DEF UnsetOK
    <2>5. ASSUME NEW s \in Made
          PROVE  SettingOK(s)'
      BY <1>3, <2>2, <2>3, <2>4, <2>5 DEF SettingOK, Waits
    <2>6. ASSUME NEW q \in Requests
          PROVE  UnsetOK(q)'
      BY <1>2, <1>3, <2>1, <2>2, <2>3, <2>6 DEF UnsetOK
    <2>7. QED BY <2>5, <2>6 DEF ReminderInv
  <1>6. ASSUME ClaimReminder
        PROVE  ReminderInv'
    <2>1. note'.by = note.by /\ ~note.sent /\ note'.sent
      BY <1>3, <1>6 DEF ClaimReminder, Remindable, Note
    <2>2. claimed' = claimed \cup {note.by} /\ UNCHANGED <<reminded, crossed>>
      BY <1>6 DEF ClaimReminder
    <2>3. QED BY <1>2, <1>3, <2>1, <2>2 DEF ReminderInv, SettingOK, UnsetOK, Waits
  <1>7. ASSUME NEW s \in Made, Remind(s) \/ LoseReminder(s)
        PROVE  ReminderInv'
    <2>1. /\ s \in claimed /\ claimed' = claimed \ {s}
          /\ reminded' = [reminded EXCEPT ![s] = @ + 1]
          /\ UNCHANGED <<note, crossed>>
      BY <1>7 DEF Remind, LoseReminder
    <2>2. ASSUME NEW t \in Made
          PROVE  SettingOK(t)'
      BY <1>3, <2>1, <2>2 DEF SettingOK, Waits
    <2>3. ASSUME NEW q \in Requests
          PROVE  UnsetOK(q)'
      BY <1>2, <1>3, <2>1, <2>3 DEF UnsetOK, Made
    <2>4. QED BY <2>2, <2>3 DEF ReminderInv
  <1>8. ASSUME UNCHANGED settings
        PROVE  ReminderInv'
    BY <1>2, <1>3, <1>8 DEF settings, ReminderInv, SettingOK, UnsetOK, Waits
  <1>9. QED BY <1>1, <1>4, <1>5, <1>6, <1>7, <1>8, ReminderSteps DEF ReminderStep

(* A time that was set for a note is reminded of once, whatever schedulers, *)
(* updates and deaths do, unless two updates set it side by side.          *)
THEOREM RemindersCorrect == Spec => []RemindedOnce
  <1>1. Init => Base /\ ReminderInv
    BY InitBase, InitReminders
  <1>2. (Base /\ ReminderInv) /\ [Next]_vars => (Base /\ ReminderInv)'
    BY NextBase, NextReminders
  <1>3. Base /\ ReminderInv => RemindedOnce
    BY DEF ReminderInv, SettingOK, RemindedOnce
  <1>4. QED BY <1>1, <1>2, <1>3, PTL DEF Spec

-----------------------------------------------------------------------------
(* Comments: the steps that make or change one, or are about to. *)
ThreadStep ==
  \/ \E r \in Requests, c \in Call : At(r, "new") /\ (StartComment(r, c) \/ StartRemove(r, c))
  \/ \E r \in Requests : ResolveMentions(r) \/ InsertComment(r) \/ EditComment(r) \/ RemoveComment(r)

ThreadPcs == {"mentions", "insert", "remove"}
ThreadQuiet ==
  /\ UNCHANGED thread
  /\ \A q \in Requests : req'[q] = req[q] \/ req'[q].pc \notin ThreadPcs

LEMMA MovesPast ==
  ASSUME Base, NEW r \in Requests, NEW pcs, Moves(r, pcs), NEW some, pcs \cap some = {}
  PROVE  \A q \in Requests : req'[q] = req[q] \/ req'[q].pc \notin some
  BY MovesReq

LEMMA ThreadSteps ==
  ASSUME Base, [Next]_vars
  PROVE  ThreadStep \/ ThreadQuiet
  <1>1. ASSUME NEW r \in Requests, NEW c \in Call, At(r, "new"), Start(r, c)
        PROVE  ThreadStep \/ ThreadQuiet
    <2>1. CASE InboxStart(r, c) /\ UNCHANGED contentVars
      <3>1. \E pcs : Moves(r, pcs) /\ pcs \cap ThreadPcs = {}
        <4>1. /\ {"done"} \cap ThreadPcs = {} /\ {"rule"} \cap ThreadPcs = {}
              /\ {"note"} \cap ThreadPcs = {}
          BY DEF ThreadPcs
        <4>2. QED BY <2>1, <4>1, StartMoves DEF InboxStart, Base
      <3>2. QED BY <2>1, <3>1, MovesPast DEF ThreadQuiet, thread, contentVars
    <2>2. CASE StartComment(r, c) \/ StartRemove(r, c)
      BY <1>1, <2>2 DEF ThreadStep
    <2>3. CASE StartEdit(r, c)
      <3>1. {"remention", "done"} \cap ThreadPcs = {}
        BY DEF ThreadPcs
      <3>2. QED BY <2>3, <3>1, StartMoves, MovesPast
                DEF StartEdit, ThreadQuiet, thread, contentVars, Base
    <2>4. CASE Upload(r, c) \/ RemoveAttachment(r, c) \/ StartAvatar(r, c) \/ ReplaceAvatar(r, c)
      <3>1. \E pcs : Moves(r, pcs) /\ pcs \cap ThreadPcs = {}
        <4>1. /\ {"put", "done"} \cap ThreadPcs = {} /\ {"drop", "done"} \cap ThreadPcs = {}
              /\ {"previous"} \cap ThreadPcs = {} /\ {"done"} \cap ThreadPcs = {}
          BY DEF ThreadPcs
        <4>2. QED BY <2>4, <4>1, StartMoves DEF Base
      <3>2. UNCHANGED thread
        BY <2>4 DEF Upload, RemoveAttachment, StartAvatar, ReplaceAvatar, thread, contentVars
      <3>3. QED BY <3>1, <3>2, MovesPast DEF ThreadQuiet
    <2>5. QED BY <1>1, <2>1, <2>2, <2>3, <2>4 DEF Start
  <1>2. ASSUME NEW r \in Requests, Proceed(r)
        PROVE  ThreadStep \/ ThreadQuiet
    <2>1. CASE ResolveMentions(r) \/ InsertComment(r) \/ EditComment(r) \/ RemoveComment(r)
      BY <2>1 DEF ThreadStep
    <2>2. ASSUME ~(ResolveMentions(r) \/ InsertComment(r) \/ EditComment(r) \/ RemoveComment(r))
          PROVE  ThreadQuiet
      <3>1. \E pcs : Moves(r, pcs) /\ pcs \cap ThreadPcs = {}
        <4>1. /\ {"edit"} \cap ThreadPcs = {} /\ {"done"} \cap ThreadPcs = {}
              /\ {"row"} \cap ThreadPcs = {} /\ {"done", "undo"} \cap ThreadPcs = {}
              /\ {"file"} \cap ThreadPcs = {} /\ {"avatar"} \cap ThreadPcs = {}
              /\ {"unlink"} \cap ThreadPcs = {}
          BY DEF ThreadPcs
        <4>2. QED BY <1>2, <2>2, <4>1, CommentMoves, FileMoves DEF Proceed, Base
      <3>2. UNCHANGED thread
        BY <1>2, <2>2 DEF Proceed, ResolveEdited, PutFile, InsertRow, UndoFile, DropRow, DropFile,
                          ReadAvatar, WriteAvatar, UnlinkAvatar, DieHandling, thread, contentVars
      <3>3. QED BY <3>1, <3>2, MovesPast DEF ThreadQuiet
    <2>3. QED BY <2>1, <2>2
  <1>3. CASE InboxNext /\ UNCHANGED contentVars
    <2>1. \A q \in Requests : req'[q] = req[q] \/ req'[q].pc \notin ThreadPcs
      <3>1. ASSUME NEW r \in Requests, CheckRecipients(r) \/ StoreNotifications(r) \/ WriteNote(r)
            PROVE  \A q \in Requests : req'[q] = req[q] \/ req'[q].pc \notin ThreadPcs
        <4>1. /\ {"store", "done", "rule"} \cap ThreadPcs = {} /\ {"done"} \cap ThreadPcs = {}
              /\ {"done", "rule"} \cap ThreadPcs = {}
          BY DEF ThreadPcs
        <4>2. \E pcs : Moves(r, pcs) /\ pcs \cap ThreadPcs = {}
          BY <3>1, <4>1, TellingMoves DEF Base, CheckRecipients
        <4>3. QED BY <4>2, MovesPast
      <3>2. QED BY <1>3, <3>1 DEF InboxNext, FindTokens, SendPush, Uninstall, Remind, LoseReminder,
                                  Tick, ClaimReminder
    <2>2. QED BY <1>3, <2>1 DEF ThreadQuiet, thread, contentVars
  <1>4. CASE UNCHANGED vars
    BY <1>4 DEF vars, inboxVars, contentVars, thread, ThreadQuiet
  <1>5. QED BY <1>1, <1>2, <1>3, <1>4, Steps

(* A step that leaves the comments as they are to each other. *)
LEMMA SameThread ==
  ASSUME Base, ThreadInv, DOMAIN comments' = DOMAIN comments, orphans \subseteq orphans',
         \A m \in DOMAIN comments :
           /\ comments'[m].parent = comments[m].parent
           /\ comments'[m].live => comments[m].live,
         \A m \in DOMAIN comments :
           /\ comments'[m].live
           /\ comments[m].parent \in DOMAIN comments /\ comments[comments[m].parent].live
           => comments'[comments[m].parent].live
  PROVE  TwoLevels' /\ RepliesAnchored'
  <1>1. TwoLevels'
    BY DEF ThreadInv, TwoLevels
  <1>2. ASSUME NEW m \in DOMAIN comments, Live(m)', comments'[m].parent # None
        PROVE  TopLevel(comments[m].parent)' \/ m \in orphans'
    <2>1. PICK p : p = comments[m].parent
      OBVIOUS
    <2>2. comments'[m].parent = p /\ comments'[m].live
      BY <1>2, <2>1 DEF Live
    <2>3. p \in DOMAIN comments /\ (TopLevel(p) \/ m \in orphans)
      BY <1>2, <2>1, <2>2 DEF ThreadInv, TwoLevels, RepliesAnchored, Live
    <2>4. TopLevel(p)' \/ m \in orphans'
      BY <2>1, <2>2, <2>3 DEF TopLevel, Live
    <2>5. QED BY <2>2, <2>4
  <1>3. RepliesAnchored'
    <2>1. \A m \in DOMAIN comments' : m \in DOMAIN comments
      OBVIOUS
    <2>2. QED BY <1>2, <2>1 DEF RepliesAnchored
  <1>4. QED BY <1>1, <1>3

LEMMA SameReqs ==
  ASSUME Base, ThreadInv, [Next]_vars, NEW q \in Requests,
         DOMAIN comments' = DOMAIN comments,
         \A m \in DOMAIN comments : comments'[m].parent = comments[m].parent,
         req'[q] = req[q] \/ req'[q].pc \notin ThreadPcs
  PROVE  CommentReqOK(q)'
  <1>1. CommentReqOK(q)
    BY DEF ThreadInv
  <1>2. q \in DOMAIN comments => req'[q].pc \in {"rule", "store", "done"}
    BY <1>1, TellSteps DEF CommentReqOK, TellPcs
  <1>3. QED BY <1>1, <1>2 DEF CommentReqOK, ThreadPcs, At

LEMMA InitThread == Init => ThreadInv
  BY ContentAssumption, InboxAssumption
  DEF Init, InboxInit, ThreadInv, TwoLevels, RepliesAnchored, Live, CommentReqOK, At, NewReq

LEMMA NextThread == Base /\ ThreadInv /\ [Next]_vars => ThreadInv'
  <1>1. SUFFICES ASSUME Base, ThreadInv, [Next]_vars
                 PROVE  ThreadInv'
    OBVIOUS
  <1>2. CASE ThreadQuiet
    BY <1>1, <1>2, SameThread, SameReqs DEF ThreadQuiet, thread, ThreadInv
  <1>3. ASSUME NEW r \in Requests, NEW c \in Call, StartComment(r, c), At(r, "new")
        PROVE  ThreadInv'
    <2>1. UNCHANGED thread
      BY <1>3 DEF StartComment, thread, contentVars
    <2>2. Moves(r, {"mentions", "done"})
      BY <1>1, <1>3, StartMoves DEF Base
    <2>3. ASSUME NEW q \in Requests, q # r
          PROVE  CommentReqOK(q)'
      BY <1>1, <2>1, <2>2, <2>3, MovesReq, SameReqs DEF thread
    <2>4. r \notin DOMAIN comments
      BY <1>1, <1>3 DEF ThreadInv, CommentReqOK, At
    <2>5. CASE c.user \in access /\ (c.parent = None \/ TopLevel(c.parent))
      <3>1. req'[r] = [pc |-> "mentions", user |-> c.user, parent |-> c.parent,
                       mentions |-> c.mentions]
        BY <1>1, <1>3, <2>5, GotoReq DEF StartComment, Base
      <3>2. CommentReqOK(r)'
        BY <2>1, <2>4, <2>5, <3>1 DEF CommentReqOK, At, thread, TopLevel, Live
      <3>3. QED BY <1>1, <2>1, <2>3, <3>2, SameThread DEF thread, ThreadInv
    <2>6. CASE ~(c.user \in access /\ (c.parent = None \/ TopLevel(c.parent)))
      <3>1. req'[r] = Done
        BY <1>1, <1>3, <2>6, GotoReq DEF StartComment, Base
      <3>2. CommentReqOK(r)'
        BY <2>1, <2>4, <3>1 DEF CommentReqOK, At, thread, Done
      <3>3. QED BY <1>1, <2>1, <2>3, <3>2, SameThread DEF thread, ThreadInv
    <2>7. QED BY <2>5, <2>6
  <1>4. ASSUME NEW r \in Requests, NEW c \in Call, StartRemove(r, c), At(r, "new")
        PROVE  ThreadInv'
    <2>1. UNCHANGED thread
      BY <1>4 DEF StartRemove, thread, contentVars
    <2>2. Moves(r, {"remove", "done"})
      BY <1>1, <1>4, StartMoves DEF Base
    <2>3. ASSUME NEW q \in Requests, q # r
          PROVE  CommentReqOK(q)'
      BY <1>1, <2>1, <2>2, <2>3, MovesReq, SameReqs DEF thread
    <2>4. r \notin DOMAIN comments
      BY <1>1, <1>4 DEF ThreadInv, CommentReqOK, At
    <2>5. \/ req'[r] = Done
          \/ req'[r] = [pc |-> "remove", comment |-> c.comment] /\ Live(c.comment)
      BY <1>1, <1>4, GotoReq DEF StartRemove, MayManage, Base
    <2>6. CommentReqOK(r)'
      BY <2>1, <2>4, <2>5 DEF CommentReqOK, At, thread, Done, Live
    <2>7. QED BY <1>1, <2>1, <2>3, <2>6, SameThread DEF thread, ThreadInv
  <1>5. ASSUME NEW r \in Requests, ResolveMentions(r)
        PROVE  ThreadInv'
    <2>1. UNCHANGED thread
      BY <1>5 DEF ResolveMentions, thread, contentVars
    <2>2. Moves(r, {"insert"})
      BY <1>1, <1>5, CommentMoves DEF Base
    <2>3. ASSUME NEW q \in Requests, q # r
          PROVE  CommentReqOK(q)'
      BY <1>1, <2>1, <2>2, <2>3, MovesReq, SameReqs DEF thread
    <2>4. req[r] \in CommentReq
      BY <1>1, <1>5, ReqIs DEF ResolveMentions, At, Base, TypeOK
    <2>5. req'[r] = [req[r] EXCEPT !.pc = "insert",
                                   !.mentions = Visible(req[r].user, req[r].mentions)]
      BY <1>1, <1>5 DEF ResolveMentions, Base, TypeOK
    <2>6. req'[r].pc = "insert" /\ req'[r].parent = req[r].parent
      BY <2>4, <2>5 DEF CommentReq
    <2>7. CommentReqOK(r)'
      BY <1>1, <1>5, <2>1, <2>6 DEF ThreadInv, ResolveMentions, CommentReqOK, At, thread
    <2>8. QED BY <1>1, <2>1, <2>3, <2>7, SameThread DEF thread, ThreadInv
  <1>6. ASSUME NEW r \in Requests, InsertComment(r)
        PROVE  ThreadInv'
    <2>1. PICK p : p = req[r].parent
      OBVIOUS
    <2>2. r \notin DOMAIN comments /\ r # None /\ r # p
      BY <1>1, <1>6, <2>1, InboxAssumption DEF ThreadInv, CommentReqOK, InsertComment, At, Made
    <2>3. p # None => p \in DOMAIN comments /\ comments[p].parent = None
      BY <1>1, <1>6, <2>1 DEF ThreadInv, CommentReqOK, InsertComment, At
    <2>4. /\ DOMAIN comments' = DOMAIN comments \cup {r}
          /\ comments'[r].parent = p
          /\ \A m \in DOMAIN comments : comments'[m] = comments[m]
      BY <1>6, <2>1, <2>2 DEF InsertComment
    <2>5. /\ orphans \subseteq orphans'
          /\ p = None \/ Live(p) \/ r \in orphans'
      BY <1>6, <2>1 DEF InsertComment
    <2>6. TwoLevels'
      BY <1>1, <2>2, <2>3, <2>4 DEF ThreadInv, TwoLevels
    <2>7. RepliesAnchored'
      BY <1>1, <2>2, <2>3, <2>4, <2>5 DEF ThreadInv, TwoLevels, RepliesAnchored, TopLevel, Live
    <2>8. Moves(r, {"rule"})
      BY <1>1, <1>6, CommentMoves DEF Base
    <2>9. ASSUME NEW q \in Requests
          PROVE  CommentReqOK(q)'
      <3>1. CommentReqOK(q)
        BY <1>1 DEF ThreadInv
      <3>2. CASE q = r
        BY <1>1, <2>8, <3>2, MovesReq DEF CommentReqOK, At
      <3>3. CASE q # r
        <4>1. req'[q] = req[q]
          BY <1>1, <2>8, <3>3, MovesReq
        <4>2. QED BY <2>2, <2>4, <3>1, <3>3, <4>1 DEF CommentReqOK, At
      <3>4. QED BY <3>2, <3>3
    <2>10. QED BY <2>6, <2>7, <2>9 DEF ThreadInv
  <1>7. ASSUME NEW r \in Requests, EditComment(r)
        PROVE  ThreadInv'
    <2>1. /\ DOMAIN comments' = DOMAIN comments /\ orphans' = orphans
          /\ \A m \in DOMAIN comments : /\ comments'[m].parent = comments[m].parent
                                        /\ comments'[m].live = comments[m].live
      BY <1>1, <1>7 DEF EditComment, Base, TypeOK, Comment
    <2>2. Moves(r, {"done"})
      BY <1>1, <1>7, CommentMoves DEF Base
    <2>3. \A q \in Requests : CommentReqOK(q)'
      BY <1>1, <2>1, <2>2, MovesReq, SameReqs DEF ThreadPcs
    <2>4. QED BY <1>1, <2>1, <2>3, SameThread DEF ThreadInv
  <1>8. ASSUME NEW r \in Requests, RemoveComment(r)
        PROVE  ThreadInv'
    <2>1. PICK t : t = req[r].comment
      OBVIOUS
    <2>2. PICK removed : removed = Thread(t)
      OBVIOUS
    <2>3. comments' = [q \in DOMAIN comments |->
            IF q \in removed THEN [comments[q] EXCEPT !.live = FALSE] ELSE comments[q]]
      BY <1>8, <2>1, <2>2 DEF RemoveComment
    <2>4. \A q \in DOMAIN comments : /\ [comments[q] EXCEPT !.live = FALSE].parent = comments[q].parent
                                     /\ ~[comments[q] EXCEPT !.live = FALSE].live
      BY <1>1 DEF Base, TypeOK, Comment
    <2>5. /\ DOMAIN comments' = DOMAIN comments
          /\ \A m \in DOMAIN comments : /\ comments'[m].parent = comments[m].parent
                                        /\ m \in removed => ~comments'[m].live
                                        /\ m \notin removed => comments'[m] = comments[m]
      BY <2>3, <2>4
    <2>6. t \in DOMAIN comments /\ t # None
      BY <1>1, <1>8, <2>1, InboxAssumption DEF RemoveComment, ThreadInv, CommentReqOK, At, Base, TypeOK
    <2>7. ASSUME NEW m \in DOMAIN comments, m \notin removed, comments[m].parent \in removed
          PROVE  FALSE
      <3>1. comments[m].parent # t
        BY <2>2, <2>7 DEF Thread
      <3>2. /\ comments[m].parent \in DOMAIN comments
            /\ comments[comments[m].parent].parent = t
        BY <2>2, <2>7, <3>1 DEF Thread
      <3>3. comments[m].parent # None
        BY <1>1, <3>2, InboxAssumption DEF Base, TypeOK
      <3>4. QED BY <1>1, <2>6, <3>2, <3>3 DEF ThreadInv, TwoLevels
    <2>8. orphans' = orphans
      BY <1>8 DEF RemoveComment
    <2>9. TwoLevels' /\ RepliesAnchored'
      <3>1. \A m \in DOMAIN comments : comments'[m].live => m \notin removed /\ comments[m].live
        BY <2>5
      <3>2. QED BY <1>1, <2>5, <2>7, <2>8, <3>1, SameThread
    <2>10. Moves(r, {"done"})
      BY <1>1, <1>8, CommentMoves DEF Base
    <2>11. \A q \in Requests : CommentReqOK(q)'
      BY <1>1, <2>5, <2>10, MovesReq, SameReqs DEF ThreadPcs
    <2>12. QED BY <2>9, <2>11 DEF ThreadInv
  <1>9. QED BY <1>1, <1>2, <1>3, <1>4, <1>5, <1>6, <1>7, <1>8, ThreadSteps DEF ThreadStep

(* A reply that is listed answers a comment that is, or one that was        *)
(* removed after the reply had looked for it, however removals and replies *)
(* cross.                                                                  *)
THEOREM RepliesCorrect == Spec => []RepliesAnchored
  <1>1. Init => Base /\ ThreadInv
    BY InitBase, InitThread
  <1>2. (Base /\ ThreadInv) /\ [Next]_vars => (Base /\ ThreadInv)'
    BY NextBase, NextThread
  <1>3. ThreadInv => RepliesAnchored
    BY DEF ThreadInv
  <1>4. QED BY <1>1, <1>2, <1>3, PTL DEF Spec

-----------------------------------------------------------------------------
(* Telling: what any step leaves.  Who is past making a comment stays so,   *)
(* and with it whether there is one and whose.                             *)
FreshStays == \A q \in Requests : Fresh(q)' => Fresh(q)
SaysStays ==
  \A s \in Made :
    (s \in Requests => ~Fresh(s)) =>
      /\ Says(s)' <=> Says(s)
      /\ Says(s) => comments'[s].author = comments[s].author

LEMMA FreshSteps ==
  ASSUME Base, [Next]_vars
  PROVE  FreshStays
  <1>1. ASSUME NEW q \in Requests, req'[q].pc \in {"new", "mentions"}
        PROVE  Fresh(q)
    BY <1>1, FirstSteps DEF FirstPcs, Fresh, At
  <1>2. ASSUME NEW q \in Requests, At(q, "insert")'
        PROVE  Fresh(q)
    <2>1. CASE ThreadQuiet
      BY <1>2, <2>1 DEF ThreadQuiet, ThreadPcs, At, Fresh
    <2>2. ASSUME NEW r \in Requests, NEW c \in Call, At(r, "new"),
                 StartComment(r, c) \/ StartRemove(r, c)
          PROVE  Fresh(q)
      <3>1. CASE q = r
        BY <2>2, <3>1 DEF Fresh
      <3>2. CASE q # r
        <4>1. \E pcs : Moves(r, pcs)
          BY <2>2, StartMoves DEF Base
        <4>2. QED BY <1>2, <3>2, <4>1, MovesReq DEF Fresh, At
      <3>3. QED BY <3>1, <3>2
    <2>3. ASSUME NEW r \in Requests, ResolveMentions(r)
          PROVE  Fresh(q)
      <3>1. CASE q = r
        BY <2>3, <3>1 DEF ResolveMentions, Fresh
      <3>2. CASE q # r
        BY <1>2, <2>3, <3>2, CommentMoves, MovesReq DEF Fresh, At, Base
      <3>3. QED BY <3>1, <3>2
    <2>4. ASSUME NEW r \in Requests, InsertComment(r) \/ EditComment(r) \/ RemoveComment(r)
          PROVE  Fresh(q)
      <3>1. \E pcs : Moves(r, pcs) /\ "insert" \notin pcs
        BY <2>4, CommentMoves DEF Base
      <3>2. QED BY <1>2, <3>1, MovesReq DEF Fresh, At
    <2>5. QED BY <2>1, <2>2, <2>3, <2>4, ThreadSteps DEF ThreadStep
  <1>3. QED BY <1>1, <1>2 DEF FreshStays, Fresh, At

LEMMA SaysSteps ==
  ASSUME Base, [Next]_vars
  PROVE  SaysStays
  <1>1. CASE UNCHANGED comments
    BY <1>1 DEF SaysStays, Says
  <1>2. ASSUME NEW r \in Requests, InsertComment(r)
        PROVE  SaysStays
    <2>1. /\ DOMAIN comments' = DOMAIN comments \cup {r}
          /\ \A m \in DOMAIN comments : m # r => comments'[m] = comments[m]
      BY <1>2 DEF InsertComment
    <2>2. Fresh(r)
      BY <1>2 DEF InsertComment, Fresh
    <2>3. QED BY <2>1, <2>2 DEF SaysStays, Says
  <1>3. ASSUME NEW r \in Requests, EditComment(r) \/ RemoveComment(r)
        PROVE  SaysStays
    <2>1. \A m \in DOMAIN comments :
            [comments[m] EXCEPT !.live = FALSE].author = comments[m].author
      BY DEF Base, TypeOK, Comment
    <2>2. DOMAIN comments' = DOMAIN comments
      BY <1>3 DEF EditComment, RemoveComment
    <2>3. \A m \in DOMAIN comments : comments'[m].author = comments[m].author
      <3>1. CASE EditComment(r)
        <4>1. PICK to : to = req[r].mentions
          OBVIOUS
        <4>2. \A m \in DOMAIN comments :
                comments'[m] \in {comments[m], [comments[m] EXCEPT !.mentions = to]}
          BY <3>1, <4>1 DEF EditComment, Base
        <4>3. \A m \in DOMAIN comments :
                [comments[m] EXCEPT !.mentions = to].author = comments[m].author
          BY DEF Base, TypeOK, Comment
        <4>4. QED BY <4>2, <4>3
      <3>2. CASE RemoveComment(r)
        <4>1. \A m \in DOMAIN comments :
                comments'[m] \in {comments[m], [comments[m] EXCEPT !.live = FALSE]}
          BY <3>2 DEF RemoveComment
        <4>2. QED BY <2>1, <4>1
      <3>3. QED BY <1>3, <3>1, <3>2
    <2>4. QED BY <2>2, <2>3 DEF SaysStays, Says
  <1>4. QED BY <1>1, <1>2, <1>3, ThreadSteps
            DEF ThreadStep, ThreadQuiet, thread, StartComment, StartRemove, ResolveMentions, contentVars

(* A setting of the note is made by a request that makes no comment. *)
LEMMA NextNotes ==
  ASSUME Base, ThreadInv, TellingInv, [Next]_vars
  PROVE  NotesApart'
  <1>1. FreshStays /\ SaysStays
    BY FreshSteps, SaysSteps
  <1>2. note.by \in Made /\ claimed \subseteq Made
    BY DEF Base, TypeOK, InboxTypeOK, Note
  <1>3. ASSUME NEW s \in claimed \cup {note.by}
        PROVE  ~Says(s)' /\ (s \in Requests => ~Fresh(s)')
    BY <1>1, <1>2, <1>3 DEF TellingInv, NotesApart, FreshStays, SaysStays
  <1>4. CASE claimed' \cup {note'.by} \subseteq claimed \cup {note.by}
    BY <1>3, <1>4 DEF NotesApart
  <1>5. ASSUME NEW r \in Requests, WriteNote(r)
        PROVE  NotesApart'
    <2>1. claimed' = claimed /\ note'.by \in {note.by, r}
      BY <1>5 DEF WriteNote, Patched, Note, Base, TypeOK, InboxTypeOK
    <2>2. ~Says(r) /\ ~Fresh(r) /\ r \in Made
      BY <1>5 DEF WriteNote, At, Says, Fresh, ThreadInv, CommentReqOK, Made
    <2>3. ~Says(r)' /\ ~Fresh(r)'
      BY <1>1, <2>2 DEF FreshStays, SaysStays
    <2>4. QED BY <1>3, <2>1, <2>3 DEF NotesApart
  <1>6. ASSUME NEW r \in Requests, NEW c \in Call, RemoveNote(r, c)
        PROVE  claimed' \cup {note'.by} \subseteq claimed \cup {note.by}
    BY <1>6 DEF RemoveNote, Note, Base, TypeOK, InboxTypeOK
  <1>7. ASSUME ClaimReminder
        PROVE  claimed' \cup {note'.by} \subseteq claimed \cup {note.by}
    BY <1>7 DEF ClaimReminder, Note, Base, TypeOK, InboxTypeOK
  <1>8. ASSUME NEW s \in Made, Remind(s) \/ LoseReminder(s)
        PROVE  claimed' \cup {note'.by} \subseteq claimed \cup {note.by}
    BY <1>8 DEF Remind, LoseReminder
  <1>9. ASSUME UNCHANGED settings
        PROVE  claimed' \cup {note'.by} \subseteq claimed \cup {note.by}
    BY <1>9 DEF settings
  <1>10. QED BY <1>4, <1>5, <1>6, <1>7, <1>8, <1>9, ReminderSteps DEF ReminderStep

(* Who tells, sees who sees the project, and is told, changes in these; no  *)
(* other step begins to tell.                                              *)
TellingStep ==
  \/ \E r \in Requests, c \in Call :
       /\ At(r, "new") /\ UNCHANGED comments
       /\ GrantOrRevoke(r, c) \/ Write(r, c) \/ ReadOrClear(r, c)
  \/ \E r \in Requests :
       \/ InsertComment(r)
       \/ (CheckRecipients(r) \/ StoreNotifications(r)) /\ UNCHANGED comments
  \/ \E s \in Made : Remind(s)

TellingPcs == {"rule", "store"}
TellingQuiet ==
  /\ UNCHANGED <<inbox, access, had>>
  /\ \A q \in Requests : req'[q] = req[q] \/ req'[q].pc \notin TellingPcs

LEMMA TellingSteps ==
  ASSUME Base, [Next]_vars
  PROVE  TellingStep \/ TellingQuiet
  <1>1. ASSUME NEW r \in Requests, NEW c \in Call, At(r, "new"), Start(r, c)
        PROVE  TellingStep \/ TellingQuiet
    <2>1. CASE (GrantOrRevoke(r, c) \/ Write(r, c) \/ ReadOrClear(r, c)) /\ UNCHANGED contentVars
      BY <1>1, <2>1 DEF TellingStep, contentVars
    <2>2. ASSUME ~((GrantOrRevoke(r, c) \/ Write(r, c) \/ ReadOrClear(r, c)) /\ UNCHANGED contentVars)
          PROVE  TellingQuiet
      <3>1. \E pcs : Moves(r, pcs) /\ pcs \cap TellingPcs = {}
        <4>1. /\ {"done"} \cap TellingPcs = {} /\ {"note"} \cap TellingPcs = {}
              /\ {"mentions", "done"} \cap TellingPcs = {} /\ {"remention", "done"} \cap TellingPcs = {}
              /\ {"remove", "done"} \cap TellingPcs = {} /\ {"put", "done"} \cap TellingPcs = {}
              /\ {"drop", "done"} \cap TellingPcs = {} /\ {"previous"} \cap TellingPcs = {}
          BY DEF TellingPcs
        <4>2. QED BY <1>1, <2>2, <4>1, StartMoves DEF Start, InboxStart, Base
      <3>2. UNCHANGED <<inbox, access, had>>
        BY <1>1, <2>2 DEF Start, InboxStart, Register, Unregister, ReadNote, RemoveNote, StartComment,
             StartEdit, StartRemove, Upload, RemoveAttachment, StartAvatar, ReplaceAvatar, people,
             telling
      <3>3. QED BY <3>1, <3>2, MovesPast DEF TellingQuiet
    <2>3. QED BY <2>1, <2>2
  <1>2. ASSUME NEW r \in Requests, Proceed(r)
        PROVE  TellingStep \/ TellingQuiet
    <2>1. CASE InsertComment(r)
      BY <2>1 DEF TellingStep
    <2>2. ASSUME ~InsertComment(r)
          PROVE  TellingQuiet
      <3>1. \E pcs : Moves(r, pcs) /\ pcs \cap TellingPcs = {}
        <4>1. /\ {"edit"} \cap TellingPcs = {} /\ {"done"} \cap TellingPcs = {}
              /\ {"row"} \cap TellingPcs = {} /\ {"done", "undo"} \cap TellingPcs = {}
              /\ {"file"} \cap TellingPcs = {} /\ {"avatar"} \cap TellingPcs = {}
              /\ {"unlink"} \cap TellingPcs = {} /\ {"insert"} \cap TellingPcs = {}
          BY DEF TellingPcs
        <4>2. QED BY <1>2, <2>2, <4>1, CommentMoves, FileMoves DEF Proceed, Base
      <3>2. UNCHANGED <<inbox, access, had>>
        BY <1>2, <2>2 DEF Proceed, ResolveMentions, ResolveEdited, EditComment, RemoveComment,
             PutFile, InsertRow, UndoFile, DropRow, DropFile, ReadAvatar, WriteAvatar,
             UnlinkAvatar, DieHandling, Die, people, telling
      <3>3. QED BY <3>1, <3>2, MovesPast DEF TellingQuiet
    <2>3. QED BY <2>1, <2>2
  <1>3. CASE InboxNext /\ UNCHANGED contentVars
    <2>1. ASSUME NEW r \in Requests, WriteNote(r)
          PROVE  TellingQuiet
      <3>1. Moves(r, {"done"}) /\ {"done"} \cap TellingPcs = {}
        BY <2>1, TellingMoves DEF Base, TellingPcs
      <3>2. QED BY <2>1, <3>1, MovesPast DEF WriteNote, TellingQuiet, people, telling
    <2>2. ASSUME NEW p \in pushes, FindTokens(p) \/ SendPush(p)
          PROVE  TellingQuiet
      BY <2>2 DEF FindTokens, SendPush, TellingQuiet, people, telling
    <2>3. ASSUME NEW s \in Made, LoseReminder(s)
          PROVE  TellingQuiet
      BY <2>3 DEF LoseReminder, TellingQuiet, people, telling
    <2>4. ASSUME NEW d \in Tokens, Uninstall(d)
          PROVE  TellingQuiet
      BY <2>4 DEF Uninstall, TellingQuiet, people, telling
    <2>5. CASE Tick \/ ClaimReminder
      BY <2>5 DEF Tick, ClaimReminder, TellingQuiet, people, telling
    <2>6. QED BY <1>3, <2>1, <2>2, <2>3, <2>4, <2>5 DEF InboxNext, TellingStep, contentVars
  <1>4. CASE UNCHANGED vars
    BY <1>4 DEF vars, inboxVars, TellingQuiet
  <1>5. QED BY <1>1, <1>2, <1>3, <1>4, Steps

(* A listener that is where it was, while nobody is told on its behalf and  *)
(* the project is seen by those it knows of.                               *)
LEMMA TellerKept ==
  ASSUME Base, SaysStays, NEW q \in Requests, TellerOK(q),
         req'[q] = req[q] \/ req'[q].pc \notin TellingPcs,
         Tells(q) => access' \subseteq had'[q] /\ had[q] \subseteq had'[q],
         \A n \in inbox' : n.from = q => \E k \in inbox : k.from = q /\ k.user = n.user
  PROVE  TellerOK(q)'
  <1>1. CASE ~Tells(q)'
    BY <1>1 DEF TellerOK, SeesOK, SaysOnce, OwnKinds, Tells, At
  <1>2. CASE Tells(q)'
    <2>1. req'[q] = req[q] /\ Tells(q)
      BY <1>2 DEF Tells, At, TellingPcs
    <2>2. (Says(q)' <=> Says(q)) /\ (Says(q) => comments'[q].author = comments[q].author)
      BY <2>1 DEF SaysStays, Tells, Fresh, At, Made
    <2>3. SeesOK(q)'
      BY <2>1 DEF TellerOK, SeesOK, Tells, At
    <2>4. \A to : Untold(q, to) => Untold(q, to)'
      BY DEF Untold
    <2>5. SaysOnce(q)'
      BY <2>1, <2>2, <2>4 DEF TellerOK, SaysOnce, Tells, At
    <2>6. OwnKinds(q)'
      BY <2>1, <2>2 DEF TellerOK, OwnKinds, Tells, At
    <2>7. QED BY <2>3, <2>5, <2>6 DEF TellerOK
  <1>3. QED BY <1>1, <1>2

(* What was stored stays told once, whatever is read or deleted of it. *)
LEMMA ToldKept ==
  ASSUME Base, FreshStays, SaysStays, TellingInv,
         NEW f, \A m \in inbox' : \E n \in inbox : m = f[n] /\ m.user = n.user /\ m.from = n.from
                                                   /\ m.kind = n.kind,
         \A r \in Requests : ~Fresh(r) => had[r] \subseteq had'[r]
  PROVE  (\A m \in inbox' : ToldOnce(m)') /\ ToldWhoSees'
  <1>1. ASSUME NEW n \in inbox
        PROVE  /\ n.from \in Made /\ ToldOnce(n)
               /\ Says(n.from)' <=> Says(n.from)
               /\ Says(n.from) => comments'[n.from].author = comments[n.from].author
               /\ n.from \in Requests => ~Fresh(n.from)'
               /\ n.kind # "NOTE" => n.user \in had'[n.from]
    <2>1. n.from \in Made /\ ToldOnce(n)
      BY DEF TellingInv, Base, TypeOK, InboxTypeOK, Notification
    <2>2. n.from \in Requests => ~Fresh(n.from) /\ ~Fresh(n.from)'
      BY <2>1 DEF ToldOnce, FreshStays
    <2>3. n.kind # "NOTE" => n.user \in had'[n.from]
      BY <2>1, <2>2 DEF TellingInv, ToldWhoSees, ToldOnce
    <2>4. QED BY <2>1, <2>2, <2>3 DEF SaysStays
  <1>2. ASSUME NEW m \in inbox'
        PROVE  ToldOnce(m)' /\ (m.kind # "NOTE" => m.user \in had'[m.from])
    <2>1. PICK n \in inbox : m = f[n] /\ m.user = n.user /\ m.from = n.from /\ m.kind = n.kind
      BY <1>2
    <2>2. /\ m.kind \in AboutComments => Says(m.from)'
          /\ m.kind # "NOTE" => m.from \in Requests /\ m.user \in had'[m.from]
          /\ m.from \in Requests => ~Fresh(m.from)'
          /\ Says(m.from)' => comments'[m.from].author # m.user
      BY <1>1, <2>1 DEF ToldOnce
    <2>3. ASSUME Says(m.from)', NEW k \in inbox', k.user = m.user, k.from = m.from
          PROVE  k = m
      <3>1. PICK l \in inbox : k = f[l] /\ k.user = l.user /\ k.from = l.from
        BY <2>3
      <3>2. l = n
        BY <1>1, <2>1, <2>3, <3>1 DEF ToldOnce
      <3>3. QED BY <2>1, <3>1, <3>2
    <2>4. QED BY <2>2, <2>3 DEF ToldOnce
  <1>3. QED BY <1>2 DEF ToldWhoSees

(* New ones are told once if nobody who is told already is among them, and  *)
(* neither is the author of the comment they are about.                    *)
LEMMA ToldNew ==
  ASSUME Base, FreshStays, SaysStays, TellingInv, UNCHANGED had,
         NEW to \in SUBSET Users, NEW s \in Made, NEW kind \in Kind, Stored(to, s, kind),
         s \in Requests => ~Fresh(s),
         kind \in AboutComments => Says(s),
         kind # "NOTE" => s \in Requests /\ to \subseteq had[s],
         Says(s) => Untold(s, to) /\ comments[s].author \notin to
  PROVE  (\A m \in inbox' : ToldOnce(m)') /\ ToldWhoSees'
  <1>1. PICK new : new = [user : to, from : {s}, kind : {kind}, read : {FALSE}]
    OBVIOUS
  <1>2. inbox' = inbox \cup new
    BY <1>1 DEF Stored
  <1>3. \A m \in new : m.user \in to /\ m.from = s /\ m.kind = kind
    BY <1>1
  <1>4. \A m, k \in new : m.user = k.user => m = k
    <2>1. ASSUME NEW m \in [user : to, from : {s}, kind : {kind}, read : {FALSE}],
                 NEW k \in [user : to, from : {s}, kind : {kind}, read : {FALSE}],
                 m.user = k.user
          PROVE  m = k
      <3>1. m.from = k.from /\ m.kind = k.kind /\ m.read = k.read
        OBVIOUS
      <3>2. QED BY <2>1, <3>1
    <2>2. QED BY <1>1, <2>1
  <1>5. ASSUME NEW n \in inbox
        PROVE  /\ n.from \in Made /\ ToldOnce(n)
               /\ Says(n.from)' <=> Says(n.from)
               /\ Says(n.from) => comments'[n.from].author = comments[n.from].author
               /\ n.from \in Requests => ~Fresh(n.from)'
               /\ n.kind # "NOTE" => n.user \in had[n.from]
    <2>1. n.from \in Made /\ ToldOnce(n)
      BY DEF TellingInv, Base, TypeOK, InboxTypeOK, Notification
    <2>2. n.from \in Requests => ~Fresh(n.from) /\ ~Fresh(n.from)'
      BY <2>1 DEF ToldOnce, FreshStays
    <2>3. n.kind # "NOTE" => n.user \in had[n.from]
      BY <2>1 DEF TellingInv, ToldWhoSees
    <2>4. QED BY <2>1, <2>2, <2>3 DEF SaysStays
  <1>6. /\ Says(s)' <=> Says(s)
        /\ Says(s) => comments'[s].author = comments[s].author
        /\ s \in Requests => ~Fresh(s)'
    BY DEF SaysStays, FreshStays
  <1>7. \A n \in inbox, m \in new : Says(s) /\ n.from = s => n.user # m.user
    BY <1>3 DEF Untold
  <1>8. ASSUME NEW m \in inbox
        PROVE  ToldOnce(m)'
    BY <1>2, <1>3, <1>5, <1>7, <1>8 DEF ToldOnce
  <1>9. ASSUME NEW m \in new
        PROVE  ToldOnce(m)'
    <2>1. \A k \in inbox' : Says(s) /\ k.user = m.user /\ k.from = s => k = m
      BY <1>2, <1>4, <1>7, <1>9
    <2>2. QED BY <1>3, <1>6, <1>9, <2>1 DEF ToldOnce
  <1>10. ToldWhoSees'
    BY <1>2, <1>3, <1>5 DEF ToldWhoSees
  <1>11. QED BY <1>2, <1>8, <1>9, <1>10

(* A step that tells nobody and takes the steps of one request that tells   *)
(* afterwards, if it does, as it should.                                   *)
LEMMA TellersKept ==
  ASSUME Base, TellingInv, FreshStays, SaysStays,
         NEW r, r \in Requests => TellerOK(r)',
         \A q \in Requests : q # r => req'[q] = req[q] \/ req'[q].pc \notin TellingPcs,
         \A q \in Requests : q # r /\ Tells(q) => access' \subseteq had'[q] /\ had[q] \subseteq had'[q],
         \A n \in inbox' : n.from # r => \E k \in inbox : k.from = n.from /\ k.user = n.user
  PROVE  \A q \in Requests : TellerOK(q)'
  <1>1. ASSUME NEW q \in Requests, q # r
        PROVE  TellerOK(q)'
    BY <1>1, TellerKept DEF TellingInv
  <1>2. QED BY <1>1

LEMMA InitTelling == Init => TellingInv
  <1>1. SUFFICES ASSUME Init
                 PROVE  TellingInv
    OBVIOUS
  <1>2. note.by = Earlier /\ claimed = {} /\ inbox = {}
    BY <1>1, InboxAssumption DEF Init, InboxInit
  <1>3. \A r \in Requests : TellerOK(r)
    BY <1>1 DEF Init, InboxInit, NewReq, TellerOK, SeesOK, SaysOnce, OwnKinds, Tells, At
  <1>4. NotesApart
    BY <1>2, InboxAssumption DEF NotesApart, Says
  <1>5. QED BY <1>2, <1>3, <1>4 DEF TellingInv, ToldWhoSees

LEMMA NextTelling == Base /\ ThreadInv /\ TellingInv /\ [Next]_vars => TellingInv'
  <1>1. SUFFICES ASSUME Base, ThreadInv, TellingInv, [Next]_vars
                 PROVE  TellingInv'
    OBVIOUS
  <1>2. FreshStays /\ SaysStays /\ NotesApart'
    BY <1>1, FreshSteps, SaysSteps, NextNotes
  <1>3. PICK same : same = [n \in inbox |-> n]
    OBVIOUS
  <1>4. \A n \in inbox : same[n] = n
    BY <1>3
  <1>5. /\ had \in [Requests -> SUBSET Users]
        /\ \A q \in Requests : TellerOK(q) /\ (Tells(q) => access \subseteq had[q])
    BY <1>1 DEF Base, TypeOK, InboxTypeOK, TellingInv, TellerOK, SeesOK
  <1>6. ASSUME TellingQuiet
        PROVE  TellingInv'
    <2>1. \A q \in Requests : TellerOK(q)'
      BY <1>1, <1>2, <1>5, <1>6, TellerKept DEF TellingQuiet
    <2>2. (\A m \in inbox' : ToldOnce(m)') /\ ToldWhoSees'
      BY <1>1, <1>2, <1>4, <1>6, ToldKept DEF TellingQuiet
    <2>3. QED BY <1>2, <2>1, <2>2 DEF TellingInv
  <1>7. ASSUME NEW r \in Requests, NEW c \in Call, At(r, "new"), GrantOrRevoke(r, c)
        PROVE  TellingInv'
    <2>1. /\ inbox' = inbox
          /\ \A q \in Requests : had[q] \subseteq had'[q]
          /\ \A q \in Requests : Tells(q) => access' \subseteq had'[q]
      BY <1>5, <1>7 DEF GrantOrRevoke, telling, Tells
    <2>2. Moves(r, {"done"}) /\ {"done"} \cap TellingPcs = {}
      BY <1>1, <1>7, StartMoves DEF Base, TellingPcs
    <2>3. \A q \in Requests : TellerOK(q)'
      BY <1>1, <1>2, <1>5, <2>1, <2>2, MovesPast, TellerKept
    <2>4. (\A m \in inbox' : ToldOnce(m)') /\ ToldWhoSees'
      BY <1>1, <1>2, <1>4, <2>1, ToldKept
    <2>5. QED BY <1>2, <2>3, <2>4 DEF TellingInv
  <1>8. ASSUME NEW r \in Requests, NEW c \in Call, At(r, "new"), Write(r, c), UNCHANGED comments
        PROVE  TellingInv'
    <2>1. /\ inbox' = inbox /\ access' = access
          /\ had'[r] = access
          /\ \A q \in Requests : q # r => had'[q] = had[q]
      BY <1>5, <1>8 DEF Write, Published, telling
    <2>2. req'[r] = Telling(r, c.user, EventRules(c)) /\ \A q \in Requests : q # r => req'[q] = req[q]
      BY <1>1, <1>8, GotoReq DEF Write, Base
    <2>3. ~Says(r)' /\ Fresh(r)
      BY <1>1, <1>8 DEF ThreadInv, CommentReqOK, Says, At, Fresh
    <2>4. \A i \in 1..Len(EventRules(c)) : EventRules(c)[i].kind \notin AboutComments
      <3>1. \A to : /\ Rule("ASSIGNED", to).kind \notin AboutComments
                    /\ Rule("MEMBER", to).kind \notin AboutComments
                    /\ Rule("STATUS", to).kind \notin AboutComments
        BY DEF Rule, AboutComments
      <3>2. CASE c.op = "created"
        BY <3>1, <3>2 DEF EventRules
      <3>3. CASE c.op = "joined"
        BY <3>1, <3>3 DEF EventRules
      <3>4. CASE c.op = "task"
        BY <3>1, <3>4 DEF EventRules
      <3>5. QED BY <1>8, <3>2, <3>3, <3>4 DEF Write
    <2>5. TellerOK(r)'
      <3>1. At(r, "rule")' /\ ~At(r, "store")' /\ req'[r].rules = EventRules(c)
        BY <2>2 DEF Telling, At
      <3>2. QED BY <2>1, <2>3, <2>4, <3>1 DEF TellerOK, SeesOK, SaysOnce, OwnKinds, Tells
    <2>6. \A q \in Requests : TellerOK(q)'
      BY <1>1, <1>2, <1>5, <2>1, <2>2, <2>5, TellersKept
    <2>7. (\A m \in inbox' : ToldOnce(m)') /\ ToldWhoSees'
      BY <1>1, <1>2, <1>4, <2>1, <2>3, ToldKept
    <2>8. QED BY <1>2, <2>6, <2>7 DEF TellingInv
  <1>9. ASSUME NEW r \in Requests, NEW c \in Call, At(r, "new"), ReadOrClear(r, c)
        PROVE  TellingInv'
    <2>1. PICK chosen \in SUBSET inbox :
            inbox' = CASE c.op = "read" ->
                            (inbox \ chosen) \cup {[n EXCEPT !.read = TRUE] : n \in chosen}
                       [] c.op = "clear" -> inbox \ chosen
                       [] c.op = "clearRead" -> inbox \ {n \in chosen : n.read}
      BY <1>9 DEF ReadOrClear
    <2>2. c.op \in {"read", "clear", "clearRead"} /\ UNCHANGED <<had, access>>
      BY <1>9 DEF ReadOrClear, people
    <2>3. \A n \in inbox : /\ [n EXCEPT !.read = TRUE].user = n.user
                           /\ [n EXCEPT !.read = TRUE].from = n.from
                           /\ [n EXCEPT !.read = TRUE].kind = n.kind
      BY <1>1 DEF Base, TypeOK, InboxTypeOK, Notification
    <2>4. \E f : \A m \in inbox' : \E n \in inbox : m = f[n] /\ m.user = n.user /\ m.from = n.from
                                                   /\ m.kind = n.kind
      <3>1. CASE c.op = "read"
        <4>1. PICK f : f = [n \in inbox |-> IF n \in chosen THEN [n EXCEPT !.read = TRUE] ELSE n]
          OBVIOUS
        <4>2. \A m \in inbox' : \E n \in inbox :
                \/ n \notin chosen /\ m = n
                \/ n \in chosen /\ m = [n EXCEPT !.read = TRUE]
          BY <2>1, <3>1
        <4>3. ASSUME NEW m \in inbox'
              PROVE  \E n \in inbox : m = f[n] /\ m.user = n.user /\ m.from = n.from
                                     /\ m.kind = n.kind
          <5>1. PICK n \in inbox : \/ n \notin chosen /\ m = n
                                   \/ n \in chosen /\ m = [n EXCEPT !.read = TRUE]
            BY <4>2, <4>3
          <5>2. m = f[n]
            <6>1. CASE n \notin chosen
              BY <4>1, <5>1, <6>1
            <6>2. CASE n \in chosen
              <7>1. PICK x : x = [n EXCEPT !.read = TRUE]
                OBVIOUS
              <7>2. f[n] = IF n \in chosen THEN [n EXCEPT !.read = TRUE] ELSE n
                BY <4>1
              <7>3. QED BY <5>1, <6>2, <7>2
            <6>3. QED BY <6>1, <6>2
          <5>3. m.user = n.user /\ m.from = n.from /\ m.kind = n.kind
            BY <2>3, <5>1
          <5>4. QED BY <5>2, <5>3
        <4>4. QED BY <4>3
      <3>2. CASE c.op # "read"
        <4>1. inbox' \subseteq inbox
          BY <2>1, <2>2, <3>2
        <4>2. QED BY <1>4, <4>1
      <3>3. QED BY <3>1, <3>2
    <2>5. Moves(r, {"done"}) /\ {"done"} \cap TellingPcs = {}
      BY <1>1, <1>9, StartMoves DEF Base, TellingPcs
    <2>6. \A q \in Requests : TellerOK(q)'
      BY <1>1, <1>2, <1>5, <2>2, <2>4, <2>5, MovesPast, TellerKept
    <2>7. (\A m \in inbox' : ToldOnce(m)') /\ ToldWhoSees'
      BY <1>1, <1>2, <2>2, <2>4, ToldKept
    <2>8. QED BY <1>2, <2>6, <2>7 DEF TellingInv
  <1>10. ASSUME NEW r \in Requests, InsertComment(r)
        PROVE  TellingInv'
    <2>1. /\ inbox' = inbox /\ access' = access
          /\ had'[r] = access
          /\ \A q \in Requests : q # r => had'[q] = had[q]
      BY <1>5, <1>10 DEF InsertComment, Published, telling
    <2>2. PICK rules : rules = CommentRules(req[r].user, req[r].mentions)
      OBVIOUS
    <2>3. /\ req'[r] = Telling(r, req[r].user, rules)
          /\ \A q \in Requests : q # r => req'[q] = req[q]
      BY <1>1, <1>10, <2>2, GotoReq DEF InsertComment, Base
    <2>4. /\ At(r, "rule")' /\ ~At(r, "store")'
          /\ req'[r].rules = rules /\ req'[r].actor = req[r].user
      BY <2>3 DEF Telling, At
    <2>5. Says(r)' /\ comments'[r].author = req[r].user /\ Fresh(r)
      BY <1>10 DEF InsertComment, Says, Fresh
    <2>6. \A n \in inbox : n.from # r
      BY <1>1, <2>5 DEF TellingInv, ToldOnce
    <2>7. \A i, j \in 1..Len(rules) : i # j => rules[i].to \cap rules[j].to = {}
      BY <2>2 DEF CommentRules, Rule
    <2>8. TellerOK(r)'
      BY <2>1, <2>4, <2>5, <2>6, <2>7 DEF TellerOK, SeesOK, SaysOnce, OwnKinds, Tells, Untold
    <2>9. \A q \in Requests : TellerOK(q)'
      BY <1>1, <1>2, <1>5, <2>1, <2>3, <2>8, TellersKept
    <2>10. (\A m \in inbox' : ToldOnce(m)') /\ ToldWhoSees'
      BY <1>1, <1>2, <1>4, <2>1, <2>5, ToldKept
    <2>11. QED BY <1>2, <2>9, <2>10 DEF TellingInv
  <1>11. ASSUME NEW r \in Requests, CheckRecipients(r), UNCHANGED comments
        PROVE  TellingInv'
    <2>1. UNCHANGED <<inbox, access, had>>
      BY <1>11 DEF CheckRecipients, people, telling
    <2>2. At(r, "rule") /\ req[r] \in RuleReq /\ req[r].rules # <<>>
      BY <1>1, <1>11, ReqIs DEF CheckRecipients, At, Base, TypeOK
    <2>3. PICK actor, rules : actor = req[r].actor /\ rules = req[r].rules
      OBVIOUS
    <2>4. PICK to, left : to = Recipients(actor, Head(rules).to) /\ left = Tail(rules)
      OBVIOUS
    <2>5. /\ rules \in Seq(RuleSet) /\ rules # <<>>
          /\ Len(left) = Len(rules) - 1 /\ Head(rules) = rules[1]
          /\ \A i \in 1..Len(left) : i + 1 \in 1..Len(rules) /\ left[i] = rules[i + 1]
      BY <2>2, <2>3, <2>4 DEF RuleReq
    <2>6. /\ to \subseteq access /\ actor \notin to /\ to \subseteq rules[1].to
          /\ 1 \in 1..Len(rules)
      BY <2>4, <2>5 DEF Recipients
    <2>7. PICK kind : kind = rules[1].kind
      OBVIOUS
    <2>8. /\ \/ req'[r] = [pc |-> "store", actor |-> actor, rules |-> left, kind |-> kind, to |-> to]
             \/ req'[r] = Done
             \/ req'[r] = [req[r] EXCEPT !.rules = left]
          /\ \A q \in Requests : q # r => req'[q] = req[q]
      <3>1. PICK x : /\ Goto(r, x)
                     /\ \/ x = [pc |-> "store", actor |-> actor, rules |-> left, kind |-> kind,
                                to |-> to]
                        \/ x = Done
                        \/ x = [req[r] EXCEPT !.rules = left]
        BY <1>11, <2>3, <2>4, <2>5, <2>7 DEF CheckRecipients
      <3>2. QED BY <1>1, <3>1, GotoReq DEF Base
    <2>9. /\ Says(r) => /\ actor = comments[r].author
                        /\ \A i \in 1..Len(rules) : Untold(r, rules[i].to)
                        /\ \A i, j \in 1..Len(rules) : i # j => rules[i].to \cap rules[j].to = {}
          /\ ~Says(r) => \A i \in 1..Len(rules) : rules[i].kind \notin AboutComments
      BY <1>5, <2>2, <2>3 DEF TellerOK, SaysOnce, OwnKinds, Tells
    <2>10. /\ Says(r) => /\ \A i \in 1..Len(left) : Untold(r, left[i].to)
                         /\ \A i, j \in 1..Len(left) : i # j => left[i].to \cap left[j].to = {}
                         /\ \A i \in 1..Len(left) : left[i].to \cap to = {}
                         /\ Untold(r, to)
           /\ ~Says(r) => /\ \A i \in 1..Len(left) : left[i].kind \notin AboutComments
                          /\ kind \notin AboutComments
      <3>1. Len(left) \in Nat /\ \A i, j \in 1..Len(left) : i # j => i + 1 # j + 1 /\ i + 1 # 1
        BY <2>5
      <3>2. Says(r) => /\ \A i \in 1..Len(left) : Untold(r, left[i].to)
                       /\ \A i, j \in 1..Len(left) : i # j => left[i].to \cap left[j].to = {}
        BY <2>5, <2>9, <3>1
      <3>3. Says(r) => \A i \in 1..Len(left) : left[i].to \cap to = {}
        <4>1. \A i \in 1..Len(left) : i + 1 # 1
          BY <3>1
        <4>2. QED BY <2>5, <2>6, <2>9, <4>1
      <3>4. Says(r) => Untold(r, to)
        BY <2>6, <2>9 DEF Untold
      <3>5. ~Says(r) => /\ \A i \in 1..Len(left) : left[i].kind \notin AboutComments
                        /\ kind \notin AboutComments
        BY <2>5, <2>6, <2>7, <2>9
      <3>6. QED BY <3>2, <3>3, <3>4, <3>5
    <2>11. access \subseteq had[r]
      BY <1>5, <2>2 DEF Tells
    <2>12. Says(r)' <=> Says(r)
      BY <1>11 DEF Says
    <2>13. \A p : Untold(r, p) => Untold(r, p)'
      BY <2>1 DEF Untold
    <2>14. TellerOK(r)'
      <3>1. CASE req'[r] = [pc |-> "store", actor |-> actor, rules |-> left, kind |-> kind, to |-> to]
        <4>1. /\ At(r, "store")' /\ ~At(r, "rule")'
              /\ req'[r].actor = actor /\ req'[r].rules = left /\ req'[r].kind = kind
              /\ req'[r].to = to
          BY <3>1 DEF At
        <4>2. SeesOK(r)'
          BY <2>1, <2>6, <2>11, <4>1 DEF SeesOK
        <4>3. SaysOnce(r)'
          BY <1>11, <2>6, <2>9, <2>10, <2>12, <2>13, <4>1 DEF SaysOnce
        <4>4. OwnKinds(r)'
          BY <2>10, <2>12, <4>1 DEF OwnKinds
        <4>5. QED BY <4>2, <4>3, <4>4 DEF TellerOK
      <3>2. CASE req'[r] = Done
        BY <3>2 DEF Done, At, TellerOK, SeesOK, SaysOnce, OwnKinds, Tells
      <3>3. CASE req'[r] = [req[r] EXCEPT !.rules = left]
        <4>1. /\ At(r, "rule")' /\ ~At(r, "store")'
              /\ req'[r].actor = actor /\ req'[r].rules = left
          BY <2>2, <2>3, <3>3 DEF At, RuleReq
        <4>2. SeesOK(r)'
          BY <2>1, <2>11, <4>1 DEF SeesOK
        <4>3. SaysOnce(r)'
          BY <1>11, <2>9, <2>10, <2>12, <2>13, <4>1 DEF SaysOnce
        <4>4. OwnKinds(r)'
          BY <2>10, <2>12, <4>1 DEF OwnKinds
        <4>5. QED BY <4>2, <4>3, <4>4 DEF TellerOK
      <3>4. QED BY <2>8, <3>1, <3>2, <3>3
    <2>15. \A q \in Requests : TellerOK(q)'
      BY <1>1, <1>2, <1>5, <2>1, <2>8, <2>14, TellersKept
    <2>16. (\A m \in inbox' : ToldOnce(m)') /\ ToldWhoSees'
      BY <1>1, <1>2, <1>4, <2>1, ToldKept
    <2>17. QED BY <1>2, <2>15, <2>16 DEF TellingInv
  <1>12. ASSUME NEW r \in Requests, StoreNotifications(r), UNCHANGED comments
        PROVE  TellingInv'
    <2>1. At(r, "store") /\ req[r] \in StoreReq
      BY <1>1, <1>12, ReqIs DEF StoreNotifications, At, Base, TypeOK
    <2>2. PICK actor, rules, kind, to : /\ actor = req[r].actor /\ rules = req[r].rules
                                        /\ kind = req[r].kind /\ to = req[r].to
      OBVIOUS
    <2>3. kind \in Kind /\ to \in SUBSET Users /\ Stored(to, r, kind)
      BY <1>12, <2>1, <2>2 DEF StoreReq, StoreNotifications
    <2>4. UNCHANGED <<access, had>> /\ r \in Made
      BY <1>12 DEF StoreNotifications, people, Made
    <2>5. /\ req'[r] = Done \/ req'[r] = Telling(r, actor, rules)
          /\ \A q \in Requests : q # r => req'[q] = req[q]
      <3>1. PICK x : Goto(r, x) /\ (x = Done \/ x = Telling(r, actor, rules))
        BY <1>12, <2>2 DEF StoreNotifications
      <3>2. QED BY <1>1, <3>1, GotoReq DEF Base
    <2>6. /\ Says(r) => /\ actor = comments[r].author /\ actor \notin to /\ Untold(r, to)
                        /\ \A i \in 1..Len(rules) : Untold(r, rules[i].to)
                        /\ \A i, j \in 1..Len(rules) : i # j => rules[i].to \cap rules[j].to = {}
                        /\ \A i \in 1..Len(rules) : rules[i].to \cap to = {}
          /\ ~Says(r) => /\ \A i \in 1..Len(rules) : rules[i].kind \notin AboutComments
                         /\ kind \notin AboutComments
          /\ access \subseteq had[r] /\ to \subseteq had[r]
      BY <1>5, <2>1, <2>2 DEF TellerOK, SeesOK, SaysOnce, OwnKinds, Tells
    <2>7. ~Fresh(r)
      BY <2>1 DEF Fresh, At
    <2>8. (\A m \in inbox' : ToldOnce(m)') /\ ToldWhoSees'
      BY <1>1, <1>2, <2>3, <2>4, <2>6, <2>7, ToldNew
    <2>9. \A n \in inbox' : n \in inbox \/ (n.from = r /\ n.user \in to)
      BY <2>3 DEF Stored
    <2>10. \A p : Untold(r, p) /\ p \cap to = {} => Untold(r, p)'
      BY <2>9 DEF Untold
    <2>11. Says(r)' <=> Says(r)
      BY <1>12 DEF Says
    <2>12. TellerOK(r)'
      <3>1. CASE req'[r] = Done
        BY <3>1 DEF Done, At, TellerOK, SeesOK, SaysOnce, OwnKinds, Tells
      <3>2. CASE req'[r] = Telling(r, actor, rules)
        <4>1. /\ At(r, "rule")' /\ ~At(r, "store")'
              /\ req'[r].actor = actor /\ req'[r].rules = rules
          BY <3>2 DEF At, Telling
        <4>2. SeesOK(r)'
          BY <2>4, <2>6, <4>1 DEF SeesOK
        <4>3. SaysOnce(r)'
          BY <1>12, <2>6, <2>10, <2>11, <4>1 DEF SaysOnce
        <4>4. OwnKinds(r)'
          BY <2>6, <2>11, <4>1 DEF OwnKinds
        <4>5. QED BY <4>2, <4>3, <4>4 DEF TellerOK
      <3>3. QED BY <2>5, <3>1, <3>2
    <2>13. \A n \in inbox' : n.from # r => \E k \in inbox : k.from = n.from /\ k.user = n.user
      BY <2>9
    <2>14. \A q \in Requests : TellerOK(q)'
      BY <1>1, <1>2, <1>5, <2>4, <2>5, <2>12, <2>13, TellersKept
    <2>15. QED BY <1>2, <2>8, <2>14 DEF TellingInv
  <1>13. ASSUME NEW s \in Made, Remind(s)
        PROVE  TellingInv'
    <2>1. /\ Stored({NoteOf}, s, "NOTE") /\ {NoteOf} \in SUBSET Users /\ "NOTE" \in Kind
          /\ "NOTE" \notin AboutComments
          /\ UNCHANGED <<req, access, had>>
      BY <1>13, InboxAssumption DEF Remind, people, Kind, AboutComments
    <2>2. ~Says(s) /\ (s \in Requests => ~Fresh(s))
      BY <1>1, <1>13 DEF Remind, TellingInv, NotesApart
    <2>3. (\A m \in inbox' : ToldOnce(m)') /\ ToldWhoSees'
      BY <1>1, <1>2, <2>1, <2>2, ToldNew
    <2>4. \A n \in inbox' : n \in inbox \/ n.from = s
      BY <2>1 DEF Stored
    <2>5. s \in Requests => TellerOK(s)'
      <3>1. SUFFICES ASSUME s \in Requests
                     PROVE  TellerOK(s)'
        OBVIOUS
      <3>2. TellerOK(s) /\ ~Says(s)'
        BY <1>2, <1>5, <2>2, <3>1 DEF SaysStays
      <3>3. QED BY <2>1, <2>2, <3>2 DEF TellerOK, SeesOK, SaysOnce, OwnKinds, Tells, At
    <2>6. \A q \in Requests : TellerOK(q)'
      BY <1>1, <1>2, <1>5, <2>1, <2>4, <2>5, TellersKept
    <2>7. QED BY <1>2, <2>3, <2>6 DEF TellingInv
  <1>14. QED BY <1>1, <1>6, <1>7, <1>8, <1>9, <1>10, <1>11, <1>12, <1>13, TellingSteps DEF TellingStep

LEMMA SpecTelling == Spec => [](Base /\ ThreadInv /\ TellingInv)
  <1>1. Init => Base /\ ThreadInv /\ TellingInv
    BY InitBase, InitThread, InitTelling
  <1>2. (Base /\ ThreadInv /\ TellingInv) /\ [Next]_vars => (Base /\ ThreadInv /\ TellingInv)'
    BY NextBase, NextThread, NextTelling
  <1>3. QED BY <1>1, <1>2, PTL DEF Spec

(* Nobody is told of a comment twice, or of one's own, whatever becomes of  *)
(* access, of what is read or deleted in an inbox and of the listener      *)
(* between its rules.                                                      *)
THEOREM HeardCorrect == Spec => []HeardOnce
  <1>1. TellingInv => HeardOnce
    BY DEF TellingInv, ToldOnce, HeardOnce, AboutComments
  <1>2. QED BY <1>1, SpecTelling, PTL

(* Who is told of something in the project has seen the project at some     *)
(* time since.                                                             *)
THEOREM ToldCorrect == Spec => []ToldWhoSees
  <1>1. TellingInv => ToldWhoSees
    BY DEF TellingInv
  <1>2. QED BY <1>1, SpecTelling, PTL

-----------------------------------------------------------------------------
(* Files: the steps of an upload, a removal or an avatar, and deaths. *)
FileStep ==
  \/ \E r \in Requests, c \in Call :
       At(r, "new") /\ (Upload(r, c) \/ RemoveAttachment(r, c) \/ StartAvatar(r, c)
                           \/ ReplaceAvatar(r, c))
  \/ \E r \in Requests :
       \/ PutFile(r) \/ InsertRow(r) \/ UndoFile(r) \/ DropRow(r) \/ DropFile(r)
       \/ ReadAvatar(r) \/ WriteAvatar(r) \/ UnlinkAvatar(r)
       \/ DieHandling(r)

OthersStay(r) == \A q \in Requests : q # r => req'[q] = req[q]

FileQuiet ==
  /\ UNCHANGED disk
  /\ \A q \in Requests :
       req'[q] = req[q] \/ (req'[q].pc \notin FilePcs /\ req[q].pc \notin FilePcs \cup {"done"})

LEMMA MovesApart ==
  ASSUME Base, NEW r \in Requests, NEW pcs, Moves(r, pcs), pcs \cap FilePcs = {},
         req[r].pc \notin FilePcs \cup {"done"}
  PROVE  \A q \in Requests :
           req'[q] = req[q] \/ (req'[q].pc \notin FilePcs /\ req[q].pc \notin FilePcs \cup {"done"})
  BY MovesReq

LEMMA FileStepsOnly ==
  ASSUME Base, [Next]_vars
  PROVE  FileStep \/ FileQuiet
  <1>1. /\ {"done"} \cap FilePcs = {} /\ {"rule"} \cap FilePcs = {}
        /\ {"note"} \cap FilePcs = {} /\ {"mentions", "done"} \cap FilePcs = {}
        /\ {"remention", "done"} \cap FilePcs = {} /\ {"remove", "done"} \cap FilePcs = {}
        /\ {"insert"} \cap FilePcs = {} /\ {"edit"} \cap FilePcs = {}
        /\ {"store", "done", "rule"} \cap FilePcs = {} /\ {"done", "rule"} \cap FilePcs = {}
    BY DEF FilePcs
  <1>2. ASSUME NEW r \in Requests, NEW c \in Call, At(r, "new"), Start(r, c)
        PROVE  FileStep \/ FileQuiet
    <2>1. CASE Upload(r, c) \/ RemoveAttachment(r, c) \/ StartAvatar(r, c) \/ ReplaceAvatar(r, c)
      BY <1>2, <2>1 DEF FileStep
    <2>2. ASSUME ~(Upload(r, c) \/ RemoveAttachment(r, c) \/ StartAvatar(r, c) \/ ReplaceAvatar(r, c))
          PROVE  FileQuiet
      <3>1. \E pcs : Moves(r, pcs) /\ pcs \cap FilePcs = {}
        BY <1>1, <1>2, <2>2, StartMoves DEF Start, InboxStart, Base
      <3>2. UNCHANGED disk
        BY <1>2, <2>2 DEF Start, StartComment, StartEdit, StartRemove, contentVars, disk
      <3>3. QED BY <1>2, <3>1, <3>2, MovesApart DEF FileQuiet, At, FilePcs
    <2>3. QED BY <2>1, <2>2
  <1>3. ASSUME NEW r \in Requests, Proceed(r)
        PROVE  FileStep \/ FileQuiet
    <2>1. CASE ResolveMentions(r) \/ InsertComment(r) \/ ResolveEdited(r) \/ EditComment(r)
               \/ RemoveComment(r)
      <3>1. \E pcs : Moves(r, pcs) /\ pcs \cap FilePcs = {}
        BY <1>1, <2>1, CommentMoves DEF Base
      <3>2. UNCHANGED disk /\ req[r].pc \notin FilePcs \cup {"done"}
        BY <2>1 DEF ResolveMentions, InsertComment, ResolveEdited, EditComment, RemoveComment,
                    contentVars, disk, At, FilePcs
      <3>3. QED BY <3>1, <3>2, MovesApart DEF FileQuiet
    <2>2. QED BY <1>3, <2>1 DEF Proceed, FileStep
  <1>4. CASE InboxNext /\ UNCHANGED contentVars
    <2>1. ASSUME NEW r \in Requests, CheckRecipients(r) \/ StoreNotifications(r) \/ WriteNote(r)
          PROVE  FileQuiet
      <3>1. \E pcs : Moves(r, pcs) /\ pcs \cap FilePcs = {}
        BY <1>1, <2>1, TellingMoves DEF Base, CheckRecipients
      <3>2. UNCHANGED disk /\ req[r].pc \notin FilePcs \cup {"done"}
        BY <1>4, <2>1 DEF CheckRecipients, StoreNotifications, WriteNote, contentVars, disk, At,
                          FilePcs
      <3>3. QED BY <3>1, <3>2, MovesApart DEF FileQuiet
    <2>2. QED BY <1>4, <2>1 DEF InboxNext, FindTokens, SendPush, Uninstall, Remind, LoseReminder,
                                Tick, ClaimReminder, FileQuiet, contentVars, disk
  <1>5. CASE UNCHANGED vars
    BY <1>5 DEF vars, inboxVars, contentVars, disk, FileQuiet
  <1>6. QED BY <1>2, <1>3, <1>4, <1>5, Steps

(* A request that goes on with its file. *)
LEMMA GoesOn ==
  ASSUME Base, NEW r \in Requests, req[r].pc \in FilePcs, NEW pc \in FilePcs,
         Goto(r, [req[r] EXCEPT !.pc = pc])
  PROVE  /\ req'[r].pc = pc /\ req'[r].file = req[r].file
         /\ req'[r].old = req[r].old /\ req'[r].user = req[r].user
         /\ OthersStay(r)
  <1>1. req[r] \in FileReq
    BY ReqIs DEF Base, TypeOK
  <1>2. req'[r] = [req[r] EXCEPT !.pc = pc] /\ OthersStay(r)
    BY GotoReq DEF Base, OthersStay
  <1>3. QED BY <1>1, <1>2, FileSteps

(* What a step may make of who refers to a file. *)
WearsNew(r) == \A f \in Made : Worn(f)' => Worn(f) \/ (f = r /\ At(r, "avatar") /\ At(r, "unlink")')
AttachesNew(r) ==
  \A f \in Made :
    Attached(f)' => Attached(f) \/ (f = r /\ At(r, "row") /\ (At(r, "undo")' \/ At(r, "done")'))
GoesThrough(r) ==
  /\ At(r, "unlink") \/ At(r, "undo") => At(r, "done")'
  /\ ~At(r, "done")

LEMMA KindKept ==
  ASSUME FileInv, NEW r \in Requests, OthersStay(r), WearsNew(r), AttachesNew(r), GoesThrough(r)
  PROVE  \A f \in Made : KindOfFile(f)'
  <1>1. r # Earlier
    BY InboxAssumption
  <1>2. TAKE f \in Made
  <1>3. KindOfFile(f) /\ KindOfFile(r)
    BY DEF FileInv, Made
  <1>4. CASE f = r
    BY <1>1, <1>3, <1>4 DEF KindOfFile, WearsNew, AttachesNew, GoesThrough, At
  <1>5. CASE f # r
    <2>1. (Worn(f)' => Worn(f)) /\ (Attached(f)' => Attached(f))
      BY <1>5 DEF WearsNew, AttachesNew
    <2>2. f \in Requests => req'[f] = req[f]
      BY <1>5 DEF OthersStay
    <2>3. Attached(f)' => f = Earlier \/ At(f, "undo")' \/ At(f, "done")'
      BY <1>3, <2>1, <2>2 DEF KindOfFile, At, Made
    <2>4. QED BY <1>3, <2>1, <2>2, <2>3 DEF KindOfFile, At
  <1>6. QED BY <1>4, <1>5

(* What a step may make of files and attachments others count on. *)
Spares(r) ==
  /\ \A f \in files : f \in files' \/ f = r \/ Worn(f) \/ Attached(f)
  /\ \A f \in rows' : f \in rows \/ (f = r /\ At(r, "row"))
  /\ strays \subseteq strays'

LEMMA UploadsKept ==
  ASSUME FileInv, NEW r \in Requests, OthersStay(r), Spares(r),
         NEW q \in Requests, q # r
  PROVE  UploadOK(q)'
  <1>1. req'[q] = req[q] /\ UploadOK(q) /\ q \in Made /\ q # Earlier
    BY InboxAssumption DEF OthersStay, FileInv, Made
  <1>2. At(q, "row") => ~Worn(q) /\ ~Attached(q)
    BY <1>1 DEF FileInv, KindOfFile, At
  <1>3. At(q, "file") => Attached(req[q].file)
    BY DEF Attached, Drops
  <1>4. At(r, "row") => ~Attached(r)
    BY InboxAssumption DEF FileInv, KindOfFile, At, Made
  <1>5. At(q, "file") => req[q].file \notin rows'
    BY <1>1, <1>3, <1>4 DEF UploadOK, Spares
  <1>6. At(q, "row") => q \in files'
    BY <1>1, <1>2 DEF UploadOK, Spares
  <1>7. At(q, "undo") /\ q \in rows' => q \in strays'
    BY <1>1 DEF UploadOK, Spares
  <1>8. QED BY <1>1, <1>5, <1>6, <1>7 DEF UploadOK, At

LEMMA AvatarsKept ==
  ASSUME FileInv, NEW r \in Requests, OthersStay(r), Spares(r), UNCHANGED avatar,
         NEW q \in Requests, q # r
  PROVE  AvatarOK(q)'
  <1>1. req'[q] = req[q] /\ AvatarOK(q) /\ q \in Made /\ q # Earlier
    BY InboxAssumption DEF OthersStay, FileInv, Made
  <1>2. At(q, "previous") \/ At(q, "avatar") => ~Worn(q) /\ ~Attached(q)
    BY <1>1 DEF FileInv, KindOfFile, At
  <1>3. QED BY <1>1, <1>2 DEF AvatarOK, At, Spares

(* What a step may make of who remembers a file. *)
Forgets(r) ==
  /\ \A f \in rows : f \in rows' \/ Owes(r, f)'
  /\ strays \subseteq strays'
  /\ \A u \in Users, f \in Made :
       avatar[u] = f => avatar'[u] = f \/ f \in strays' \/ Owes(r, f)'
  /\ \A f \in files' : f \notin files \/ Owes(r, f) => Remembered(f)'

LEMMA RememberedKept ==
  ASSUME Base, FileInv, NEW r \in Requests, OthersStay(r), Forgets(r)
  PROVE  \A f \in files' : Remembered(f)'
  <1>1. TAKE f \in files'
  <1>2. CASE f \notin files \/ Owes(r, f)
    BY <1>2 DEF Forgets
  <1>3. CASE f \in files /\ ~Owes(r, f)
    <2>1. Remembered(f) /\ f \in Made
      BY <1>3 DEF FileInv, Base, TypeOK
    <2>2. CASE f \in rows \/ f \in strays
      BY <2>2 DEF Forgets, Remembered
    <2>3. ASSUME NEW u \in Users, avatar[u] = f
          PROVE  Remembered(f)'
      BY <2>1, <2>3 DEF Forgets, Remembered
    <2>4. ASSUME NEW q \in Requests, Owes(q, f)
          PROVE  Remembered(f)'
      <3>1. q # r /\ req'[q] = req[q]
        BY <1>3, <2>4 DEF OthersStay
      <3>2. Owes(q, f)'
        BY <2>4, <3>1 DEF Owes, At
      <3>3. QED BY <3>2 DEF Remembered
    <2>5. QED BY <2>1, <2>2, <2>3, <2>4 DEF Remembered
  <1>4. QED BY <1>2, <1>3

LEMMA StartFile ==
  ASSUME Base, FileInv, NEW r \in Requests, NEW c \in Call, At(r, "new"),
         Upload(r, c) \/ RemoveAttachment(r, c) \/ StartAvatar(r, c)
  PROVE  FileInv'
  <1>1. OthersStay(r)
    <2>1. \E pcs : Moves(r, pcs)
      BY StartMoves DEF Base
    <2>2. QED BY <2>1, MovesReq DEF OthersStay
  <1>2. /\ req'[r].pc \in {"done", "put", "drop", "previous"}
        /\ At(r, "put")' => Upload(r, c) /\ req'[r].file = r /\ req'[r].old = None
        /\ At(r, "drop")' => RemoveAttachment(r, c) /\ req'[r].file = c.file /\ c.file \in rows
        /\ At(r, "previous")' => StartAvatar(r, c) /\ req'[r].file = IF c.to = "file" THEN r ELSE c.to
    <2>1. PICK x : /\ Goto(r, x)
                   /\ \/ x = Done
                      \/ x = Handling("put", c.user, r, None) /\ Upload(r, c)
                      \/ x = Handling("drop", c.user, c.file, None) /\ c.file \in rows
                         /\ RemoveAttachment(r, c)
                      \/ /\ x = Handling("previous", c.user, IF c.to = "file" THEN r ELSE c.to, None)
                         /\ StartAvatar(r, c)
      BY DEF Upload, RemoveAttachment, StartAvatar
    <2>2. req'[r] = x
      BY <2>1, GotoReq DEF Base
    <2>3. QED BY <2>1, <2>2 DEF Handling, Done, At
  <1>3. /\ UNCHANGED <<rows, avatar, strays>>
        /\ files' = IF StartAvatar(r, c) /\ c.to = "file" THEN files \cup {r} ELSE files
    BY DEF Upload, RemoveAttachment, StartAvatar, contentVars
  <1>4. WearsNew(r)
    BY <1>1, <1>2, <1>3 DEF WearsNew, Worn, Replaces, OthersStay, At
  <1>5. AttachesNew(r)
    BY <1>1, <1>2, <1>3 DEF AttachesNew, Attached, Drops, OthersStay, At
  <1>6. GoesThrough(r) /\ Spares(r)
    BY <1>3 DEF GoesThrough, Spares, At
  <1>7. \A f \in Made : KindOfFile(f)'
    BY <1>1, <1>4, <1>5, <1>6, KindKept
  <1>8. UploadOK(r)'
    BY <1>2 DEF UploadOK, At
  <1>9. AvatarOK(r)'
    <2>1. ASSUME At(r, "previous")'
          PROVE  req'[r].file \in {r, None, Url} /\ (req'[r].file = r => r \in files')
      <3>1. c.to = "file" \/ c.to \in {None, Url}
        BY <1>2, <2>1 DEF StartAvatar, Call, InboxCall
      <3>2. r # None /\ r # Url
        BY InboxAssumption, ContentAssumption DEF Made
      <3>3. QED BY <1>2, <1>3, <2>1, <3>1, <3>2
    <2>2. QED BY <1>2, <2>1 DEF AvatarOK, At
  <1>10. \A q \in Requests : UploadOK(q)' /\ AvatarOK(q)'
    BY <1>1, <1>3, <1>6, <1>8, <1>9, UploadsKept, AvatarsKept
  <1>11. OneWearer' /\ FilesAreThere'
    BY <1>3 DEF FileInv, OneWearer, FilesAreThere
  <1>12. Forgets(r)
    <2>1. StartAvatar(r, c) /\ c.to = "file" => Owes(r, r)'
      <3>1. SUFFICES ASSUME StartAvatar(r, c), c.to = "file"
                     PROVE  Owes(r, r)'
        OBVIOUS
      <3>2. req'[r] = Handling("previous", c.user, r, None)
        BY <3>1, GotoReq DEF StartAvatar, Base
      <3>3. QED BY <3>2 DEF Handling, Owes
    <2>2. \A f \in files' : f \in files \/ Owes(r, f)'
      BY <1>3, <2>1
    <2>3. ~Owes(r, r) /\ \A f : ~Owes(r, f)
      BY DEF Owes, At
    <2>4. QED BY <1>3, <2>2, <2>3 DEF Forgets, Remembered
  <1>13. QED BY <1>1, <1>7, <1>10, <1>11, <1>12, RememberedKept DEF FileInv

LEMMA NextPut ==
  ASSUME Base, FileInv, NEW r \in Requests, PutFile(r)
  PROVE  FileInv'
  <1>1. /\ At(r, "put") /\ req[r].pc \in FilePcs
        /\ files' = files \cup {r} /\ UNCHANGED <<rows, avatar, strays>>
    BY DEF PutFile, At, FilePcs
  <1>2. UploadOK(r)
    BY DEF FileInv
  <1>3. /\ At(r, "row")' /\ req'[r].file = r /\ req'[r].old = None
        /\ OthersStay(r)
    BY <1>1, <1>2, GoesOn, StepGoto DEF PutFile, FilePcs, At, UploadOK
  <1>4. WearsNew(r) /\ AttachesNew(r)
    BY <1>1, <1>3 DEF WearsNew, Worn, Replaces, AttachesNew, Attached, Drops, OthersStay, At
  <1>5. GoesThrough(r) /\ Spares(r)
    BY <1>1 DEF GoesThrough, Spares, At
  <1>6. \A f \in Made : KindOfFile(f)'
    BY <1>3, <1>4, <1>5, KindKept
  <1>7. UploadOK(r)' /\ AvatarOK(r)'
    BY <1>1, <1>3 DEF UploadOK, AvatarOK, At
  <1>8. \A q \in Requests : UploadOK(q)' /\ AvatarOK(q)'
    BY <1>1, <1>3, <1>5, <1>7, UploadsKept, AvatarsKept
  <1>9. OneWearer' /\ FilesAreThere'
    BY <1>1 DEF FileInv, OneWearer, FilesAreThere
  <1>10. Forgets(r)
    <2>1. Owes(r, r)' /\ \A f : Owes(r, f) => f = r
      BY <1>1, <1>2, <1>3 DEF Owes, At, UploadOK
    <2>2. QED BY <1>1, <2>1 DEF Forgets, Remembered
  <1>11. QED BY <1>3, <1>6, <1>8, <1>9, <1>10, RememberedKept DEF FileInv

LEMMA NextRow ==
  ASSUME Base, FileInv, NEW r \in Requests, InsertRow(r)
  PROVE  FileInv'
  <1>1. /\ At(r, "row") /\ req[r].pc \in FilePcs /\ UNCHANGED <<files, avatar>>
    BY DEF InsertRow, At, FilePcs
  <1>2. /\ UploadOK(r) /\ r \in files /\ r \in Made
        /\ req[r].file = r /\ req[r].old = None
    BY <1>1 DEF FileInv, UploadOK, Made
  <1>3. r \notin rows
    BY <1>1, <1>2, InboxAssumption DEF FileInv, KindOfFile, Attached, At
  <1>4. /\ OthersStay(r)
        /\ \/ /\ rows' = rows \cup {r} /\ strays' = strays /\ At(r, "done")'
           \/ /\ At(r, "undo")' /\ req'[r].file = r /\ req'[r].old = None
              /\ \/ UNCHANGED <<rows, strays>>
                 \/ rows' = rows \cup {r} /\ strays' = strays \cup {r}
    <2>1. CASE rows' = rows \cup {r} /\ strays' = strays /\ Goto(r, Done)
      BY <2>1, GotoReq DEF Base, Done, At, OthersStay
    <2>2. CASE /\ Goto(r, AfterFailure(r))
               /\ \/ UNCHANGED <<rows, strays>>
                  \/ rows' = rows \cup {r} /\ strays' = strays \cup {r}
      <3>1. /\ At(r, "undo")' /\ req'[r].file = r /\ req'[r].old = None
            /\ OthersStay(r)
        BY <1>1, <1>2, <2>2, GoesOn DEF AfterFailure, FilePcs, At
      <3>2. QED BY <2>2, <3>1
    <2>3. QED BY <2>1, <2>2 DEF InsertRow
  <1>5. WearsNew(r)
    BY <1>1, <1>4 DEF WearsNew, Worn, Replaces, OthersStay, At
  <1>6. AttachesNew(r)
    BY <1>1, <1>4 DEF AttachesNew, Attached, Drops, OthersStay, At
  <1>7. GoesThrough(r) /\ Spares(r)
    BY <1>1, <1>4 DEF GoesThrough, Spares, At
  <1>8. \A f \in Made : KindOfFile(f)'
    BY <1>4, <1>5, <1>6, <1>7, KindKept
  <1>9. UploadOK(r)' /\ AvatarOK(r)'
    BY <1>3, <1>4 DEF UploadOK, AvatarOK, At
  <1>10. \A q \in Requests : UploadOK(q)' /\ AvatarOK(q)'
    BY <1>1, <1>4, <1>7, <1>9, UploadsKept, AvatarsKept
  <1>11. OneWearer' /\ FilesAreThere'
    BY <1>1, <1>2, <1>4 DEF FileInv, OneWearer, FilesAreThere
  <1>12. Forgets(r)
    <2>1. \A f : Owes(r, f) => f = r
      BY <1>1, <1>2 DEF Owes, At
    <2>2. r \in rows' \/ Owes(r, r)'
      BY <1>4 DEF Owes, At
    <2>3. QED BY <1>1, <1>4, <2>1, <2>2 DEF Forgets, Remembered
  <1>13. QED BY <1>4, <1>8, <1>10, <1>11, <1>12, RememberedKept DEF FileInv

(* A file is deleted: by the upload that failed, or once nothing refers to  *)
(* it any more.                                                            *)
LEMMA NextDelete ==
  ASSUME Base, FileInv, NEW r \in Requests,
         UndoFile(r) \/ DropFile(r) \/ UnlinkAvatar(r)
  PROVE  FileInv'
  <1>1. PICK g : g = IF At(r, "unlink") THEN req[r].old ELSE req[r].file
    OBVIOUS
  <1>2. /\ At(r, "undo") \/ At(r, "file") \/ At(r, "unlink")
        /\ files' = files \ {g} /\ UNCHANGED <<rows, avatar, strays>>
    <2>1. CASE UndoFile(r)
      <3>1. UploadOK(r)
        BY DEF FileInv
      <3>2. QED BY <1>1, <2>1, <3>1 DEF UndoFile, UploadOK, At
    <2>2. CASE DropFile(r)
      BY <1>1, <2>2 DEF DropFile, At
    <2>3. CASE UnlinkAvatar(r)
      BY <1>1, <2>3 DEF UnlinkAvatar, Replaced
    <2>4. QED BY <2>1, <2>2, <2>3
  <1>3. OthersStay(r) /\ At(r, "done")'
    BY GotoReq DEF UndoFile, DropFile, UnlinkAvatar, Done, At, OthersStay, Base
  <1>4. UploadOK(r) /\ AvatarOK(r) /\ r \in Made /\ r # Earlier
    BY InboxAssumption DEF FileInv, Made
  <1>5. /\ At(r, "undo") => g = r
        /\ At(r, "file") => Attached(g) /\ g \notin rows
        /\ At(r, "unlink") => Worn(g)
    BY <1>1, <1>4 DEF UploadOK, Attached, Drops, Worn, Replaces, At
  <1>6. ASSUME g \in Made
        PROVE  (g \in rows => g \in strays) /\ \A u \in Users : avatar[u] # g
    <2>1. KindOfFile(g)
      BY <1>6 DEF FileInv
    <2>2. CASE At(r, "undo")
      BY <1>2, <1>4, <1>5, <2>1, <2>2 DEF UploadOK, KindOfFile, Worn, At
    <2>3. CASE At(r, "file")
      BY <1>5, <2>1, <2>3 DEF KindOfFile, Worn
    <2>4. CASE At(r, "unlink")
      BY <1>1, <1>4, <1>5, <1>6, <2>1, <2>4 DEF AvatarOK, KindOfFile, Attached
    <2>5. QED BY <1>2, <2>2, <2>3, <2>4
  <1>7. WearsNew(r) /\ AttachesNew(r)
    BY <1>2, <1>3 DEF WearsNew, Worn, Replaces, AttachesNew, Attached, Drops, OthersStay, At
  <1>8. GoesThrough(r)
    BY <1>2, <1>3 DEF GoesThrough, At
  <1>9. Spares(r)
    BY <1>2, <1>5 DEF Spares
  <1>10. \A f \in Made : KindOfFile(f)'
    BY <1>3, <1>7, <1>8, KindKept
  <1>11. UploadOK(r)' /\ AvatarOK(r)'
    BY <1>3 DEF UploadOK, AvatarOK, At
  <1>12. \A q \in Requests : UploadOK(q)' /\ AvatarOK(q)'
    BY <1>2, <1>3, <1>9, <1>11, UploadsKept, AvatarsKept
  <1>13. OneWearer'
    BY <1>2 DEF FileInv, OneWearer
  <1>14. FilesAreThere'
    <2>1. ASSUME g \in Made
          PROVE  FilesAreThere'
      BY <1>2, <1>6, <2>1 DEF FileInv, FilesAreThere
    <2>2. ASSUME g \notin Made
          PROVE  FilesAreThere'
      <3>1. files' = files
        BY <1>2, <2>2 DEF Base, TypeOK
      <3>2. QED BY <1>2, <3>1 DEF FileInv, FilesAreThere
    <2>3. QED BY <2>1, <2>2
  <1>15. Forgets(r)
    <2>1. \A f : Owes(r, f) => f = g
      BY <1>1, <1>2 DEF Owes, At
    <2>2. QED BY <1>2, <2>1 DEF Forgets
  <1>16. QED BY <1>3, <1>10, <1>12, <1>13, <1>14, <1>15, RememberedKept DEF FileInv

LEMMA NextDrop ==
  ASSUME Base, FileInv, NEW r \in Requests, DropRow(r)
  PROVE  FileInv'
  <1>1. /\ At(r, "drop") /\ req[r].pc \in FilePcs
        /\ rows' = rows \ {req[r].file} /\ UNCHANGED <<files, avatar, strays>>
    BY DEF DropRow, At, FilePcs
  <1>2. At(r, "file")' /\ req'[r].file = req[r].file /\ OthersStay(r)
    BY <1>1, GoesOn, StepGoto DEF DropRow, FilePcs, At
  <1>3. WearsNew(r) /\ AttachesNew(r)
    BY <1>1, <1>2 DEF WearsNew, Worn, Replaces, AttachesNew, Attached, Drops, OthersStay, At
  <1>4. GoesThrough(r) /\ Spares(r)
    BY <1>1 DEF GoesThrough, Spares, At
  <1>5. \A f \in Made : KindOfFile(f)'
    BY <1>2, <1>3, <1>4, KindKept
  <1>6. UploadOK(r)' /\ AvatarOK(r)'
    BY <1>1, <1>2 DEF UploadOK, AvatarOK, At
  <1>7. \A q \in Requests : UploadOK(q)' /\ AvatarOK(q)'
    BY <1>1, <1>2, <1>4, <1>6, UploadsKept, AvatarsKept
  <1>8. OneWearer' /\ FilesAreThere'
    BY <1>1 DEF FileInv, OneWearer, FilesAreThere
  <1>9. Forgets(r)
    <2>1. PICK g : g = req[r].file
      OBVIOUS
    <2>2. Owes(r, g)' /\ \A f : ~Owes(r, f)
      BY <1>1, <1>2, <2>1 DEF Owes, At
    <2>3. QED BY <1>1, <2>1, <2>2 DEF Forgets
  <1>10. QED BY <1>2, <1>5, <1>7, <1>8, <1>9, RememberedKept DEF FileInv

LEMMA NextRead ==
  ASSUME Base, FileInv, NEW r \in Requests, ReadAvatar(r)
  PROVE  FileInv'
  <1>1. /\ At(r, "previous") /\ req[r] \in FileReq /\ UNCHANGED disk
    BY ReqIs DEF ReadAvatar, At, FilePcs, Base, TypeOK, contentVars, disk
  <1>2. PICK u, old : u = req[r].user /\ old = avatar[u]
    OBVIOUS
  <1>3. u \in Users
    BY <1>1, <1>2 DEF FileReq
  <1>4. req'[r] = [req[r] EXCEPT !.pc = "avatar", !.old = old] /\ OthersStay(r)
    BY <1>2 DEF ReadAvatar, OthersStay, Base, TypeOK
  <1>5. At(r, "avatar")' /\ req'[r].file = req[r].file /\ req'[r].user = u /\ req'[r].old = old
    BY <1>1, <1>2, <1>4 DEF FileReq, At
  <1>6. WearsNew(r) /\ AttachesNew(r)
    <2>1. UNCHANGED <<rows, avatar>>
      BY <1>1 DEF disk
    <2>2. \A f \in Made : Replaces(r, f)' => avatar[u] = f
      BY <1>2, <1>5 DEF Replaces
    <2>3. \A f : ~Drops(r, f)'
      BY <1>5 DEF Drops, At
    <2>4. \A f, q : q \in Requests /\ q # r =>
            (Replaces(q, f)' <=> Replaces(q, f)) /\ (Drops(q, f)' <=> Drops(q, f))
      BY <1>4 DEF OthersStay, Replaces, Drops, At
    <2>5. WearsNew(r)
      BY <1>3, <2>1, <2>2, <2>4 DEF WearsNew, Worn
    <2>6. AttachesNew(r)
      BY <2>1, <2>3, <2>4 DEF AttachesNew, Attached
    <2>7. QED BY <2>5, <2>6
  <1>7. GoesThrough(r) /\ Spares(r)
    BY <1>1 DEF GoesThrough, Spares, At, disk
  <1>8. \A f \in Made : KindOfFile(f)'
    BY <1>4, <1>6, <1>7, KindKept
  <1>9. UploadOK(r)'
    BY <1>5 DEF UploadOK, At
  <1>10. AvatarOK(r)'
    <2>1. AvatarOK(r) /\ OneWearer
      BY DEF FileInv
    <2>2. req[r].file \in {r, None, Url} /\ (req[r].file = r => r \in files)
      BY <1>1, <2>1 DEF AvatarOK
    <2>3. UNCHANGED <<files, avatar>>
      BY <1>1 DEF disk
    <2>4. old \in Made => \A v \in Users : avatar[v] = old => v = u
      BY <1>2, <1>3, <2>1 DEF OneWearer
    <2>5. ~At(r, "unlink")'
      BY <1>5 DEF At
    <2>6. QED BY <1>5, <2>2, <2>3, <2>4, <2>5 DEF AvatarOK
  <1>11. \A q \in Requests : UploadOK(q)' /\ AvatarOK(q)'
    BY <1>1, <1>4, <1>7, <1>9, <1>10, UploadsKept, AvatarsKept DEF disk
  <1>12. OneWearer' /\ FilesAreThere'
    BY <1>1 DEF FileInv, OneWearer, FilesAreThere, disk
  <1>13. Forgets(r)
    <2>1. \A f : Owes(r, f) => Owes(r, f)'
      BY <1>1, <1>5 DEF Owes, At
    <2>2. QED BY <1>1, <2>1 DEF Forgets, Remembered, disk
  <1>14. QED BY <1>4, <1>8, <1>11, <1>12, <1>13, RememberedKept DEF FileInv

LEMMA NextWorn ==
  ASSUME Base, FileInv, NEW r \in Requests, WriteAvatar(r)
  PROVE  FileInv'
  <1>1. At(r, "avatar") /\ req[r] \in FileReq /\ req[r].pc \in FilePcs
    BY ReqIs DEF WriteAvatar, At, FilePcs, Base, TypeOK
  <1>2. PICK u, g, old : u = req[r].user /\ g = req[r].file /\ old = req[r].old
    OBVIOUS
  <1>3. /\ u \in Users /\ r \in Made /\ r # Earlier /\ r # None /\ r # Url
        /\ None \notin Made /\ Url \notin Made
    BY <1>1, <1>2, InboxAssumption, ContentAssumption DEF FileReq, Made
  <1>4. AvatarOK(r) /\ KindOfFile(r)
    BY <1>3 DEF FileInv
  <1>5. /\ g \in {r, None, Url} /\ (g = r => r \in files)
        /\ ~Worn(r) /\ ~Attached(r)
    BY <1>1, <1>2, <1>3, <1>4 DEF AvatarOK, KindOfFile, At
  <1>6. /\ avatar \in [Users -> Made \cup {None, Url}]
        /\ avatar' = [avatar EXCEPT ![u] = g]
        /\ strays' = strays \cup (({avatar[u]} \ {old}) \cap Made)
        /\ UNCHANGED <<files, rows>>
    BY <1>2 DEF WriteAvatar, Base, TypeOK
  <1>7. avatar'[u] = g /\ \A v \in Users : v # u => avatar'[v] = avatar[v]
    BY <1>3, <1>6
  <1>8. /\ At(r, "unlink")' /\ req'[r].file = g /\ req'[r].old = old
        /\ OthersStay(r)
    BY <1>1, <1>2, GoesOn, StepGoto DEF WriteAvatar, FilePcs, At
  <1>9. WearsNew(r)
    <2>1. \A f \in Made, v \in Users : avatar'[v] = f => avatar[v] = f \/ f = r
      BY <1>3, <1>5, <1>7
    <2>2. \A f \in Made, q \in Requests : Replaces(q, f)' => Replaces(q, f)
      BY <1>1, <1>2, <1>8 DEF Replaces, OthersStay, At
    <2>3. QED BY <1>1, <1>8, <2>1, <2>2 DEF WearsNew, Worn
  <1>10. AttachesNew(r)
    BY <1>1, <1>6, <1>8 DEF AttachesNew, Attached, Drops, OthersStay, At
  <1>11. GoesThrough(r) /\ Spares(r)
    BY <1>1, <1>6 DEF GoesThrough, Spares, At
  <1>12. \A f \in Made : KindOfFile(f)'
    BY <1>8, <1>9, <1>10, <1>11, KindKept
  <1>13. ASSUME NEW f \in Made, Worn(f), NEW v \in Users, avatar'[v] = f
         PROVE  v # u /\ avatar[v] = f
    BY <1>3, <1>5, <1>7, <1>13
  <1>14. \A q \in Requests : UploadOK(q)'
    <2>1. UploadOK(r)'
      BY <1>8 DEF UploadOK, At
    <2>2. QED BY <1>8, <1>11, <2>1, UploadsKept
  <1>15. AvatarOK(r)'
    <2>1. ASSUME old \in Made, NEW v \in Users, avatar'[v] = old
          PROVE  FALSE
      <3>1. Worn(old)
        BY <1>1, <1>2 DEF Worn, Replaces
      <3>2. v # u /\ avatar[v] = old
        BY <1>13, <2>1, <3>1
      <3>3. QED BY <1>1, <1>2, <1>4, <2>1, <3>2 DEF AvatarOK
    <2>2. QED BY <1>8, <2>1 DEF AvatarOK, At
  <1>16. ASSUME NEW q \in Requests, q # r
         PROVE  AvatarOK(q)'
    <2>1. req'[q] = req[q] /\ AvatarOK(q)
      BY <1>8, <1>16 DEF OthersStay, FileInv
    <2>2. ASSUME At(q, "avatar") \/ At(q, "unlink"), req[q].old \in Made, NEW v \in Users,
                 avatar'[v] = req[q].old
          PROVE  avatar[v] = req[q].old
      <3>1. Worn(req[q].old)
        BY <2>2 DEF Worn, Replaces
      <3>2. QED BY <1>13, <2>2, <3>1
    <2>3. QED BY <1>6, <2>1, <2>2 DEF AvatarOK, At
  <1>17. OneWearer'
    <2>1. ASSUME NEW v \in Users, NEW w \in Users, avatar'[v] \in Made, avatar'[v] = avatar'[w], v # w
          PROVE  FALSE
      <3>1. CASE v # u /\ w # u
        BY <1>7, <2>1, <3>1 DEF FileInv, OneWearer
      <3>2. CASE v = u \/ w = u
        <4>1. \E x \in Users : avatar[x] = r
          BY <1>3, <1>5, <1>7, <2>1, <3>2
        <4>2. QED BY <1>5, <4>1 DEF Worn
      <3>3. QED BY <3>1, <3>2
    <2>2. QED BY <2>1 DEF OneWearer
  <1>18. FilesAreThere'
    BY <1>3, <1>5, <1>6, <1>7 DEF FileInv, FilesAreThere
  <1>19. Forgets(r)
    <2>1. \A f \in Made : avatar[u] = f => f \in strays' \/ Owes(r, f)'
      BY <1>6, <1>8 DEF Owes, At
    <2>2. \A f \in files' : Owes(r, f) => Remembered(f)'
      <3>1. SUFFICES ASSUME NEW f \in files', Owes(r, f)
                     PROVE  Remembered(f)'
        OBVIOUS
      <3>2. f = g
        BY <1>1, <1>2, <3>1 DEF Owes, At
      <3>3. avatar'[u] = f
        BY <1>7, <3>2
      <3>4. QED BY <1>3, <3>3 DEF Remembered
    <2>3. QED BY <1>6, <1>7, <2>1, <2>2 DEF Forgets
  <1>20. QED BY <1>8, <1>12, <1>14, <1>15, <1>16, <1>17, <1>18, <1>19, RememberedKept DEF FileInv

(* An administrator's URL takes the place of a file, which stays; the       *)
(* history remembers it.                                                   *)
LEMMA NextReplaced ==
  ASSUME Base, FileInv, NEW r \in Requests, NEW c \in Call, At(r, "new"), ReplaceAvatar(r, c)
  PROVE  FileInv'
  <1>1. PICK u : u = c.user
    OBVIOUS
  <1>2. /\ At(r, "done")' /\ OthersStay(r)
        /\ ~At(r, "unlink") /\ ~At(r, "undo") /\ ~At(r, "done")
        /\ UNCHANGED <<files, rows>>
    BY GotoReq DEF ReplaceAvatar, Done, At, OthersStay, Base
  <1>3. /\ avatar' = [avatar EXCEPT ![u] = Url]
        /\ strays' = strays \cup ({avatar[u]} \cap Made)
        /\ avatar \in [Users -> Made \cup {None, Url}] /\ Url \notin Made
    BY <1>1, ContentAssumption, InboxAssumption DEF ReplaceAvatar, Base, TypeOK
  <1>4. /\ \A v \in Users : v # u => avatar'[v] = avatar[v]
        /\ \A v \in Users : avatar'[v] \in Made => avatar'[v] = avatar[v]
    BY <1>3
  <1>5. \A q \in Requests, f \in Made : Replaces(q, f)' => Replaces(q, f)
    BY <1>2 DEF Replaces, OthersStay, At
  <1>6. WearsNew(r)
    BY <1>4, <1>5 DEF WearsNew, Worn
  <1>7. AttachesNew(r)
    BY <1>2 DEF AttachesNew, Attached, Drops, OthersStay, At
  <1>8. GoesThrough(r) /\ Spares(r)
    BY <1>2, <1>3 DEF GoesThrough, Spares
  <1>9. \A f \in Made : KindOfFile(f)'
    BY <1>2, <1>6, <1>7, <1>8, KindKept
  <1>10. UploadOK(r)' /\ AvatarOK(r)'
    BY <1>2 DEF UploadOK, AvatarOK, At
  <1>11. \A q \in Requests : UploadOK(q)'
    BY <1>2, <1>8, <1>10, UploadsKept
  <1>12. ASSUME NEW q \in Requests, q # r
         PROVE  AvatarOK(q)'
    <2>1. req'[q] = req[q] /\ AvatarOK(q)
      BY <1>2, <1>12 DEF OthersStay, FileInv
    <2>2. ASSUME req[q].old \in Made, NEW v \in Users, avatar'[v] = req[q].old
          PROVE  avatar[v] = req[q].old
      BY <1>4, <2>2
    <2>3. QED BY <1>2, <2>1, <2>2 DEF AvatarOK, At
  <1>13. OneWearer' /\ FilesAreThere'
    BY <1>2, <1>3, <1>4 DEF FileInv, OneWearer, FilesAreThere
  <1>14. Forgets(r)
    <2>1. \A v \in Users, f \in Made : avatar[v] = f => avatar'[v] = f \/ f \in strays'
      BY <1>3, <1>4
    <2>2. \A f : ~Owes(r, f)
      BY DEF Owes, At
    <2>3. QED BY <1>2, <1>3, <2>1, <2>2 DEF Forgets
  <1>15. QED BY <1>2, <1>9, <1>10, <1>11, <1>12, <1>13, <1>14, RememberedKept DEF FileInv

(* A process dies over a file; the history remembers it. *)
LEMMA NextDead ==
  ASSUME Base, FileInv, NEW r \in Requests, DieHandling(r)
  PROVE  FileInv'
  <1>1. /\ At(r, "done")' /\ OthersStay(r)
        /\ ~At(r, "new") /\ ~At(r, "done")
        /\ strays' = strays \cup (Handles(r) \cap Made)
        /\ UNCHANGED <<files, rows, avatar>>
    BY GotoReq DEF DieHandling, Die, Done, At, OthersStay, Base
  <1>2. WearsNew(r) /\ AttachesNew(r)
    BY <1>1 DEF WearsNew, Worn, Replaces, AttachesNew, Attached, Drops, OthersStay, At
  <1>3. GoesThrough(r) /\ Spares(r)
    BY <1>1 DEF GoesThrough, Spares
  <1>4. \A f \in Made : KindOfFile(f)'
    BY <1>1, <1>2, <1>3, KindKept
  <1>5. UploadOK(r)' /\ AvatarOK(r)'
    BY <1>1 DEF UploadOK, AvatarOK, At
  <1>6. \A q \in Requests : UploadOK(q)' /\ AvatarOK(q)'
    BY <1>1, <1>3, <1>5, UploadsKept, AvatarsKept
  <1>7. OneWearer' /\ FilesAreThere'
    BY <1>1 DEF FileInv, OneWearer, FilesAreThere
  <1>8. Forgets(r)
    <2>1. \A f \in files' : Owes(r, f) => f \in strays'
      BY <1>1 DEF Owes, Handles, At, Base, TypeOK
    <2>2. QED BY <1>1, <2>1 DEF Forgets, Remembered
  <1>9. QED BY <1>1, <1>4, <1>6, <1>7, <1>8, RememberedKept DEF FileInv

(* Requests that have nothing to do with files change nothing of it. *)
LEMMA FilesRest ==
  ASSUME Base, FileInv, FileQuiet
  PROVE  FileInv'
  <1>1. UNCHANGED <<files, rows, avatar, strays>>
    BY DEF FileQuiet, disk
  <1>2. \A q \in Requests :
          req'[q] = req[q] \/ (req'[q].pc \notin FilePcs /\ req[q].pc \notin FilePcs \cup {"done"})
    BY DEF FileQuiet
  <1>3. \A q \in Requests : \A f :
          /\ Replaces(q, f)' <=> Replaces(q, f)
          /\ Drops(q, f)' <=> Drops(q, f)
          /\ Owes(q, f)' <=> Owes(q, f)
    BY <1>2 DEF Replaces, Drops, Owes, At, FilePcs
  <1>4. \A f : (Worn(f)' <=> Worn(f)) /\ (Attached(f)' <=> Attached(f))
    BY <1>1, <1>3 DEF Worn, Attached
  <1>5. \A f \in Made : KindOfFile(f)'
    <2>1. \A q \in Requests : /\ At(q, "unlink") \/ At(q, "done") => At(q, "unlink")' \/ At(q, "done")'
                              /\ At(q, "undo") \/ At(q, "done") => At(q, "undo")' \/ At(q, "done")'
      BY <1>2 DEF At, FilePcs
    <2>2. QED BY <1>4, <2>1 DEF FileInv, KindOfFile, Made
  <1>6. ASSUME NEW q \in Requests
        PROVE  UploadOK(q)' /\ AvatarOK(q)'
    <2>1. UploadOK(q) /\ AvatarOK(q)
      BY DEF FileInv
    <2>2. CASE req'[q] = req[q]
      BY <1>1, <2>1, <2>2 DEF UploadOK, AvatarOK, At
    <2>3. CASE req'[q].pc \notin FilePcs
      BY <2>3 DEF UploadOK, AvatarOK, At, FilePcs
    <2>4. QED BY <1>2, <2>2, <2>3
  <1>7. OneWearer' /\ FilesAreThere'
    BY <1>1 DEF FileInv, OneWearer, FilesAreThere
  <1>8. \A f \in files' : Remembered(f)'
    BY <1>1, <1>3 DEF FileInv, Remembered
  <1>9. QED BY <1>5, <1>6, <1>7, <1>8 DEF FileInv

LEMMA InitFiles == Init => FileInv
  <1>1. SUFFICES ASSUME Init
                 PROVE  FileInv
    OBVIOUS
  <1>2. /\ files = Rows0 /\ rows = Rows0 /\ Rows0 \subseteq {Earlier}
        /\ \A u \in Users : avatar[u] \notin Made
        /\ \A r \in Requests : req[r] = NewReq
    <2>1. \A u \in Users : Avatar0[u] \notin Made
      BY ContentAssumption, InboxAssumption
    <2>2. avatar = Avatar0 /\ files = Rows0 /\ rows = Rows0
      BY <1>1 DEF Init
    <2>3. \A r \in Requests : req[r] = NewReq
      BY <1>1 DEF Init, InboxInit
    <2>4. QED BY <2>1, <2>2, <2>3, ContentAssumption
  <1>3. \A r \in Requests : \A f : ~Replaces(r, f) /\ ~Drops(r, f)
    BY <1>2 DEF Replaces, Drops, At, NewReq
  <1>4. \A f \in Made : KindOfFile(f)
    BY <1>2, <1>3 DEF KindOfFile, Worn, Attached
  <1>5. \A r \in Requests : UploadOK(r) /\ AvatarOK(r)
    BY <1>2 DEF UploadOK, AvatarOK, At, NewReq
  <1>6. OneWearer /\ FilesAreThere
    BY <1>2 DEF OneWearer, FilesAreThere
  <1>7. \A f \in files : Remembered(f)
    BY <1>2 DEF Remembered
  <1>8. QED BY <1>4, <1>5, <1>6, <1>7 DEF FileInv

LEMMA NextFiles == Base /\ FileInv /\ [Next]_vars => FileInv'
  <1>1. SUFFICES ASSUME Base, FileInv, [Next]_vars
                 PROVE  FileInv'
    OBVIOUS
  <1>2. CASE FileQuiet
    BY <1>1, <1>2, FilesRest
  <1>3. CASE FileStep
    BY <1>1, <1>3, StartFile, NextPut, NextRow, NextDelete, NextDrop, NextRead, NextWorn, NextReplaced,
       NextDead
    DEF FileStep
  <1>4. QED BY <1>1, <1>2, <1>3, FileStepsOnly

LEMMA SpecFiles == Spec => []FileInv
  <1>1. Init => Base /\ FileInv
    BY InitBase, InitFiles
  <1>2. Base /\ FileInv /\ [Next]_vars => (Base /\ FileInv)'
    BY NextBase, NextFiles
  <1>3. QED BY <1>1, <1>2, PTL DEF Spec

(* What is listed can be downloaded, and whoever has an avatar has its      *)
(* file, in whatever order uploads, removals, changes of avatars and deaths *)
(* come; only an insert whose reply was lost may list what is gone.         *)
THEOREM FilesCorrect == Spec => []FilesAreThere
  <1>1. FileInv => FilesAreThere
    BY DEF FileInv
  <1>2. QED BY <1>1, SpecFiles, PTL

(* No file is left that nothing refers to and nobody is about to delete,    *)
(* unless a request died over it, two changes of one avatar crossed, or an  *)
(* administrator put a URL in its place, which deletes no file.            *)
THEOREM NoneForgotten == Spec => []NoFileForgotten
  <1>1. FileInv => NoFileForgotten
    <2>1. \A r, f : Owes(r, f) => f \in Handles(r)
      BY DEF Owes, Handles, At
    <2>2. QED BY <2>1 DEF FileInv, Remembered, NoFileForgotten
  <1>2. QED BY <1>1, SpecFiles, PTL
=============================================================================
