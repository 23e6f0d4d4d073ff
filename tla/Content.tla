------------------------------ MODULE Content -------------------------------
(***************************************************************************)
(* What users put on a task, and their avatars: comments/comments.service. *)
(* ts, attachments/attachments.service.ts with its storage, and the avatar *)
(* handlers of users.controller.ts with users/avatar-files.ts.  A comment   *)
(* is told to the people it concerns by module Inbox.                      *)
(*                                                                         *)
(* There is one task, which everybody who sees its project sees.  A file   *)
(* and what refers to it are written one after the other, by the file      *)
(* system and by the database.                                             *)
(***************************************************************************)
EXTENDS Inbox

CONSTANTS
  Moderators,  \* users who may delete what others put on the task
  Watchers,    \* the task's creator and assignees
  Url,         \* an avatar kept elsewhere
  Comments0,   \* the comments,
  Rows0,       \* the attachments, with their files,
  Avatar0      \* and the avatars in the beginning

VARIABLES
  comments,  \* by the slot that made them
  files,     \* stored files, of attachments and avatars, by the slot
  rows,      \* attachments
  avatar,    \* users' avatars: an uploaded file, None, or Url, which is no file
  orphans,   \* history: replies whose comment was removed while they were made
  strays     \* history: files that a death, a crossing avatar or an administrator
             \* has left, or attachments whose insert failed though it took place

contentVars == <<comments, files, rows, avatar, orphans, strays>>
vars == <<inboxVars, contentVars>>
disk == <<files, rows, avatar, strays>>
thread == <<comments, orphans>>

-----------------------------------------------------------------------------
Comment == [live : BOOLEAN, author : Users, parent : Made \cup {None}, mentions : SUBSET Users]

Call ==
  InboxCall
  \cup [op : {"comment"}, user : Users, parent : Made \cup {None}, mentions : SUBSET Users]
  \cup [op : {"edit"}, user : Users, comment : Made, mentions : SUBSET Users]
  \cup [op : {"uncomment"}, user : Users, comment : Made]
  \cup [op : {"upload"}, user : Users]
  \cup [op : {"detach"}, user : Users, file : Made, uploader : Users]
  \cup [op : {"avatar"}, user : Users, to : {"file", None, Url}]
  \cup [op : {"replace"}, user : Users]

ASSUME ContentAssumption ==
  /\ Url \notin Made \cup {None}
  /\ Moderators \subseteq Users /\ Watchers \subseteq Users
  /\ \A p \in Plans : p.calls \subseteq Call
  /\ Comments0 \in [DOMAIN Comments0 -> Comment] /\ DOMAIN Comments0 \subseteq {Earlier}
  /\ \A m \in DOMAIN Comments0 : Comments0[m].parent = None
  /\ Rows0 \subseteq {Earlier}
  /\ Avatar0 \in [Users -> {None, Url}]

(* The files a request has stored or is about to delete. *)
Handles(r) == IF req[r].pc \in {"put", "row", "undo", "file", "previous", "avatar", "unlink"}
              THEN {req[r].file} \cup {req[r].old} ELSE {}

FileReq == [pc : {"put", "row", "undo", "drop", "file", "previous", "avatar", "unlink"},
            user : Users, file : Made \cup {None, Url}, old : Made \cup {None, Url}]
CommentReq ==
  [pc : {"mentions", "insert"}, user : Users, parent : Made \cup {None}, mentions : SUBSET Users]
EditReq == [pc : {"remention", "edit"}, user : Users, comment : Made, mentions : SUBSET Users]
RemoveReq == [pc : {"remove"}, comment : Made]

Req == {NewReq, Done} \cup RuleReq \cup StoreReq \cup NoteReq
       \cup FileReq \cup CommentReq \cup EditReq \cup RemoveReq

TypeOK ==
  /\ InboxTypeOK
  /\ req \in [Requests -> Req]
  /\ \A m \in DOMAIN comments : m \in Made /\ comments[m] \in Comment
  /\ files \subseteq Made /\ rows \subseteq Made
  /\ avatar \in [Users -> Made \cup {None, Url}]
  /\ orphans \subseteq Made /\ strays \subseteq Made

Init ==
  /\ InboxInit
  /\ comments = Comments0
  /\ files = Rows0 /\ rows = Rows0 /\ avatar = Avatar0
  /\ orphans = {} /\ strays = {}

-----------------------------------------------------------------------------
(* Comments. *)
Live(m) == m \in DOMAIN comments /\ comments[m].live
TopLevel(m) == Live(m) /\ comments[m].parent = None

(* create: the task, then the comment that is answered. *)
StartComment(r, c) ==
  /\ c.op = "comment"
  /\ Goto(r, IF c.user \in access /\ (c.parent = None \/ TopLevel(c.parent))
             THEN [pc |-> "mentions", user |-> c.user, parent |-> c.parent,
                   mentions |-> c.mentions]
             ELSE Done)
  /\ UNCHANGED <<plan, deaths, people, telling, phones, notes, contentVars>>

(* Mentioned are others who see the task. *)
Visible(user, mentions) == (mentions \ {user}) \cap access

ResolveMentions(r) ==
  /\ At(r, "mentions")
  /\ req' = [req EXCEPT ![r].pc = "insert", ![r].mentions = Visible(req[r].user, @)]
  /\ UNCHANGED <<plan, deaths, people, telling, phones, notes, contentVars>>

(* The slip of telling a mentioned watcher twice. *)
MutRules(user, mentions) ==
  <<Rule("MENTIONED", mentions), Rule("COMMENT", Watchers \ {user})>>

(* onCommentCreated. *)
CommentRules(user, mentions) ==
  <<Rule("MENTIONED", mentions), Rule("COMMENT", (Watchers \ {user}) \ mentions)>>

InsertComment(r) ==
  /\ At(r, "insert")
  /\ LET c == req[r] IN
       /\ comments' = [m \in DOMAIN comments \cup {r} |->
            IF m = r THEN [live |-> TRUE, author |-> c.user, parent |-> c.parent,
                           mentions |-> c.mentions]
            ELSE comments[m]]
       /\ orphans' = IF c.parent = None \/ Live(c.parent) THEN orphans ELSE orphans \cup {r}
       /\ Published(r)
       /\ Goto(r, Telling(r, c.user, CommentRules(c.user, c.mentions)))
  /\ UNCHANGED <<plan, deaths, access, telling, phones, notes, disk>>

(* authorizeManage, for update and remove. *)
MayManage(user, m) ==
  /\ Live(m) /\ user \in access
  /\ comments[m].author = user \/ user \in Moderators

StartEdit(r, c) ==
  /\ c.op = "edit"
  /\ Goto(r, IF MayManage(c.user, c.comment)
             THEN [pc |-> "remention", user |-> c.user, comment |-> c.comment,
                   mentions |-> c.mentions]
             ELSE Done)
  /\ UNCHANGED <<plan, deaths, people, telling, phones, notes, contentVars>>

ResolveEdited(r) ==
  /\ At(r, "remention")
  /\ req' = [req EXCEPT ![r].pc = "edit", ![r].mentions = Visible(req[r].user, @)]
  /\ UNCHANGED <<plan, deaths, people, telling, phones, notes, contentVars>>

(* updateOne does nothing to a comment that is gone.  Nobody is told. *)
EditComment(r) ==
  /\ At(r, "edit")
  /\ LET m == req[r].comment IN
       comments' = IF Live(m) THEN [comments EXCEPT ![m].mentions = req[r].mentions] ELSE comments
  /\ Goto(r, Done)
  /\ UNCHANGED <<plan, deaths, people, telling, phones, notes, disk, orphans>>

StartRemove(r, c) ==
  /\ c.op = "uncomment"
  /\ Goto(r, IF MayManage(c.user, c.comment) THEN [pc |-> "remove", comment |-> c.comment] ELSE Done)
  /\ UNCHANGED <<plan, deaths, people, telling, phones, notes, contentVars>>

(* The slip of deleting the comment alone. *)
MutThread(m) == {m}

Thread(m) == {m} \cup {q \in DOMAIN comments : comments[q].parent = m}

RemoveComment(r) ==
  /\ At(r, "remove")
  /\ comments' = [q \in DOMAIN comments |->
       IF q \in Thread(req[r].comment) THEN [comments[q] EXCEPT !.live = FALSE] ELSE comments[q]]
  /\ Goto(r, Done)
  /\ UNCHANGED <<plan, deaths, people, telling, phones, notes, disk, orphans>>

-----------------------------------------------------------------------------
(* Attachments. *)
Handling(pc, user, file, old) == [pc |-> pc, user |-> user, file |-> file, old |-> old]
Step(r, pc) == req' = [req EXCEPT ![r].pc = pc]

Upload(r, c) ==
  /\ c.op = "upload"
  /\ Goto(r, IF c.user \in access THEN Handling("put", c.user, r, None) ELSE Done)
  /\ UNCHANGED <<plan, deaths, people, telling, phones, notes, contentVars>>

PutFile(r) ==
  /\ At(r, "put")
  /\ files' = files \cup {r}
  /\ Step(r, "row")
  /\ UNCHANGED <<plan, deaths, people, telling, phones, notes, thread, rows, avatar, strays>>

(* The slip of leaving the file where it is. *)
MutAfterFailure(r) == Done

(* What upload catches an error of the insert with: the file is deleted. *)
AfterFailure(r) == [req[r] EXCEPT !.pc = "undo"]

(* The insert succeeds, or fails, or its reply is lost. *)
InsertRow(r) ==
  /\ At(r, "row")
  /\ \/ /\ rows' = rows \cup {r}
        /\ Goto(r, Done)
        /\ UNCHANGED <<deaths, strays>>
     \/ /\ deaths < MaxDeaths
        /\ deaths' = deaths + 1
        /\ Goto(r, AfterFailure(r))
        /\ \/ UNCHANGED <<rows, strays>>
           \/ rows' = rows \cup {r} /\ strays' = strays \cup {r}
  /\ UNCHANGED <<plan, people, telling, phones, notes, thread, files, avatar>>

UndoFile(r) ==
  /\ At(r, "undo")
  /\ files' = files \ {r}
  /\ Goto(r, Done)
  /\ UNCHANGED <<plan, deaths, people, telling, phones, notes, thread, rows, avatar, strays>>

RemoveAttachment(r, c) ==
  /\ c.op = "detach"
  /\ Goto(r, IF c.file \in rows /\ c.user \in access
                /\ (c.user = c.uploader \/ c.user \in Moderators)
             THEN Handling("drop", c.user, c.file, None) ELSE Done)
  /\ UNCHANGED <<plan, deaths, people, telling, phones, notes, contentVars>>

(* The slip of deleting the file first. *)
MutDropRow(r) ==
  /\ At(r, "drop")
  /\ files' = files \ {req[r].file}
  /\ Step(r, "file")
  /\ UNCHANGED <<plan, deaths, people, telling, phones, notes, thread, rows, avatar, strays>>

DropRow(r) ==
  /\ At(r, "drop")
  /\ rows' = rows \ {req[r].file}
  /\ Step(r, "file")
  /\ UNCHANGED <<plan, deaths, people, telling, phones, notes, thread, files, avatar, strays>>

DropFile(r) ==
  /\ At(r, "file")
  /\ files' = files \ {req[r].file}
  /\ Goto(r, Done)
  /\ UNCHANGED <<plan, deaths, people, telling, phones, notes, thread, rows, avatar, strays>>

-----------------------------------------------------------------------------
(* Avatars: an upload is stored before the handler runs; a removal, or a    *)
(* user's own profile with a URL, stores nothing.                          *)
StartAvatar(r, c) ==
  /\ c.op = "avatar"
  /\ Goto(r, Handling("previous", c.user, IF c.to = "file" THEN r ELSE c.to, None))
  /\ files' = IF c.to = "file" THEN files \cup {r} ELSE files
  /\ UNCHANGED <<plan, deaths, people, telling, phones, notes, thread, rows, avatar, strays>>

ReadAvatar(r) ==
  /\ At(r, "previous")
  /\ req' = [req EXCEPT ![r].pc = "avatar", ![r].old = avatar[req[r].user]]
  /\ UNCHANGED <<plan, deaths, people, telling, phones, notes, contentVars>>

WriteAvatar(r) ==
  /\ At(r, "avatar")
  /\ avatar' = [avatar EXCEPT ![req[r].user] = req[r].file]
  /\ strays' = strays \cup (({avatar[req[r].user]} \ {req[r].old}) \cap Made)
  /\ Step(r, "unlink")
  /\ UNCHANGED <<plan, deaths, people, telling, phones, notes, thread, files, rows>>

Replaced(r) == {req[r].old}

(* removeAvatarFile; a URL, or a file that is missing, is ignored. *)
UnlinkAvatar(r) ==
  /\ At(r, "unlink")
  /\ files' = files \ Replaced(r)
  /\ Goto(r, Done)
  /\ UNCHANGED <<plan, deaths, people, telling, phones, notes, thread, rows, avatar, strays>>

(* An administrator's change of the user to a URL is one write, which looks  *)
(* at no file.                                                             *)
ReplaceAvatar(r, c) ==
  /\ c.op = "replace"
  /\ avatar' = [avatar EXCEPT ![c.user] = Url]
  /\ strays' = strays \cup ({avatar[c.user]} \cap Made)
  /\ Goto(r, Done)
  /\ UNCHANGED <<plan, deaths, people, telling, phones, notes, thread, files, rows>>

-----------------------------------------------------------------------------
DieHandling(r) == Die(r) /\ strays' = strays \cup (Handles(r) \cap Made)
                  /\ UNCHANGED <<thread, files, rows, avatar>>

Start(r, c) ==
  \/ InboxStart(r, c) /\ UNCHANGED contentVars
  \/ StartComment(r, c) \/ StartEdit(r, c) \/ StartRemove(r, c)
  \/ Upload(r, c) \/ RemoveAttachment(r, c) \/ StartAvatar(r, c) \/ ReplaceAvatar(r, c)

Proceed(r) ==
  \/ ResolveMentions(r) \/ InsertComment(r) \/ ResolveEdited(r) \/ EditComment(r) \/ RemoveComment(r)
  \/ PutFile(r) \/ InsertRow(r) \/ UndoFile(r) \/ DropRow(r) \/ DropFile(r)
  \/ ReadAvatar(r) \/ WriteAvatar(r) \/ UnlinkAvatar(r)
  \/ DieHandling(r)

Next ==
  \/ \E r \in Requests :
       \/ Free(r) /\ \E c \in plan.calls : Start(r, c)
       \/ Proceed(r)
  \/ InboxNext /\ UNCHANGED contentVars

(* The cron of some process runs, and what it has begun goes on. *)
Fairness ==
  /\ WF_vars(ClaimReminder /\ UNCHANGED contentVars)
  /\ \A s \in Made : WF_vars(Remind(s) /\ UNCHANGED contentVars)

Spec == Init /\ [][Next]_vars /\ Fairness

-----------------------------------------------------------------------------
(* What must hold. *)

(* A reply that is stored answers a comment that is, at the top level,      *)
(* however removals and replies cross; or the comment was removed after the *)
(* reply had looked for it, which the code leaves.                         *)
RepliesAnchored ==
  \A m \in DOMAIN comments :
    Live(m) /\ comments[m].parent # None => TopLevel(comments[m].parent) \/ m \in orphans

(* What is listed can be downloaded, and whoever has an avatar has its      *)
(* file: no order of uploads, removals and failures loses the file of what  *)
(* is still there.  An insert whose reply was lost is the exception.       *)
FilesAreThere ==
  /\ rows \subseteq files \cup strays
  /\ \A u \in Users : avatar[u] \in Made => avatar[u] \in files

(* No file is left that nothing refers to and nobody is about to delete,    *)
(* unless a request died over it, two changes of one avatar crossed, or an *)
(* administrator has put a URL in its place (PUT /users/:id).              *)
NoFileForgotten ==
  \A f \in files :
    \/ f \in rows \/ \E u \in Users : avatar[u] = f
    \/ \E r \in Requests : f \in Handles(r)
    \/ f \in strays

(* Nobody is told of a comment twice, or of one's own, whatever becomes of  *)
(* access and of the listener between the two rules.                       *)
HeardOnce ==
  \A n \in inbox : n.kind \in {"MENTIONED", "COMMENT"} =>
    /\ comments[n.from].author # n.user
    /\ \A k \in inbox : (k.user = n.user /\ k.from = n.from) => k = n

(* Who is told of something in the project has seen the project at some     *)
(* time since: "notify drops recipients who lost access in the meantime".  *)
ToldWhoSees == \A n \in inbox : n.kind # "NOTE" => n.user \in had[n.from]

(* A device is registered for who signed in on it last and for nobody else, *)
(* in whatever order sign-ins, sign-outs and deliveries arrive.            *)
DevicesFollowSignIn ==
  \A d \in Tokens \ gone :
    {u \in Users : <<u, d>> \in devices} = IF signedIn[d] = None THEN {} ELSE {signedIn[d]}

(* A time that was set is reminded of once ("the owner gets one reminder    *)
(* notification at that time"), unless two updates set it side by side.    *)
RemindedOnce == \A s \in Made : reminded[s] <= 1 \/ s \in crossed

Due(s) == note.live /\ note.by = s /\ note.at \in 0..now
TooLate == note.at \in {t \in Time : now >= t + Late}

(* A reminder that comes due is sent, unless the note changes or goes, or   *)
(* nobody claims it for a day.  One that is claimed by a scheduler which    *)
(* dies before it tells counts as sent: nobody sends it again.             *)
RemindedInTheEnd ==
  \A s \in Made : Due(s) ~> (reminded[s] > 0 \/ ~Due(s) \/ TooLate)
=============================================================================
