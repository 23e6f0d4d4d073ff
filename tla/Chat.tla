-------------------------------- MODULE Chat --------------------------------
(***************************************************************************)
(* One conversation of src/src/chat/chat.service.ts: sending, marking      *)
(* read, deleting and clearing, by requests that interleave at every await *)
(* and may die at any of them.                                             *)
(*                                                                         *)
(* A message is its seq; what it says is left out, except whether it is    *)
(* still there.  `conv` is the conversation document, every update of      *)
(* which is atomic, `msgs` the chat_messages collection.  Users are the    *)
(* conversation's participants, `active` those who are active members of   *)
(* its live workspace at the moment (module Membership).                   *)
(***************************************************************************)
EXTENDS Naturals, FiniteSets

CONSTANTS
  Users,       \* the participants
  NoUser,
  ClientIds,   \* idempotency keys the sending devices draw from
  NoClientId,  \* a send without one
  IsGroup,     \* GROUP or DIRECT conversation
  Requests,    \* request slots: how many requests may be in flight
  MaxSeq,      \* bound: numbers handed out
  SendKeys,    \* bound: the clientIds used, NoClientId for none
  Clients,     \* bound: the participants whose devices send requests
  Movers,      \* bound: who leaves the workspace and joins it again
  Hiders       \* bound: who deletes messages for themselves

ASSUME ChatAssumption ==
  /\ NoUser \notin Users
  /\ NoClientId \notin ClientIds
  /\ IsGroup \in BOOLEAN
  /\ MaxSeq \in Nat
  /\ SendKeys \subseteq ClientIds \cup {NoClientId}
  /\ Clients \subseteq Users /\ Movers \subseteq Users /\ Hiders \subseteq Users

VARIABLES
  conv,     \* the conversation document
  msgs,     \* chat_messages by seq, NoMessage where there is none
  active,   \* participants who are active members of the live workspace
  req,      \* what each request slot is doing
  lost      \* seqs of the messages whose send died before it was through

vars == <<conv, msgs, active, req, lost>>

Seqs == 1 .. MaxSeq

-----------------------------------------------------------------------------
(* Documents. *)

(* last, lastErased: lastMessage.seq, 0 for null, and whether its preview   *)
(* says "Message deleted".  dated: lastMessageAt is not null.  read,        *)
(* cleared, hidden: members[].lastReadSeq, clearedSeq and hidden.           *)
Conversation == [open       : BOOLEAN,
                 lastSeq    : 0 .. MaxSeq,
                 last       : 0 .. MaxSeq,
                 lastErased : BOOLEAN,
                 dated      : BOOLEAN,
                 read       : [Users -> 0 .. MaxSeq],
                 cleared    : [Users -> 0 .. MaxSeq],
                 hidden     : [Users -> BOOLEAN]]

ChatMessage == [sender    : Users \cup {NoUser},
                clientId  : ClientIds \cup {NoClientId},
                deleted   : BOOLEAN,
                hiddenFor : SUBSET Users]

NoMessage == [sender |-> NoUser, clientId |-> NoClientId,
              deleted |-> FALSE, hiddenFor |-> {}]

Stored(n) == msgs[n].sender # NoUser
StoredSeqs == {n \in Seqs : Stored(n)}

(* findByClientId. *)
SentWith(u, key) ==
  {n \in Seqs : Stored(n) /\ key # NoClientId
                  /\ msgs[n].sender = u /\ msgs[n].clientId = key}

-----------------------------------------------------------------------------
(* Requests. *)

RequestPc ==
  {"idle", "send:lookup", "send:audience", "send:number", "send:insert", "send:summary",
   "read:advance", "delete:erase", "delete:preview", "clear:write"}

Updates == {"last", "read", "unhide"}

(* seq: the number a send was given, the target of markRead, the lastSeq    *)
(* that clear read, the lastMessage that deleteMessages read.  todo: the    *)
(* parallel updates of a send that are still to come.                       *)
Request == [pc       : RequestPc,
            by       : Users \cup {NoUser},
            clientId : ClientIds \cup {NoClientId},
            seq      : 0 .. MaxSeq,
            ids      : SUBSET Seqs,
            todo     : SUBSET Updates]

NoRequest == [pc |-> "idle", by |-> NoUser, clientId |-> NoClientId,
              seq |-> 0, ids |-> {}, todo |-> {}]

Idle(s) == req[s].pc = "idle"
At(s, pc) == req[s].pc = pc
Goto(s, pc) == req' = [req EXCEPT ![s].pc = pc]
Done(s) == req' = [req EXCEPT ![s] = NoRequest]

(* The sends that hold a number. *)
Holding == {s \in Requests : req[s].pc \in {"send:insert", "send:summary"}}

-----------------------------------------------------------------------------
(* authorize: a participant who is an active member of the live workspace. *)
Authorized(u) == conv.open /\ u \in active

(* openDirect and createGroup.  The DM of a pair is found or created under *)
(* a unique key, so opening it again changes nothing; a group is dated at  *)
(* once.                                                                   *)
Open ==
  /\ ~conv.open
  /\ active = Users
  /\ conv' = [conv EXCEPT !.open = TRUE, !.dated = IsGroup]
  /\ UNCHANGED <<msgs, active, req, lost>>

-----------------------------------------------------------------------------
(* send *)

SendAuthorize(s, u, key) ==
  /\ Idle(s)
  /\ Authorized(u)
  /\ req' = [req EXCEPT ![s] =
               [NoRequest EXCEPT !.pc = "send:lookup", !.by = u, !.clientId = key]]
  /\ UNCHANGED <<conv, msgs, active, lost>>

(* A retry of a send that already succeeded is answered with that message. *)
SendLookup(s) ==
  /\ At(s, "send:lookup")
  /\ IF SentWith(req[s].by, req[s].clientId) # {} THEN Done(s) ELSE Goto(s, "send:audience")
  /\ UNCHANGED <<conv, msgs, active, lost>>

(* Somebody has to be there: the DM's other participant, or at least two of *)
(* the group's members.                                                     *)
SendAudience(s) ==
  /\ At(s, "send:audience")
  /\ IF IF IsGroup THEN Cardinality(active) >= 2 ELSE Users \ {req[s].by} \subseteq active
     THEN Goto(s, "send:number")
     ELSE Done(s)
  /\ UNCHANGED <<conv, msgs, active, lost>>

NextNumber(n) == n + 1

(* $inc of lastSeq; the second conjunct is the bound. *)
SendNumber(s) ==
  /\ At(s, "send:number")
  /\ conv.lastSeq < MaxSeq
  /\ conv' = [conv EXCEPT !.lastSeq = NextNumber(@)]
  /\ req' = [req EXCEPT ![s] =
               [@ EXCEPT !.pc = "send:insert", !.seq = NextNumber(conv.lastSeq)]]
  /\ UNCHANGED <<msgs, active, lost>>

(* The slip of a {sender, clientId} index that is not unique. *)
MutNoKeyIndex(u, key) == FALSE

KeyTaken(u, key) == SentWith(u, key) # {}

(* The insert.  The unique index {sender, clientId} stops the second of two *)
(* sends with one key, which answers with the first one's message and skips *)
(* its number; so does {conversation, seq}, with an error.                  *)
SendInsert(s) ==
  LET r == req[s]
  IN /\ At(s, "send:insert")
     /\ IF KeyTaken(r.by, r.clientId) \/ Stored(r.seq)
        THEN Done(s) /\ UNCHANGED msgs
        ELSE /\ msgs' = [msgs EXCEPT ![r.seq] =
                           [NoMessage EXCEPT !.sender = r.by, !.clientId = r.clientId]]
             /\ req' = [req EXCEPT ![s] = [@ EXCEPT !.pc = "send:summary", !.todo = Updates]]
     /\ UNCHANGED <<conv, active, lost>>

(* One of the parallel updates is through; the last one ends the send. *)
Through(s, update) ==
  IF req[s].todo = {update}
  THEN Done(s)
  ELSE req' = [req EXCEPT ![s].todo = @ \ {update}]

(* The slip of writing lastMessage whatever it is. *)
MutAlwaysNewer(n) == TRUE

NewerThanLast(n) == conv.last < n

SendLast(s) ==
  LET n == req[s].seq
  IN /\ "last" \in req[s].todo
     /\ IF NewerThanLast(n)
        THEN conv' = [conv EXCEPT !.last = n, !.lastErased = FALSE, !.dated = TRUE]
        ELSE UNCHANGED conv
     /\ Through(s, "last")
     /\ UNCHANGED <<msgs, active, lost>>

(* The slip of $set for $max. *)
MutSetMark(old, n) == n

(* $max *)
AdvancedTo(old, n) == IF n > old THEN n ELSE old

AdvanceRead(u, n) == conv' = [conv EXCEPT !.read[u] = AdvancedTo(@, n)]

(* Sending means having seen everything up to one's own message. *)
SendRead(s) ==
  /\ "read" \in req[s].todo
  /\ AdvanceRead(req[s].by, req[s].seq)
  /\ Through(s, "read")
  /\ UNCHANGED <<msgs, active, lost>>

(* A new message brings a deleted chat back to everyone's inbox. *)
SendUnhide(s) ==
  /\ "unhide" \in req[s].todo
  /\ conv' = [conv EXCEPT !.hidden = [u \in Users |-> FALSE]]
  /\ Through(s, "unhide")
  /\ UNCHANGED <<msgs, active, lost>>

-----------------------------------------------------------------------------
(* markRead: the client asks for any n, the conversation read caps it, ... *)
MarkRead(s, u, n) ==
  LET target == IF n < conv.lastSeq THEN n ELSE conv.lastSeq
  IN /\ Idle(s)
     /\ Authorized(u)
     /\ target > conv.read[u]
     /\ req' = [req EXCEPT ![s] =
                  [NoRequest EXCEPT !.pc = "read:advance", !.by = u, !.seq = target]]
     /\ UNCHANGED <<conv, msgs, active, lost>>

(* ... and then it is applied. *)
ReadAdvance(s) ==
  /\ At(s, "read:advance")
  /\ AdvanceRead(req[s].by, req[s].seq)
  /\ Done(s)
  /\ UNCHANGED <<msgs, active, lost>>

-----------------------------------------------------------------------------
(* deleteMessages, of messages that exist: nobody knows other ids. *)

Batch == (SUBSET StoredSeqs) \ {{}}

(* For everyone: the conversation is read, *)
DeleteAuthorize(s, u, ids) ==
  /\ Idle(s)
  /\ Authorized(u)
  /\ req' = [req EXCEPT ![s] =
               [NoRequest EXCEPT !.pc = "delete:erase", !.by = u, !.ids = ids, !.seq = conv.last]]
  /\ UNCHANGED <<conv, msgs, active, lost>>

AllMine(u, ids) == \A n \in ids : msgs[n].sender = u

(* the caller's own messages are emptied (sender never changes, so the     *)
(* find and the update are one step),                                      *)
DeleteErase(s) ==
  LET r == req[s]
  IN /\ At(s, "delete:erase")
     /\ IF AllMine(r.by, r.ids)
        THEN /\ msgs' = [n \in Seqs |->
                           IF n \in r.ids THEN [msgs[n] EXCEPT !.deleted = TRUE] ELSE msgs[n]]
             /\ IF r.seq \in r.ids THEN Goto(s, "delete:preview") ELSE Done(s)
        ELSE Done(s) /\ UNCHANGED msgs
     /\ UNCHANGED <<conv, active, lost>>

(* and so is the preview, if the message read as the last still is.        *)
DeletePreview(s) ==
  /\ At(s, "delete:preview")
  /\ conv' = [conv EXCEPT !.lastErased = IF conv.last = req[s].seq THEN TRUE ELSE @]
  /\ Done(s)
  /\ UNCHANGED <<msgs, active, lost>>

(* For me. *)
DeleteForMe(u, ids) ==
  /\ Authorized(u)
  /\ msgs' = [n \in Seqs |->
                IF n \in ids THEN [msgs[n] EXCEPT !.hiddenFor = @ \cup {u}] ELSE msgs[n]]
  /\ UNCHANGED <<conv, active, req, lost>>

-----------------------------------------------------------------------------
(* messages: what u's history shows. *)
History(u) == {n \in StoredSeqs : n > conv.cleared[u] /\ u \notin msgs[n].hiddenFor}

-----------------------------------------------------------------------------
(* clear: the conversation is read, ... *)
ClearAuthorize(s, u) ==
  /\ Idle(s)
  /\ Authorized(u)
  /\ req' = [req EXCEPT ![s] =
               [NoRequest EXCEPT !.pc = "clear:write", !.by = u, !.seq = conv.lastSeq]]
  /\ UNCHANGED <<conv, msgs, active, lost>>

(* ... and its lastSeq cleared and marked read, in one update. *)
ClearWrite(s) ==
  LET u == req[s].by
  IN /\ At(s, "clear:write")
     /\ conv' = [conv EXCEPT !.cleared[u] = AdvancedTo(@, req[s].seq),
                             !.read[u]    = AdvancedTo(@, req[s].seq),
                             !.hidden[u]  = TRUE]
     /\ Done(s)
     /\ UNCHANGED <<msgs, active, lost>>

-----------------------------------------------------------------------------
(* Memberships come and go (suspension, removal, joining again). *)
MembershipChanges(u) ==
  /\ active' = IF u \in active THEN active \ {u} ELSE active \cup {u}
  /\ UNCHANGED <<conv, msgs, req, lost>>

(* The process dies, or a write fails: the request ends where it is. *)
Crash(s) ==
  /\ ~Idle(s)
  /\ lost' = IF At(s, "send:summary") THEN lost \cup {req[s].seq} ELSE lost
  /\ Done(s)
  /\ UNCHANGED <<conv, msgs, active>>

-----------------------------------------------------------------------------
Init ==
  /\ conv = [open |-> FALSE, lastSeq |-> 0, last |-> 0, lastErased |-> FALSE, dated |-> FALSE,
             read |-> [u \in Users |-> 0], cleared |-> [u \in Users |-> 0],
             hidden |-> [u \in Users |-> FALSE]]
  /\ msgs = [n \in Seqs |-> NoMessage]
  /\ active = Users
  /\ req = [s \in Requests |-> NoRequest]
  /\ lost = {}

SendStep(s) ==
  \/ \E u \in Clients, key \in SendKeys : SendAuthorize(s, u, key)
  \/ SendLookup(s)
  \/ SendAudience(s)
  \/ SendNumber(s)
  \/ SendInsert(s)
  \/ SendLast(s)
  \/ SendRead(s)
  \/ SendUnhide(s)

ReadStep(s) ==
  \/ \E u \in Clients, n \in Seqs : MarkRead(s, u, n)
  \/ ReadAdvance(s)

DeleteStep(s) ==
  \/ \E u \in Clients, ids \in Batch : DeleteAuthorize(s, u, ids)
  \/ DeleteErase(s)
  \/ DeletePreview(s)
  \/ \E u \in Clients : ClearAuthorize(s, u)
  \/ ClearWrite(s)

Next ==
  \/ Open
  \/ \E u \in Movers : MembershipChanges(u)
  \/ \E u \in Hiders, ids \in Batch : DeleteForMe(u, ids)
  \/ \E s \in Requests : SendStep(s) \/ ReadStep(s) \/ DeleteStep(s) \/ Crash(s)

Spec == Init /\ [][Next]_vars

-----------------------------------------------------------------------------
(* Properties. *)

(* The shape of the documents and of the requests in flight. *)
TypeOK ==
  /\ conv \in Conversation
  /\ msgs \in [Seqs -> ChatMessage]
  /\ active \subseteq Users
  /\ req \in [Requests -> Request]
  /\ lost \subseteq Seqs

(* However retries of a send overlap, fail half-way and start again, one    *)
(* clientId of one sender makes one message (chat-message.schema.ts,        *)
(* "instead of creating a duplicate").                                      *)
SentOnce ==
  \A u \in Users, key \in ClientIds : Cardinality(SentWith(u, key)) <= 1

(* Once a send is through, the inbox knows of its message or of a newer one *)
(* and the sender has read it, whatever order the updates of the sends in   *)
(* flight took.                                                             *)
SummaryCatchesUp ==
  \A n \in StoredSeqs :
    \/ n \in lost
    \/ \E s \in Holding : req[s].seq = n
    \/ /\ conv.last >= n /\ conv.dated
       /\ conv.read[msgs[n].sender] >= n

(* What somebody cleared or deleted for themselves never shows again, in    *)
(* whatever order the clears of two of their devices arrive.                *)
GoneStaysGone ==
  [][\A u \in Users : History(u)' \cap StoredSeqs \subseteq History(u)]_vars
=============================================================================
