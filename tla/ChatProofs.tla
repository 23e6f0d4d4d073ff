----------------------------- MODULE ChatProofs -----------------------------
(***************************************************************************)
(* Theorems about module Chat, for any participants, keys, requests and    *)
(* numbers.                                                                *)
(***************************************************************************)
EXTENDS Chat, FiniteSetTheorems, TLAPS

-----------------------------------------------------------------------------
(* The inductive invariant. *)

(* Nothing happens before the conversation is opened. *)
StartsEmpty ==
  /\ ~conv.open => /\ \A s \in Requests : Idle(s)
                   /\ \A n \in Seqs : ~Stored(n)
                   /\ conv.last = 0
  /\ conv.last > 0 => conv.dated

(* A number is handed out once, so the message it belongs to is the holder's *)
(* or nobody's.                                                              *)
NumberOK(s) ==
  /\ ~Idle(s) => req[s].by \in Users
  /\ s \in Holding => req[s].seq \in Seqs /\ req[s].seq <= conv.lastSeq
  /\ At(s, "send:insert") => ~Stored(req[s].seq)
  /\ At(s, "send:summary") => Stored(req[s].seq) /\ msgs[req[s].seq].sender = req[s].by

NumbersOK ==
  /\ \A n \in Seqs : Stored(n) => n <= conv.lastSeq
  /\ \A s \in Requests : NumberOK(s)
  /\ \A s, t \in Holding : req[s].seq = req[t].seq => s = t

(* SentOnce without counting. *)
KeysOK ==
  \A m, n \in Seqs :
    /\ Stored(m) /\ Stored(n)
    /\ msgs[m].sender = msgs[n].sender
    /\ msgs[m].clientId = msgs[n].clientId /\ msgs[m].clientId # NoClientId
    => m = n

(* What is through of a send's three updates is in the conversation. *)
LastKnows(n) == conv.last >= n /\ conv.dated
SenderRead(n) == conv.read[msgs[n].sender] >= n
UpdatesOK ==
  \A s \in Requests :
    IF At(s, "send:summary")
    THEN /\ "last" \notin req[s].todo => LastKnows(req[s].seq)
         /\ "read" \notin req[s].todo => SenderRead(req[s].seq)
    ELSE req[s].todo = {}

(* SummaryCatchesUp, with the last disjunct named. *)
SummariesOK ==
  \A n \in Seqs : Stored(n) =>
    n \in lost \/ (\E s \in Holding : req[s].seq = n) \/ (LastKnows(n) /\ SenderRead(n))

IInv ==
  /\ TypeOK /\ StartsEmpty /\ NumbersOK /\ KeysOK
  /\ UpdatesOK /\ SummariesOK

-----------------------------------------------------------------------------
(* Types. *)

(* SentWith and the guards are about messages and requests of these shapes. *)
LEMMA Shapes ==
  ASSUME TypeOK
  PROVE  /\ \A s \in Requests : req[s] \in Request
         /\ \A n \in Seqs : msgs[n] \in ChatMessage
         /\ conv \in Conversation
         /\ NoRequest \in Request /\ NoMessage \in ChatMessage
         /\ Seqs \subseteq 0 .. MaxSeq /\ MaxSeq \in Nat
  BY ChatAssumption DEF TypeOK, Request, NoRequest, RequestPc, ChatMessage, NoMessage, Seqs

LEMMA ThroughTypes ==
  ASSUME TypeOK, NEW s \in Requests, NEW update, Through(s, update)
  PROVE  req' \in [Requests -> Request]
<1>1. req[s] \in Request /\ NoRequest \in Request
  BY Shapes
<1>2. [req[s] EXCEPT !.todo = @ \ {update}] \in Request
  BY <1>1 DEF Request
<1> QED BY <1>1, <1>2 DEF Through, Done, TypeOK

LEMMA SendTypes ==
  ASSUME TypeOK, NEW s \in Requests, SendStep(s)
  PROVE  TypeOK'
<1> DEFINE r == req[s]
<1>0. /\ r \in Request /\ NoRequest \in Request /\ conv \in Conversation
      /\ r.seq \in 0 .. MaxSeq
  BY Shapes DEF Request
<1>1. CASE \E u \in Clients, key \in SendKeys : SendAuthorize(s, u, key)
  <2>1. PICK u \in Clients, key \in SendKeys : SendAuthorize(s, u, key)
    BY <1>1
  <2>2. [NoRequest EXCEPT !.pc = "send:lookup", !.by = u, !.clientId = key] \in Request
    BY <1>0, ChatAssumption DEF NoRequest, Request, RequestPc
  <2> QED BY <2>1, <2>2 DEF SendAuthorize, TypeOK
<1>2. CASE SendLookup(s) \/ SendAudience(s)
  BY <1>0, <1>2 DEF SendLookup, SendAudience, Done, Goto, TypeOK, Request, RequestPc
<1>3. CASE SendNumber(s)
  <2>1. NextNumber(conv.lastSeq) \in 0 .. MaxSeq
    BY <1>0, <1>3, ChatAssumption DEF SendNumber, NextNumber, Conversation
  <2>2. [r EXCEPT !.pc = "send:insert", !.seq = NextNumber(conv.lastSeq)] \in Request
    BY <1>0, <2>1 DEF Request, RequestPc
  <2>3. conv' \in Conversation
    BY <1>0, <1>3, <2>1 DEF SendNumber, Conversation
  <2> QED BY <1>3, <2>2, <2>3 DEF SendNumber, TypeOK
<1>4. CASE SendInsert(s)
  <2>1. [r EXCEPT !.pc = "send:summary", !.todo = Updates] \in Request
    BY <1>0 DEF Request, RequestPc
  <2>2. [NoMessage EXCEPT !.sender = r.by, !.clientId = r.clientId] \in ChatMessage
    BY <1>0 DEF Request, ChatMessage, NoMessage
  <2> QED BY <1>0, <1>4, <2>1, <2>2 DEF SendInsert, Done, TypeOK
<1>5. CASE SendLast(s)
  <2>1. conv' \in Conversation
    BY <1>0, <1>5 DEF SendLast, Conversation
  <2> QED BY <1>5, <2>1, ThroughTypes DEF SendLast, TypeOK
<1>6. CASE SendRead(s)
  <2>1. r.by \in Users => conv' \in Conversation
    BY <1>0, <1>6 DEF SendRead, AdvanceRead, AdvancedTo, Conversation
  <2>2. r.by \notin Users => conv' = conv
    BY <1>0, <1>6 DEF SendRead, AdvanceRead, Conversation
  <2> QED BY <1>0, <1>6, <2>1, <2>2, ThroughTypes DEF SendRead, TypeOK
<1>7. CASE SendUnhide(s)
  <2>1. conv' \in Conversation
    BY <1>0, <1>7 DEF SendUnhide, Conversation
  <2> QED BY <1>7, <2>1, ThroughTypes DEF SendUnhide, TypeOK
<1> QED BY <1>1, <1>2, <1>3, <1>4, <1>5, <1>6, <1>7 DEF SendStep

LEMMA OtherTypes ==
  ASSUME TypeOK, NEW s \in Requests, ReadStep(s) \/ DeleteStep(s)
  PROVE  TypeOK'
<1> DEFINE r == req[s]
<1>0. /\ r \in Request /\ NoRequest \in Request /\ conv \in Conversation
      /\ r.seq \in 0 .. MaxSeq
      /\ conv.lastSeq \in 0 .. MaxSeq /\ conv.last \in 0 .. MaxSeq
  BY Shapes DEF Request, Conversation
<1>1. CASE \E u \in Clients, n \in Seqs : MarkRead(s, u, n)
  <2>1. PICK u \in Clients, n \in Seqs : MarkRead(s, u, n)
    BY <1>1
  <2>2. u \in Users /\ (IF n < conv.lastSeq THEN n ELSE conv.lastSeq) \in 0 .. MaxSeq
    BY <1>0, Shapes, ChatAssumption
  <2> QED BY <1>0, <2>1, <2>2 DEF MarkRead, NoRequest, TypeOK, Request, RequestPc
<1>2. CASE ReadAdvance(s)
  <2>1. conv' \in Conversation
    BY <1>0, <1>2 DEF ReadAdvance, AdvanceRead, AdvancedTo, Conversation
  <2> QED BY <1>0, <1>2, <2>1 DEF ReadAdvance, Done, TypeOK
<1>3. CASE \E u \in Clients, ids \in Batch : DeleteAuthorize(s, u, ids)
  <2>1. PICK u \in Clients, ids \in Batch : DeleteAuthorize(s, u, ids)
    BY <1>3
  <2>2. u \in Users /\ ids \subseteq Seqs
    BY ChatAssumption DEF Batch, StoredSeqs
  <2> QED BY <1>0, <2>1, <2>2 DEF DeleteAuthorize, NoRequest, TypeOK, Request, RequestPc
<1>4. CASE DeleteErase(s)
  <2>1. [r EXCEPT !.pc = "delete:preview"] \in Request
    BY <1>0 DEF Request, RequestPc
  <2>2. \A n \in Seqs : [msgs[n] EXCEPT !.deleted = TRUE] \in ChatMessage
    BY Shapes DEF ChatMessage
  <2> QED BY <1>0, <1>4, <2>1, <2>2, Shapes DEF DeleteErase, Done, Goto, TypeOK
<1>5. CASE DeletePreview(s)
  <2>1. conv' \in Conversation
    BY <1>0, <1>5 DEF DeletePreview, Conversation
  <2> QED BY <1>0, <1>5, <2>1 DEF DeletePreview, Done, TypeOK
<1>6. CASE \E u \in Clients : ClearAuthorize(s, u)
  <2>1. PICK u \in Clients : ClearAuthorize(s, u)
    BY <1>6
  <2>2. [NoRequest EXCEPT !.pc = "clear:write", !.by = u, !.seq = conv.lastSeq] \in Request
    BY <1>0, ChatAssumption DEF NoRequest, Request, RequestPc
  <2> QED BY <2>1, <2>2 DEF ClearAuthorize, TypeOK
<1>7. CASE ClearWrite(s)
  <2>1. conv' \in Conversation
    BY <1>0, <1>7 DEF ClearWrite, AdvancedTo, Conversation
  <2> QED BY <1>0, <1>7, <2>1 DEF ClearWrite, Done, TypeOK
<1> QED BY <1>1, <1>2, <1>3, <1>4, <1>5, <1>6, <1>7 DEF ReadStep, DeleteStep

-----------------------------------------------------------------------------
(* Most steps take the conversation forward, keep who sent what, and either *)
(* end a request's hold on its number or pass one of its updates.           *)

Forward ==
  /\ conv.open /\ conv'.open /\ conv'.lastSeq = conv.lastSeq
  /\ conv'.last >= conv.last /\ (conv.dated => conv'.dated)
  /\ conv'.last > 0 => conv'.dated
  /\ \A u \in Users : conv'.read[u] >= conv.read[u]
  /\ \A n \in Seqs : msgs'[n].sender = msgs[n].sender /\ msgs'[n].clientId = msgs[n].clientId
  /\ lost \subseteq lost'

KnownOf(n) == n \in lost \/ (LastKnows(n) /\ SenderRead(n))

LetsGo(s) ==
  /\ req'[s].pc \notin {"send:insert", "send:summary"} /\ req'[s].todo = {}
  /\ req'[s].pc # "idle" => req'[s].by \in Users
  /\ At(s, "send:summary") => \A n \in Seqs : req[s].seq = n => KnownOf(n)'

Passes(s) ==
  /\ At(s, "send:summary") /\ At(s, "send:summary")'
  /\ req'[s].by = req[s].by /\ req'[s].seq = req[s].seq
  /\ "last" \notin req'[s].todo => LastKnows(req[s].seq)'
  /\ "read" \notin req'[s].todo => SenderRead(req[s].seq)'

LEMMA ForwardKeeps ==
  ASSUME IInv, TypeOK', Forward, \A s \in Requests : req'[s] = req[s] \/ LetsGo(s) \/ Passes(s)
  PROVE  IInv'
<1>0. /\ \A n \in Seqs : n \in Int
      /\ conv.last \in Int /\ conv'.last \in Int
      /\ \A u \in Users : conv.read[u] \in Int /\ conv'.read[u] \in Int
      /\ \A n \in Seqs : Stored(n) => msgs[n].sender \in Users
  BY ChatAssumption DEF IInv, TypeOK, Conversation, ChatMessage, Seqs, Stored
<1>1. StartsEmpty'
  BY DEF Forward, StartsEmpty
<1>2. \A n \in Seqs : Stored(n)' <=> Stored(n)
  BY DEF Forward, Stored
<1>3. Holding' \subseteq Holding /\ \A s \in Holding' : req'[s].seq = req[s].seq
  BY DEF Holding, LetsGo, Passes, At
<1>4. \A n \in Seqs : Stored(n) /\ LastKnows(n) => LastKnows(n)'
  BY <1>0 DEF Forward, LastKnows
<1>5. \A n \in Seqs : Stored(n) /\ SenderRead(n) => SenderRead(n)'
  BY <1>0 DEF Forward, SenderRead
<1>6. NumbersOK'
  <2>1. ASSUME NEW s \in Requests PROVE NumberOK(s)'
    BY <1>2 DEF IInv, NumbersOK, NumberOK, Forward, LetsGo, Passes, Holding, At, Idle
  <2> QED BY <1>2, <1>3, <2>1 DEF IInv, NumbersOK, Forward
<1>7. KeysOK'
  BY <1>2 DEF IInv, KeysOK, Forward
<1>8. UpdatesOK'
  <2> SUFFICES ASSUME NEW s \in Requests
               PROVE  IF At(s, "send:summary")'
                      THEN /\ "last" \notin req'[s].todo => LastKnows(req[s].seq)'
                           /\ "read" \notin req'[s].todo => SenderRead(req[s].seq)'
                           /\ req'[s].seq = req[s].seq
                      ELSE req'[s].todo = {}
    BY DEF UpdatesOK, LastKnows, SenderRead
  <2>1. CASE req'[s] = req[s]
    BY <2>1, <1>4, <1>5 DEF IInv, UpdatesOK, NumbersOK, NumberOK, Holding, At
  <2>2. CASE LetsGo(s)
    BY <2>2 DEF LetsGo, At
  <2>3. CASE Passes(s)
    BY <2>3 DEF Passes
  <2> QED BY <2>1, <2>2, <2>3
<1>9. SummariesOK'
  <2> SUFFICES ASSUME NEW n \in Seqs, Stored(n)
               PROVE  KnownOf(n)' \/ \E s \in Holding' : req'[s].seq = n
    BY <1>2 DEF SummariesOK, KnownOf
  <2>1. CASE n \in lost \/ (LastKnows(n) /\ SenderRead(n))
    BY <2>1, <1>4, <1>5 DEF Forward, KnownOf
  <2>2. CASE \E s \in Holding : req[s].seq = n
    <3>1. PICK s \in Holding : req[s].seq = n
      BY <2>2
    <3>2. At(s, "send:summary") /\ s \in Requests
      BY <3>1 DEF IInv, NumbersOK, NumberOK, Holding, At
    <3>3. CASE LetsGo(s)
      BY <3>1, <3>2, <3>3 DEF LetsGo
    <3>4. CASE req'[s] = req[s] \/ Passes(s)
      BY <3>1, <3>2, <3>4 DEF Passes, Holding, At
    <3> QED BY <3>2, <3>3, <3>4
  <2> QED BY <2>1, <2>2 DEF IInv, SummariesOK
<1> QED BY <1>1, <1>6, <1>7, <1>8, <1>9 DEF IInv

-----------------------------------------------------------------------------
(* One of a send's updates is through. *)
LEMMA ThroughKeeps ==
  ASSUME IInv, TypeOK', NEW s \in Requests, NEW update \in Updates, update \in req[s].todo,
         Through(s, update), Forward,
         update = "last" => \A n \in Seqs : req[s].seq = n => LastKnows(n)',
         update = "read" => \A n \in Seqs : req[s].seq = n => SenderRead(n)'
  PROVE  IInv'
<1> DEFINE n == req[s].seq
<1>1. At(s, "send:summary") /\ n \in Seqs /\ Stored(n)
  BY DEF IInv, UpdatesOK, NumbersOK, NumberOK, Holding, At
<1>2. req \in [Requests -> Request] /\ req[s] \in Request
  BY Shapes DEF IInv, TypeOK
<1>3. "last" \notin req[s].todo => \A m \in Seqs : m = n => LastKnows(m)'
  BY <1>1, ChatAssumption DEF IInv, TypeOK, Conversation, UpdatesOK, Forward, LastKnows, Seqs
<1>4. "read" \notin req[s].todo => \A m \in Seqs : m = n => SenderRead(m)'
  <2>1. msgs[n].sender \in Users /\ msgs'[n].sender = msgs[n].sender
    BY <1>1, Shapes DEF IInv, Forward, Stored, ChatMessage
  <2> QED BY <1>1, <2>1, ChatAssumption DEF IInv, TypeOK, Conversation, UpdatesOK, Forward, SenderRead, Seqs
<1>5. CASE req[s].todo = {update}
  <2>1. req' = [req EXCEPT ![s] = NoRequest]
    BY <1>5 DEF Through, Done
  <2>2. \A m \in Seqs : m = n => KnownOf(m)'
    BY <1>3, <1>4, <1>5 DEF KnownOf, Updates
  <2>3. LetsGo(s)
    BY <1>2, <2>1, <2>2 DEF LetsGo, NoRequest
  <2>4. \A t \in Requests : t # s => req'[t] = req[t]
    BY <1>2, <2>1
  <2> QED BY <2>3, <2>4, ForwardKeeps
<1>6. CASE req[s].todo # {update}
  <2>1. req' = [req EXCEPT ![s].todo = @ \ {update}]
    BY <1>6 DEF Through
  <2>2. Passes(s)
    BY <1>1, <1>2, <1>3, <1>4, <2>1 DEF Passes, At, Request
  <2>3. \A t \in Requests : t # s => req'[t] = req[t]
    BY <1>2, <2>1
  <2> QED BY <2>2, <2>3, ForwardKeeps
<1> QED BY <1>5, <1>6

(* A request that holds no number, and does not get one, goes on or ends. *)
LEMMA QuietKeeps ==
  ASSUME IInv, TypeOK', NEW s \in Requests, NEW x \in Request,
         req' = [req EXCEPT ![s] = x], Forward,
         x.pc \notin {"send:insert", "send:summary"}, x.todo = {}, x.pc # "idle" => x.by \in Users,
         At(s, "send:summary") => req[s].seq \in lost'
  PROVE  IInv'
<1>1. req \in [Requests -> Request]
  BY DEF IInv, TypeOK
<1>2. LetsGo(s)
  BY <1>1 DEF LetsGo, KnownOf
<1>3. \A t \in Requests : t # s => req'[t] = req[t]
  BY <1>1
<1> QED BY <1>2, <1>3, ForwardKeeps

LEMMA NumberKeeps ==
  ASSUME IInv, TypeOK', NEW s \in Requests, SendNumber(s)
  PROVE  IInv'
<1> DEFINE n == conv.lastSeq + 1
<1>0. /\ req \in [Requests -> Request] /\ conv \in Conversation /\ conv.lastSeq \in 0 .. MaxSeq
      /\ n \in Seqs /\ req[s].by \in Users
  BY ChatAssumption DEF IInv, TypeOK, Conversation, SendNumber, Seqs, NumbersOK, NumberOK, At, Idle
<1>1. /\ req' = [req EXCEPT ![s] = [@ EXCEPT !.pc = "send:insert", !.seq = n]]
      /\ conv' = [conv EXCEPT !.lastSeq = n] /\ msgs' = msgs /\ lost' = lost
  BY DEF SendNumber, NextNumber
<1>2. /\ req'[s].pc = "send:insert" /\ req'[s].seq = n /\ req'[s].by = req[s].by
      /\ req'[s].todo = {}
      /\ \A t \in Requests : t # s => req'[t] = req[t]
  <2>1. req[s] \in Request /\ req[s].todo = {}
    BY <1>0 DEF IInv, UpdatesOK, SendNumber, At
  <2> QED BY <1>0, <1>1, <2>1 DEF Request
<1>3. /\ conv'.lastSeq = n /\ conv'.open = conv.open /\ conv'.last = conv.last
      /\ conv'.dated = conv.dated /\ conv'.read = conv.read
  BY <1>0, <1>1 DEF Conversation
<1>4. /\ \A m \in Seqs : Stored(m)' <=> Stored(m)
      /\ \A m \in Seqs : LastKnows(m)' <=> LastKnows(m)
      /\ \A m \in Seqs : SenderRead(m)' <=> SenderRead(m)
  BY <1>1, <1>3 DEF Stored, LastKnows, SenderRead
<1>5. conv.open
  BY DEF IInv, StartsEmpty, SendNumber, At, Idle
<1>6. NumbersOK'
  <2>1. \A m \in Seqs : Stored(m) => m <= conv.lastSeq
    BY DEF IInv, NumbersOK
  <2>2. ~Stored(n)
    BY <1>0, <2>1
  <2>3. ASSUME NEW t \in Requests PROVE NumberOK(t)'
    <3>1. CASE t = s
      BY <1>0, <1>1, <1>2, <1>3, <2>2, <3>1 DEF NumberOK, Stored, At, Idle, Holding
    <3>2. CASE t # s
      BY <1>0, <1>1, <1>2, <1>3, <1>4, <3>2 DEF IInv, NumbersOK, NumberOK, At, Idle, Holding, Seqs, Stored
    <3> QED BY <3>1, <3>2
  <2>4. \A t \in Holding : t # s => req[t].seq # n
    BY <1>0 DEF IInv, NumbersOK, NumberOK, Holding, Seqs
  <2>5. \A t, x \in Holding' : req'[t].seq = req'[x].seq => t = x
    BY <1>2, <2>4 DEF IInv, NumbersOK, Holding
  <2>6. \A m \in Seqs : Stored(m)' => m <= conv'.lastSeq
    BY <1>0, <1>3, <1>4, <2>1 DEF Seqs
  <2> QED BY <2>3, <2>5, <2>6 DEF NumbersOK
<1>7. KeysOK'
  BY <1>1 DEF IInv, KeysOK, Stored
<1>8. UpdatesOK'
  <2> SUFFICES ASSUME NEW t \in Requests
               PROVE  IF At(t, "send:summary")'
                      THEN /\ "last" \notin req'[t].todo => LastKnows(req[t].seq)'
                           /\ "read" \notin req'[t].todo => SenderRead(req[t].seq)'
                      ELSE req'[t].todo = {}
    BY DEF UpdatesOK
  <2>1. CASE t = s
    BY <1>2, <2>1 DEF At
  <2>2. CASE t # s
    BY <1>1, <1>2, <1>3, <2>2 DEF IInv, UpdatesOK, At, LastKnows, SenderRead
  <2> QED BY <2>1, <2>2
<1>9. SummariesOK'
  <2>1. Holding \subseteq Holding' /\ s \notin Holding
    BY <1>2 DEF Holding, SendNumber, At
  <2>2. \A m \in Seqs : (\E t \in Holding : req[t].seq = m) => \E t \in Holding' : req'[t].seq = m
    BY <1>2, <2>1 DEF Holding
  <2> QED BY <1>1, <1>4, <2>2 DEF IInv, SummariesOK
<1> QED BY <1>3, <1>5, <1>6, <1>7, <1>8, <1>9 DEF IInv, StartsEmpty

LEMMA InsertKeeps ==
  ASSUME IInv, TypeOK', NEW s \in Requests, SendInsert(s)
  PROVE  IInv'
<1> DEFINE r == req[s]
           n == r.seq
<1>0. /\ req \in [Requests -> Request] /\ conv \in Conversation /\ msgs \in [Seqs -> ChatMessage]
      /\ r \in Request /\ NoRequest \in Request /\ At(s, "send:insert") /\ s \in Holding
  BY Shapes DEF IInv, TypeOK, SendInsert, Holding, At
<1>1. n \in Seqs /\ ~Stored(n) /\ r.by \in Users /\ r.by # NoUser /\ conv.open
  BY <1>0, ChatAssumption DEF IInv, StartsEmpty, NumbersOK, NumberOK, At, Idle
<1>2. CASE KeyTaken(r.by, r.clientId)
  <2>1. Forward
    BY <1>1, <1>2, <1>0, ChatAssumption DEF IInv, StartsEmpty, Forward, SendInsert, Conversation
  <2>2. req' = [req EXCEPT ![s] = NoRequest]
    BY <1>2 DEF SendInsert, Done
  <2> QED BY <1>0, <2>1, <2>2, QuietKeeps DEF NoRequest, At
<1>3. CASE ~KeyTaken(r.by, r.clientId)
  <2>1. /\ msgs' = [msgs EXCEPT ![n] = [NoMessage EXCEPT !.sender = r.by, !.clientId = r.clientId]]
        /\ req' = [req EXCEPT ![s] = [@ EXCEPT !.pc = "send:summary", !.todo = Updates]]
        /\ conv' = conv /\ lost' = lost
    BY <1>1, <1>3 DEF SendInsert
  <2>2. /\ msgs'[n].sender = r.by /\ msgs'[n].clientId = r.clientId
        /\ \A m \in Seqs : m # n => msgs'[m] = msgs[m]
    BY <1>0, <1>1, <2>1 DEF NoMessage
  <2>3. /\ req'[s].pc = "send:summary" /\ req'[s].seq = n /\ req'[s].by = r.by
        /\ req'[s].todo = Updates
        /\ \A t \in Requests : t # s => req'[t] = req[t]
    BY <1>0, <2>1 DEF Request
  <2>4. \A m \in Seqs : Stored(m)' <=> Stored(m) \/ m = n
    BY <1>1, <2>2 DEF Stored
  <2>5. Holding' = Holding /\ \A t \in Requests : req'[t].seq = req[t].seq
    BY <1>0, <2>3 DEF Holding, At
  <2>6. \A t \in Holding : t # s => req[t].seq # n
    BY <1>0 DEF IInv, NumbersOK
  <2>7. NumbersOK'
    <3>1. ASSUME NEW t \in Requests PROVE NumberOK(t)'
      <4>1. CASE t = s
        BY <1>0, <1>1, <2>1, <2>2, <2>3, <2>4, <4>1 DEF IInv, NumbersOK, NumberOK, Holding, At, Idle
      <4>2. CASE t # s
        BY <2>1, <2>2, <2>3, <2>4, <2>6, <4>2 DEF IInv, NumbersOK, NumberOK, Holding, At, Idle
      <4> QED BY <4>1, <4>2
    <3>2. n <= conv.lastSeq
      BY <1>0 DEF IInv, NumbersOK, NumberOK
    <3> QED BY <2>1, <2>4, <2>5, <3>1, <3>2 DEF IInv, NumbersOK
  <2>8. KeysOK'
    BY <1>3, <2>2, <2>4 DEF IInv, KeysOK, KeyTaken, SentWith
  <2>9. UpdatesOK'
    <3> SUFFICES ASSUME NEW t \in Requests
                 PROVE  IF At(t, "send:summary")'
                        THEN /\ "last" \notin req'[t].todo => LastKnows(req[t].seq)'
                             /\ "read" \notin req'[t].todo => SenderRead(req[t].seq)'
                        ELSE req'[t].todo = {}
      BY DEF UpdatesOK
    <3>1. CASE t = s
      BY <2>3, <3>1 DEF At, Updates
    <3>2. CASE t # s
      <4>1. At(t, "send:summary") => req[t].seq # n /\ req[t].seq \in Seqs
        BY <2>6, <3>2 DEF IInv, NumbersOK, NumberOK, Holding, At
      <4> QED BY <2>1, <2>2, <2>3, <3>2, <4>1 DEF IInv, UpdatesOK, At, LastKnows, SenderRead
    <3> QED BY <3>1, <3>2
  <2>10. SummariesOK'
    <3> SUFFICES ASSUME NEW m \in Seqs, Stored(m)'
                 PROVE  (m \in lost \/ (\E t \in Holding : req[t].seq = m) \/ (LastKnows(m) /\ SenderRead(m)))'
      BY DEF SummariesOK
    <3>1. CASE m = n
      BY <1>0, <2>5, <3>1 DEF Holding
    <3>2. CASE m # n
      BY <2>1, <2>2, <2>4, <2>5, <3>2 DEF IInv, SummariesOK, LastKnows, SenderRead, Holding
    <3> QED BY <3>1, <3>2
  <2> QED BY <1>1, <2>1, <2>7, <2>8, <2>9, <2>10 DEF IInv, StartsEmpty
<1> QED BY <1>2, <1>3

LEMMA SendKeeps ==
  ASSUME IInv, TypeOK', NEW s \in Requests, SendStep(s)
  PROVE  IInv'
<1>0. /\ req[s] \in Request /\ NoRequest \in Request /\ conv \in Conversation
      /\ ~Idle(s) => conv.open /\ req[s].by \in Users
  BY Shapes DEF IInv, StartsEmpty, NumbersOK, NumberOK
<1>1. (conv' = conv /\ msgs' = msgs /\ lost' = lost /\ conv.open) => Forward
  BY <1>0, ChatAssumption DEF IInv, StartsEmpty, Forward, Conversation
<1>2. CASE \E u \in Clients, key \in SendKeys : SendAuthorize(s, u, key)
  <2>1. PICK u \in Clients, key \in SendKeys : SendAuthorize(s, u, key)
    BY <1>2
  <2> DEFINE x == [NoRequest EXCEPT !.pc = "send:lookup", !.by = u, !.clientId = key]
  <2>2. x \in Request /\ x.pc = "send:lookup" /\ x.todo = {} /\ x.by \in Users
    BY <1>0, ChatAssumption DEF NoRequest, Request, RequestPc
  <2>3. Forward /\ req' = [req EXCEPT ![s] = x] /\ ~At(s, "send:summary")
    BY <1>1, <2>1 DEF SendAuthorize, Authorized, Idle, At
  <2> HIDE DEF x
  <2> QED BY <2>2, <2>3, QuietKeeps
<1>3. CASE SendLookup(s) \/ SendAudience(s)
  <2>1. PICK pc \in {"send:audience", "send:number"} : Done(s) \/ Goto(s, pc)
    BY <1>3 DEF SendLookup, SendAudience
  <2>2. ~Idle(s) /\ ~At(s, "send:summary") /\ Forward
    BY <1>0, <1>1, <1>3 DEF SendLookup, SendAudience, At, Idle
  <2>3. req[s].todo = {}
    BY <2>2 DEF IInv, UpdatesOK
  <2>4. CASE Done(s)
    BY <1>0, <2>2, <2>4, QuietKeeps DEF Done, NoRequest
  <2>5. CASE Goto(s, pc)
    <3> DEFINE x == [req[s] EXCEPT !.pc = pc]
    <3>1. x \in Request /\ x.pc = pc /\ x.todo = {} /\ x.by \in Users
      BY <1>0, <2>2, <2>3 DEF Request, RequestPc
    <3>2. req' = [req EXCEPT ![s] = x]
      BY <2>5 DEF Goto
    <3> HIDE DEF x
    <3> QED BY <2>2, <3>1, <3>2, QuietKeeps
  <2> QED BY <2>1, <2>4, <2>5
<1>4. CASE SendNumber(s)
  BY <1>4, NumberKeeps
<1>5. CASE SendInsert(s)
  BY <1>5, InsertKeeps
<1>6. ASSUME "last" \in req[s].todo \/ "read" \in req[s].todo \/ "unhide" \in req[s].todo
      PROVE  req[s].seq \in Seqs /\ conv.open /\ req[s].by \in Users /\ Stored(req[s].seq)
             /\ msgs[req[s].seq].sender = req[s].by
  BY <1>0, <1>6 DEF IInv, UpdatesOK, NumbersOK, NumberOK, Holding, At, Idle
<1>7. CASE SendLast(s)
  <2>1. /\ conv'.open = conv.open /\ conv'.lastSeq = conv.lastSeq /\ conv'.read = conv.read
        /\ IF NewerThanLast(req[s].seq)
           THEN conv'.last = req[s].seq /\ conv'.dated
           ELSE conv' = conv
        /\ msgs' = msgs /\ lost' = lost
    BY <1>0, <1>7 DEF SendLast, Conversation
  <2>2. conv.last > 0 => conv.dated
    BY DEF IInv, StartsEmpty
  <2>3. Forward
    <3>1. conv.open
      BY <1>6, <1>7 DEF SendLast
    <3>2. /\ conv.last \in 0 .. MaxSeq /\ req[s].seq \in 0 .. MaxSeq
          /\ \A u \in Users : conv.read[u] \in 0 .. MaxSeq
      BY <1>0 DEF Conversation, Request
    <3>3. CASE NewerThanLast(req[s].seq)
      BY <2>1, <3>1, <3>2, <3>3, ChatAssumption DEF Forward, NewerThanLast
    <3>4. CASE ~NewerThanLast(req[s].seq)
      BY <2>1, <2>2, <3>1, <3>2, <3>4, ChatAssumption DEF Forward
    <3> QED BY <3>3, <3>4
  <2>4. \A n \in Seqs : req[s].seq = n => LastKnows(n)'
    BY <1>0, <2>1, <2>2, ChatAssumption DEF LastKnows, NewerThanLast, Conversation, Seqs
  <2> QED BY <1>7, <2>3, <2>4, ThroughKeeps DEF SendLast, Updates
<1>8. CASE SendRead(s)
  <2>1. /\ conv'.open = conv.open /\ conv'.lastSeq = conv.lastSeq /\ conv'.last = conv.last
        /\ conv'.dated = conv.dated
        /\ \A u \in Users : conv'.read[u] =
              (IF u = req[s].by THEN AdvancedTo(conv.read[u], req[s].seq) ELSE conv.read[u])
    BY <1>0, <1>8 DEF SendRead, AdvanceRead, Conversation
  <2>2. Forward
    BY <1>0, <1>6, <1>8, <2>1, ChatAssumption DEF IInv, StartsEmpty, Forward, SendRead, AdvancedTo, Conversation, Seqs
  <2>3. \A n \in Seqs : req[s].seq = n => SenderRead(n)'
    BY <1>0, <1>6, <1>8, <2>1, ChatAssumption DEF SenderRead, SendRead, AdvancedTo, Conversation, Seqs
  <2> QED BY <1>8, <2>2, <2>3, ThroughKeeps DEF SendRead, Updates
<1>9. CASE SendUnhide(s)
  <2>1. /\ conv'.open = conv.open /\ conv'.lastSeq = conv.lastSeq /\ conv'.last = conv.last
        /\ conv'.dated = conv.dated /\ conv'.read = conv.read
    BY <1>0, <1>9 DEF SendUnhide, Conversation
  <2>2. Forward
    BY <1>0, <1>6, <1>9, <2>1, ChatAssumption DEF IInv, StartsEmpty, Forward, SendUnhide, Conversation
  <2> QED BY <1>9, <2>2, ThroughKeeps DEF SendUnhide, Updates
<1> QED BY <1>2, <1>3, <1>4, <1>5, <1>7, <1>8, <1>9 DEF SendStep

LEMMA OtherKeeps ==
  ASSUME IInv, TypeOK', NEW s \in Requests, ReadStep(s) \/ DeleteStep(s) \/ Crash(s)
  PROVE  IInv'
<1>0. /\ req[s] \in Request /\ NoRequest \in Request /\ conv \in Conversation
      /\ req \in [Requests -> Request]
      /\ req[s].seq \in 0 .. MaxSeq
      /\ ~Idle(s) => conv.open /\ req[s].by \in Users
      /\ conv.last > 0 => conv.dated
  BY Shapes DEF IInv, TypeOK, Request, StartsEmpty, NumbersOK, NumberOK
<1>1. (conv' = conv /\ msgs' = msgs /\ lost \subseteq lost' /\ conv.open) => Forward
  BY <1>0, ChatAssumption DEF Forward, Conversation
<1>2. ASSUME Done(s), Forward, At(s, "send:summary") => req[s].seq \in lost'
      PROVE  IInv'
  BY <1>0, <1>2, QuietKeeps DEF Done, NoRequest
<1>3. ASSUME NEW x \in Request, req' = [req EXCEPT ![s] = x], Idle(s), Authorized(x.by),
             conv' = conv, msgs' = msgs, lost' = lost, x.by \in Users,
             x.pc \in {"read:advance", "delete:erase", "clear:write"}, x.todo = {}
      PROVE  IInv'
  BY <1>1, <1>3, QuietKeeps DEF Authorized, Idle, At
<1>4. CASE \E u \in Clients, n \in Seqs : MarkRead(s, u, n)
  <2>1. PICK u \in Clients, n \in Seqs : MarkRead(s, u, n)
    BY <1>4
  <2> DEFINE target == IF n < conv.lastSeq THEN n ELSE conv.lastSeq
             x == [NoRequest EXCEPT !.pc = "read:advance", !.by = u, !.seq = target]
  <2>2. u \in Users /\ target \in 0 .. MaxSeq
    BY <1>0, ChatAssumption DEF Conversation, Seqs
  <2>3. x \in Request /\ x.pc = "read:advance" /\ x.todo = {} /\ x.by = u
    BY <1>0, <2>2 DEF NoRequest, Request, RequestPc
  <2>4. /\ req' = [req EXCEPT ![s] = x] /\ Idle(s) /\ Authorized(u)
        /\ conv' = conv /\ msgs' = msgs /\ lost' = lost
    BY <2>1 DEF MarkRead
  <2> HIDE DEF x
  <2> QED BY <1>3, <2>2, <2>3, <2>4
<1>5. CASE \E u \in Clients, ids \in Batch : DeleteAuthorize(s, u, ids)
  <2>1. PICK u \in Clients, ids \in Batch : DeleteAuthorize(s, u, ids)
    BY <1>5
  <2> DEFINE x == [NoRequest EXCEPT !.pc = "delete:erase", !.by = u, !.ids = ids, !.seq = conv.last]
  <2>2. u \in Users /\ ids \subseteq Seqs /\ conv.last \in 0 .. MaxSeq
    BY <1>0, ChatAssumption DEF Conversation, Batch, StoredSeqs
  <2>3. x \in Request /\ x.pc = "delete:erase" /\ x.todo = {} /\ x.by = u
    BY <1>0, <2>2 DEF NoRequest, Request, RequestPc
  <2>4. /\ req' = [req EXCEPT ![s] = x] /\ Idle(s) /\ Authorized(u)
        /\ conv' = conv /\ msgs' = msgs /\ lost' = lost
    BY <2>1 DEF DeleteAuthorize
  <2> HIDE DEF x
  <2> QED BY <1>3, <2>2, <2>3, <2>4
<1>6. CASE \E u \in Clients : ClearAuthorize(s, u)
  <2>1. PICK u \in Clients : ClearAuthorize(s, u)
    BY <1>6
  <2> DEFINE x == [NoRequest EXCEPT !.pc = "clear:write", !.by = u, !.seq = conv.lastSeq]
  <2>2. u \in Users /\ conv.lastSeq \in 0 .. MaxSeq
    BY <1>0, ChatAssumption DEF Conversation
  <2>3. x \in Request /\ x.pc = "clear:write" /\ x.todo = {} /\ x.by = u
    BY <1>0, <2>2 DEF NoRequest, Request, RequestPc
  <2>4. /\ req' = [req EXCEPT ![s] = x] /\ Idle(s) /\ Authorized(u)
        /\ conv' = conv /\ msgs' = msgs /\ lost' = lost
    BY <2>1 DEF ClearAuthorize
  <2> HIDE DEF x
  <2> QED BY <1>3, <2>2, <2>3, <2>4
<1>7. CASE ReadAdvance(s)
  <2>1. ~Idle(s) /\ ~At(s, "send:summary")
    BY <1>7 DEF ReadAdvance, At, Idle
  <2>2. /\ conv'.open = conv.open /\ conv'.lastSeq = conv.lastSeq /\ conv'.last = conv.last
        /\ conv'.dated = conv.dated
        /\ \A u \in Users : conv'.read[u] =
              (IF u = req[s].by THEN AdvancedTo(conv.read[u], req[s].seq) ELSE conv.read[u])
    BY <1>0, <1>7 DEF ReadAdvance, AdvanceRead, Conversation
  <2>3. Forward
    BY <1>0, <1>7, <2>1, <2>2, ChatAssumption DEF Forward, ReadAdvance, AdvancedTo, Conversation
  <2> QED BY <1>2, <1>7, <2>1, <2>3 DEF ReadAdvance
<1>8. CASE DeleteErase(s)
  <2>1. /\ ~Idle(s) /\ ~At(s, "send:summary") /\ req[s].todo = {}
        /\ conv' = conv /\ lost' = lost
    BY <1>8 DEF DeleteErase, At, Idle, IInv, UpdatesOK
  <2>2. \A n \in Seqs : msgs'[n].sender = msgs[n].sender /\ msgs'[n].clientId = msgs[n].clientId
    BY <1>8, Shapes DEF DeleteErase, ChatMessage, IInv
  <2>3. Forward
    BY <1>0, <2>1, <2>2, ChatAssumption DEF Forward, Conversation
  <2>4. CASE Done(s)
    BY <1>2, <2>1, <2>3, <2>4
  <2>5. CASE Goto(s, "delete:preview")
    <3> DEFINE x == [req[s] EXCEPT !.pc = "delete:preview"]
    <3>1. x \in Request /\ x.pc = "delete:preview" /\ x.todo = {} /\ x.by \in Users
      BY <1>0, <2>1 DEF Request, RequestPc
    <3>2. req' = [req EXCEPT ![s] = x]
      BY <2>5 DEF Goto
    <3> HIDE DEF x
    <3> QED BY <2>1, <2>3, <3>1, <3>2, QuietKeeps
  <2> QED BY <1>8, <2>4, <2>5 DEF DeleteErase
<1>9. CASE DeletePreview(s)
  <2>1. ~Idle(s) /\ ~At(s, "send:summary")
    BY <1>9 DEF DeletePreview, At, Idle
  <2>2. /\ conv'.open = conv.open /\ conv'.lastSeq = conv.lastSeq /\ conv'.last = conv.last
        /\ conv'.dated = conv.dated /\ conv'.read = conv.read
    BY <1>0, <1>9 DEF DeletePreview, Conversation
  <2>3. Forward
    BY <1>0, <1>9, <2>1, <2>2, ChatAssumption DEF Forward, DeletePreview, Conversation
  <2> QED BY <1>2, <1>9, <2>1, <2>3 DEF DeletePreview
<1>10. CASE ClearWrite(s)
  <2>1. ~Idle(s) /\ ~At(s, "send:summary")
    BY <1>10 DEF ClearWrite, At, Idle
  <2>2. /\ conv'.open = conv.open /\ conv'.lastSeq = conv.lastSeq /\ conv'.last = conv.last
        /\ conv'.dated = conv.dated
        /\ \A u \in Users : conv'.read[u] =
              (IF u = req[s].by THEN AdvancedTo(conv.read[u], req[s].seq) ELSE conv.read[u])
    BY <1>0, <1>10 DEF ClearWrite, Conversation
  <2>3. Forward
    BY <1>0, <1>10, <2>1, <2>2, ChatAssumption DEF Forward, ClearWrite, AdvancedTo, Conversation
  <2> QED BY <1>2, <1>10, <2>1, <2>3 DEF ClearWrite
<1>11. CASE Crash(s)
  <2>1. conv' = conv /\ msgs' = msgs /\ lost \subseteq lost' /\ ~Idle(s)
    BY <1>11 DEF Crash
  <2>2. At(s, "send:summary") => req[s].seq \in lost'
    BY <1>11 DEF Crash
  <2> QED BY <1>0, <1>1, <1>2, <1>11, <2>1, <2>2 DEF Crash
<1> QED BY <1>4, <1>5, <1>6, <1>7, <1>8, <1>9, <1>10, <1>11 DEF ReadStep, DeleteStep

-----------------------------------------------------------------------------
(* The theorems. *)

LEMMA InitOK == Init => IInv
<1> SUFFICES ASSUME Init PROVE IInv
  OBVIOUS
<1>1. TypeOK
  <2>1. 0 \in 0 .. MaxSeq /\ {} \subseteq Seqs /\ {} \subseteq Updates
    BY ChatAssumption
  <2>2. req \in [Requests -> Request]
    BY <2>1 DEF Init, NoRequest, Request, RequestPc
  <2>3. msgs \in [Seqs -> ChatMessage]
    BY DEF Init, NoMessage, ChatMessage
  <2>4. conv \in Conversation
    BY <2>1 DEF Init, Conversation
  <2> QED BY <2>1, <2>2, <2>3, <2>4 DEF Init, TypeOK
<1>2. /\ \A s \in Requests : Idle(s) /\ req[s].todo = {}
      /\ \A n \in Seqs : ~Stored(n)
      /\ conv.last = 0 /\ Holding = {}
  BY DEF Init, NoRequest, NoMessage, Idle, Stored, Holding
<1> QED BY <1>1, <1>2 DEF IInv, StartsEmpty, NumbersOK, NumberOK, KeysOK, UpdatesOK, SummariesOK, At, Idle, Holding

(* Opening changes an empty conversation; joining, leaving and hiding touch *)
(* nothing the invariant speaks of.                                        *)
LEMMA NextOK == IInv /\ [Next]_vars => IInv'
<1> SUFFICES ASSUME IInv, [Next]_vars PROVE IInv'
  OBVIOUS
<1>0. TypeOK /\ conv \in Conversation /\ req \in [Requests -> Request]
  BY DEF IInv, TypeOK
<1>1. ASSUME conv' = conv, req' = req, lost' = lost, TypeOK',
             \A n \in Seqs : msgs'[n].sender = msgs[n].sender /\ msgs'[n].clientId = msgs[n].clientId
      PROVE  IInv'
  <2>1. StartsEmpty' /\ NumbersOK' /\ KeysOK'
    BY <1>1 DEF IInv, StartsEmpty, NumbersOK, NumberOK, KeysOK, Stored, Idle, At, Holding
  <2>2. \A s \in Requests : At(s, "send:summary") => req[s].seq \in Seqs
    BY DEF IInv, NumbersOK, NumberOK, At, Holding
  <2>3. UpdatesOK'
    BY <1>1, <2>2 DEF IInv, UpdatesOK, At, LastKnows, SenderRead
  <2>4. SummariesOK'
    BY <1>1 DEF IInv, SummariesOK, Stored, Holding, LastKnows, SenderRead
  <2> QED BY <1>1, <2>1, <2>3, <2>4 DEF IInv
<1>2. CASE Open
  <2>1. /\ conv'.lastSeq = conv.lastSeq /\ conv'.last = conv.last /\ conv'.open = TRUE
        /\ conv' \in Conversation
    BY <1>0, <1>2, ChatAssumption DEF Open, Conversation
  <2>2. TypeOK'
    BY <1>0, <1>2, <2>1 DEF Open, TypeOK
  <2>3. /\ \A s \in Requests : Idle(s)' /\ req'[s].todo = {}
        /\ \A n \in Seqs : ~Stored(n)'
        /\ conv'.last = 0 /\ Holding' = {}
    BY <1>2, <2>1 DEF Open, IInv, StartsEmpty, UpdatesOK, Idle, At, Stored, Holding
  <2> QED BY <2>1, <2>2, <2>3 DEF IInv, StartsEmpty, NumbersOK, NumberOK, KeysOK, UpdatesOK, SummariesOK, At, Idle, Holding
<1>3. CASE \E u \in Movers : MembershipChanges(u)
  <2>1. TypeOK'
    BY <1>0, <1>3, ChatAssumption DEF MembershipChanges, TypeOK
  <2> QED BY <1>1, <1>3, <2>1 DEF MembershipChanges
<1>4. CASE \E u \in Hiders, ids \in Batch : DeleteForMe(u, ids)
  <2>1. PICK u \in Hiders, ids \in Batch : DeleteForMe(u, ids)
    BY <1>4
  <2>2. /\ msgs' \in [Seqs -> ChatMessage]
        /\ \A n \in Seqs : msgs'[n].sender = msgs[n].sender /\ msgs'[n].clientId = msgs[n].clientId
    BY <1>0, <2>1, Shapes, ChatAssumption DEF DeleteForMe, ChatMessage
  <2>3. TypeOK'
    BY <1>0, <2>1, <2>2 DEF DeleteForMe, TypeOK
  <2> QED BY <1>1, <2>1, <2>2, <2>3 DEF DeleteForMe
<1>5. ASSUME NEW s \in Requests, SendStep(s) PROVE IInv'
  BY <1>0, <1>5, SendTypes, SendKeeps
<1>6. ASSUME NEW s \in Requests, ReadStep(s) \/ DeleteStep(s) PROVE IInv'
  BY <1>0, <1>6, OtherTypes, OtherKeeps
<1>7. ASSUME NEW s \in Requests, Crash(s) PROVE IInv'
  <2>1. At(s, "send:summary") => req[s].seq \in Seqs
    BY DEF IInv, NumbersOK, NumberOK, Holding, At
  <2>2. TypeOK'
    BY <1>0, <1>7, <2>1, Shapes DEF Crash, Done, TypeOK
  <2> QED BY <1>7, <2>2, OtherKeeps
<1>8. CASE UNCHANGED vars
  <2>1. TypeOK'
    BY <1>0, <1>8 DEF vars, TypeOK
  <2> QED BY <1>1, <1>8, <2>1 DEF vars
<1> QED BY <1>2, <1>3, <1>4, <1>5, <1>6, <1>7, <1>8 DEF Next

LEMMA Invariant == Spec => []IInv
  BY InitOK, NextOK, PTL DEF Spec

(* However retries overlap, fail and start again, one clientId of one sender *)
(* makes one message.                                                       *)
THEOREM SentOnceCorrect == Spec => []SentOnce
<1>1. IInv => SentOnce
  <2> SUFFICES ASSUME IInv, NEW u \in Users, NEW key \in ClientIds
               PROVE  Cardinality(SentWith(u, key)) <= 1
    BY DEF SentOnce
  <2>1. CASE SentWith(u, key) = {}
    BY <2>1, FS_EmptySet
  <2>2. CASE SentWith(u, key) # {}
    <3>1. PICK n \in SentWith(u, key) : TRUE
      BY <2>2
    <3>2. SentWith(u, key) = {n}
      BY <3>1 DEF SentWith, IInv, KeysOK
    <3> QED BY <3>2, FS_Singleton
  <2> QED BY <2>1, <2>2
<1> QED BY <1>1, Invariant, PTL

(* Once a send is through, the inbox knows of its message or of a newer one. *)
THEOREM SummaryCorrect == Spec => []SummaryCatchesUp
<1>1. IInv => SummaryCatchesUp
  BY DEF IInv, SummariesOK, SummaryCatchesUp, StoredSeqs, LastKnows, SenderRead
<1> QED BY <1>1, Invariant, PTL

(* What somebody cleared or deleted for themselves never shows again. *)
THEOREM GoneCorrect == Spec => GoneStaysGone
<1> DEFINE A == \A u \in Users : History(u)' \cap StoredSeqs \subseteq History(u)
<1>1. IInv /\ IInv' /\ [Next]_vars => [A]_vars
  <2> SUFFICES ASSUME IInv, Next, NEW u \in Users, NEW n \in Seqs, Stored(n)
               PROVE  /\ conv'.cleared[u] >= conv.cleared[u]
                      /\ msgs[n].hiddenFor \subseteq msgs'[n].hiddenFor
    <3> SUFFICES ASSUME IInv, IInv', Next, NEW u \in Users, NEW n \in Seqs, Stored(n),
                        n > conv'.cleared[u], u \notin msgs'[n].hiddenFor
                 PROVE  n > conv.cleared[u] /\ u \notin msgs[n].hiddenFor
      BY DEF History, StoredSeqs
    <3>1. n \in Int /\ conv.cleared[u] \in Int /\ conv'.cleared[u] \in Int
      BY ChatAssumption DEF IInv, TypeOK, Conversation, Seqs
    <3> QED BY <3>1
  <2>0. /\ conv \in Conversation /\ conv.cleared[u] \in 0 .. MaxSeq
        /\ msgs \in [Seqs -> ChatMessage] /\ msgs[n] \in ChatMessage
        /\ \A s \in Requests : req[s].seq \in 0 .. MaxSeq
    BY Shapes DEF IInv, TypeOK, Conversation, Request
  <2>1. ASSUME conv'.cleared = conv.cleared, msgs' = msgs
        PROVE  conv'.cleared[u] >= conv.cleared[u] /\ msgs[n].hiddenFor \subseteq msgs'[n].hiddenFor
    BY <2>0, <2>1, ChatAssumption
  <2>2. CASE Open
    BY <2>0, <2>1, <2>2 DEF Open, Conversation
  <2>3. CASE \E v \in Movers : MembershipChanges(v)
    BY <2>1, <2>3 DEF MembershipChanges
  <2>4. CASE \E v \in Hiders, ids \in Batch : DeleteForMe(v, ids)
    BY <2>0, <2>4, ChatAssumption DEF DeleteForMe, ChatMessage
  <2>5. ASSUME NEW s \in Requests, SendStep(s)
        PROVE  conv'.cleared[u] >= conv.cleared[u] /\ msgs[n].hiddenFor \subseteq msgs'[n].hiddenFor
    <3>1. CASE SendInsert(s)
      <4>1. msgs'[n] = msgs[n] /\ conv' = conv
        BY <2>0, <3>1 DEF SendInsert
      <4> QED BY <2>0, <4>1, ChatAssumption
    <3>2. CASE SendNumber(s)
      BY <2>0, <2>1, <3>2 DEF SendNumber, Conversation
    <3>3. CASE SendLast(s)
      BY <2>0, <2>1, <3>3 DEF SendLast, Conversation
    <3>4. CASE SendRead(s)
      BY <2>0, <2>1, <3>4 DEF SendRead, AdvanceRead, Conversation
    <3>5. CASE SendUnhide(s)
      BY <2>0, <2>1, <3>5 DEF SendUnhide, Conversation
    <3> QED BY <2>1, <2>5, <3>1, <3>2, <3>3, <3>4, <3>5
            DEF SendStep, SendAuthorize, SendLookup, SendAudience
  <2>6. ASSUME NEW s \in Requests, ReadStep(s)
        PROVE  conv'.cleared[u] >= conv.cleared[u] /\ msgs[n].hiddenFor \subseteq msgs'[n].hiddenFor
    <3>1. CASE ReadAdvance(s)
      BY <2>0, <2>1, <3>1 DEF ReadAdvance, AdvanceRead, Conversation
    <3> QED BY <2>1, <2>6, <3>1 DEF ReadStep, MarkRead
  <2>7. ASSUME NEW s \in Requests, DeleteStep(s)
        PROVE  conv'.cleared[u] >= conv.cleared[u] /\ msgs[n].hiddenFor \subseteq msgs'[n].hiddenFor
    <3>1. CASE DeleteErase(s)
      <4>1. msgs'[n].hiddenFor = msgs[n].hiddenFor /\ conv' = conv
        BY <2>0, <3>1 DEF DeleteErase, ChatMessage
      <4> QED BY <2>0, <4>1, ChatAssumption
    <3>2. CASE DeletePreview(s)
      BY <2>0, <2>1, <3>2 DEF DeletePreview, Conversation
    <3>3. CASE ClearWrite(s)
      <4>1. /\ msgs' = msgs
            /\ conv'.cleared[u] = (IF u = req[s].by THEN AdvancedTo(conv.cleared[u], req[s].seq)
                                  ELSE conv.cleared[u])
        BY <2>0, <3>3 DEF ClearWrite, Conversation
      <4> QED BY <2>0, <4>1, ChatAssumption DEF AdvancedTo
    <3> QED BY <2>1, <2>7, <3>1, <3>2, <3>3 DEF DeleteStep, DeleteAuthorize, ClearAuthorize
  <2>8. ASSUME NEW s \in Requests, Crash(s)
        PROVE  conv'.cleared[u] >= conv.cleared[u] /\ msgs[n].hiddenFor \subseteq msgs'[n].hiddenFor
    BY <2>1, <2>8 DEF Crash
  <2> QED BY <2>2, <2>3, <2>4, <2>5, <2>6, <2>7, <2>8 DEF Next
<1>2. Spec => [][A]_vars
  BY <1>1, Invariant, PTL DEF Spec
<1> QED BY <1>2 DEF GoneStaysGone
=============================================================================
