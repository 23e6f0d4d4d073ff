--------------------------- MODULE RealtimeProofs ---------------------------
(***************************************************************************)
(* What TLAPS proves about Realtime for any users, sockets, requests and   *)
(* calls: who has lost access to a room leaves it or is about to, who      *)
(* holds a subscription has seen every change or is about to be told, and  *)
(* typing that was shown is taken back.                                    *)
(***************************************************************************)
EXTENDS Realtime, TLAPS

(* The listener that closes the user's sockets has still to run. *)
SocketsDue(u) ==
  \E q \in Requests : At(q, "due") /\ req[q].event.user = u /\ req[q].event.revokes = "sockets"

Accounted(s, room) == RevocationDue(OwnerOf[s], room) \/ room \in missed[s]

(* What a request at its second step or its last carries. *)
SubscribeOK(r) ==
  At(r, "row") \/ At(r, "join") =>
    /\ req[r].call.sock \in Sockets
    /\ req[r].call.room \in Room
    /\ conn[req[r].call.sock] # "new"

UpdateOK(r) ==
  At(r, "write") =>
    /\ req[r].call.user \in Users
    /\ req[r].call.dto \in Dto

Shapes ==
  /\ member \in [Users -> Membership]
  /\ conn \in [Sockets -> Connection]
  /\ rooms \in [Sockets -> SUBSET Room]
  /\ told \in [Sockets -> SUBSET Room]
  /\ stale \in [Sockets -> SUBSET Room]
  /\ missed \in [Sockets -> SUBSET Room]
  /\ emptied \subseteq Sockets
  /\ req = [r \in Requests |-> req[r]]
  /\ \A r \in Requests : SubscribeOK(r) /\ UpdateOK(r)

(* A socket that is not open has nothing. *)
ClosedHasNothing == \A s \in Sockets : ~Open(s) => rooms[s] = {} /\ told[s] = {}

(* Where access is lost, the revocation is due or has been missed: by a     *)
(* subscription, by one that has passed its check, and by one that has     *)
(* passed the first half of it.                                            *)
HeldAccounted ==
  \A s \in Sockets : \A room \in rooms[s] :
    Open(s) /\ ~MayHear(OwnerOf[s], room) => Accounted(s, room)

Joins(r, s, room) == At(r, "join") /\ req[r].call.sock = s /\ req[r].call.room = room
Reads(r, s, room) == At(r, "row") /\ req[r].call.sock = s /\ req[r].call.room = room

JoinAccounted ==
  \A r \in Requests, s \in Sockets, room \in Room :
    Joins(r, s, room) /\ Open(s) /\ ~MayHear(OwnerOf[s], room) => Accounted(s, room)

RowAccounted ==
  \A r \in Requests, s \in Sockets, room \in Room :
    Reads(r, s, room) /\ Open(s) /\ ~Active(OwnerOf[s]) =>
      SocketsDue(OwnerOf[s]) \/ room \in missed[s]

(* A subscription the client was promised is one the server has, but for    *)
(* the project's room that was emptied.                                    *)
ToldHolds ==
  \A s \in Sockets : \A room \in told[s] :
    room \in rooms[s] \/ (room = "project" /\ s \in emptied)

AccessAccounted == HeldAccounted /\ JoinAccounted /\ RowAccounted
ClientsRight == ToldHolds /\ InformedOfChanges

IInv == Shapes /\ ClosedHasNothing /\ AccessAccounted /\ ClientsRight
-----------------------------------------------------------------------------
(* Requests. *)

(* A step of one request leaves the others alone. *)
LEMMA GotoReq ==
  ASSUME req = [q \in Requests |-> req[q]], NEW r \in Requests, NEW x, Goto(r, x)
  PROVE  /\ req' = [q \in Requests |-> req'[q]]
         /\ req'[r] = x
         /\ \A q \in Requests : q # r => req'[q] = req[q]
  BY DEF Goto

(* What a request carries at its later steps, after a step of another one or *)
(* one that does not lead there.                                           *)
LEMMA RequestsOK ==
  ASSUME Shapes, NEW r \in Requests, NEW x, Goto(r, x),
         x.pc \notin {"row", "join", "write"},
         \A s \in Sockets : conn[s] # "new" => conn'[s] # "new"
  PROVE  \A q \in Requests : SubscribeOK(q)' /\ UpdateOK(q)'
  <1>1. /\ req'[r] = x
        /\ \A q \in Requests : q # r => req'[q] = req[q]
    BY GotoReq DEF Shapes
  <1>2. TAKE q \in Requests
  <1>3. SubscribeOK(q) /\ UpdateOK(q)
    BY DEF Shapes
  <1>4. CASE q = r
    BY <1>1, <1>4 DEF SubscribeOK, UpdateOK, At
  <1>5. CASE q # r
    <2>1. req'[q] = req[q]
      BY <1>1, <1>5
    <2>2. QED BY <1>3, <2>1 DEF SubscribeOK, UpdateOK, At
  <1>6. QED BY <1>4, <1>5

(* The revocations that are due, request by request. *)
LEMMA DueByRequest ==
  ASSUME NEW u, NEW room
  PROVE  RevocationDue(u, room) <=>
           \E q \in Requests : /\ At(q, "due")
                               /\ req[q].event.user = u
                               /\ req[q].event.revokes \in {"sockets", room}
  BY DEF RevocationDue, Pending

LEMMA DueByRequestNext ==
  ASSUME NEW u, NEW room
  PROVE  RevocationDue(u, room)' <=>
           \E q \in Requests : /\ At(q, "due")'
                               /\ req'[q].event.user = u
                               /\ req'[q].event.revokes \in {"sockets", room}
  BY DEF RevocationDue, Pending, At

(* A step that delivers no event and takes no subscription further. *)
Steady ==
  \A q \in Requests :
    \/ req'[q] = req[q]
    \/ ~At(q, "due") /\ ~At(q, "row")' /\ ~At(q, "join")'

LEMMA GotoSteady ==
  ASSUME Shapes, NEW r \in Requests, NEW x, Goto(r, x), ~At(r, "due"),
         x.pc \notin {"row", "join"}
  PROVE  Steady
  <1>1. /\ req'[r] = x
        /\ \A q \in Requests : q # r => req'[q] = req[q]
    BY GotoReq DEF Shapes
  <1>2. QED BY <1>1 DEF Steady, At

(* What is due and not delivered stays due. *)
LEMMA KeepDue ==
  ASSUME \A q \in Requests : At(q, "due") => req'[q] = req[q]
  PROVE  /\ \A u, room : RevocationDue(u, room) => RevocationDue(u, room)'
         /\ \A u : SocketsDue(u) => SocketsDue(u)'
         /\ Pending \subseteq Pending'
  <1>1. \A q \in Requests : At(q, "due") => req'[q] = req[q] /\ At(q, "due")'
    BY DEF At
  <1>2. ASSUME NEW u, NEW room, RevocationDue(u, room)
        PROVE  RevocationDue(u, room)'
    BY <1>1, <1>2, DueByRequest, DueByRequestNext
  <1>3. ASSUME NEW u, SocketsDue(u)
        PROVE  SocketsDue(u)'
    BY <1>1, <1>3 DEF SocketsDue
  <1>4. Pending \subseteq Pending'
    BY <1>1 DEF Pending
  <1>5. QED BY <1>2, <1>3, <1>4

LEMMA SteadyDue ==
  ASSUME Steady
  PROVE  /\ \A u, room : RevocationDue(u, room) => RevocationDue(u, room)'
         /\ \A u : SocketsDue(u) => SocketsDue(u)'
         /\ Pending \subseteq Pending'
  BY KeepDue DEF Steady

-----------------------------------------------------------------------------
(* Steps that change no connection and no room. *)

(* Access that is lost is accounted for. *)
LossesAccounted ==
  /\ \A s \in Sockets, room \in Room :
       /\ Open(s)
       /\ room \in rooms[s] \/ \E q \in Requests : Joins(q, s, room)
       /\ MayHear(OwnerOf[s], room) /\ ~MayHear(OwnerOf[s], room)'
       => Accounted(s, room)'
  /\ \A q \in Requests, s \in Sockets, room \in Room :
       Reads(q, s, room) /\ Open(s) /\ Active(OwnerOf[s]) /\ ~Active(OwnerOf[s])' =>
         SocketsDue(OwnerOf[s])' \/ room \in missed'[s]

LEMMA AccessStep ==
  ASSUME IInv, Steady, LossesAccounted, UNCHANGED <<conn, rooms>>,
         \A s \in Sockets : missed[s] \subseteq missed'[s]
  PROVE  AccessAccounted'
  <1>1. \A s \in Sockets, room \in Room : Accounted(s, room) => Accounted(s, room)'
    BY SteadyDue DEF Accounted
  <1>2. \A q \in Requests, s \in Sockets, room \in Room :
          /\ Joins(q, s, room)' => Joins(q, s, room)
          /\ Reads(q, s, room)' => Reads(q, s, room)
    BY DEF Steady, Joins, Reads, At
  <1>3. \A s \in Sockets : Open(s)' <=> Open(s)
    BY DEF Open
  <1>4. HeldAccounted'
    <2>1. SUFFICES ASSUME NEW s \in Sockets, NEW room \in rooms[s],
                          Open(s), ~MayHear(OwnerOf[s], room)'
                   PROVE  Accounted(s, room)'
      BY <1>3 DEF HeldAccounted
    <2>2. room \in Room
      BY DEF IInv, Shapes
    <2>3. CASE MayHear(OwnerOf[s], room)
      BY <2>1, <2>2, <2>3 DEF LossesAccounted
    <2>4. CASE ~MayHear(OwnerOf[s], room)
      BY <1>1, <2>1, <2>2, <2>4 DEF IInv, AccessAccounted, HeldAccounted
    <2>5. QED BY <2>3, <2>4
  <1>5. JoinAccounted'
    <2>1. SUFFICES ASSUME NEW q \in Requests, NEW s \in Sockets, NEW room \in Room,
                          Joins(q, s, room), Open(s), ~MayHear(OwnerOf[s], room)'
                   PROVE  Accounted(s, room)'
      BY <1>2, <1>3 DEF JoinAccounted
    <2>2. CASE MayHear(OwnerOf[s], room)
      BY <2>1, <2>2 DEF LossesAccounted
    <2>3. CASE ~MayHear(OwnerOf[s], room)
      BY <1>1, <2>1, <2>3 DEF IInv, AccessAccounted, JoinAccounted
    <2>4. QED BY <2>2, <2>3
  <1>6. RowAccounted'
    <2>1. SUFFICES ASSUME NEW q \in Requests, NEW s \in Sockets, NEW room \in Room,
                          Reads(q, s, room), Open(s), ~Active(OwnerOf[s])'
                   PROVE  SocketsDue(OwnerOf[s])' \/ room \in missed'[s]
      BY <1>2, <1>3 DEF RowAccounted
    <2>2. CASE Active(OwnerOf[s])
      BY <2>1, <2>2 DEF LossesAccounted
    <2>3. CASE ~Active(OwnerOf[s])
      BY SteadyDue, <2>1, <2>3 DEF IInv, AccessAccounted, RowAccounted
    <2>4. QED BY <2>2, <2>3
  <1>7. QED BY <1>4, <1>5, <1>6 DEF AccessAccounted

(* Whoever has something new to fetch is about to be told. *)
NewsAnnounced ==
  \A s \in Sockets : \A room \in stale'[s] \ stale[s] : \E e \in Pending' : e.room = room

LEMMA QuietStep ==
  ASSUME IInv, Shapes', Steady, LossesAccounted, NewsAnnounced,
         UNCHANGED <<conn, rooms, told, emptied>>,
         \A s \in Sockets : missed[s] \subseteq missed'[s]
  PROVE  IInv'
  <1>1. ClosedHasNothing'
    BY DEF IInv, ClosedHasNothing, Open
  <1>2. ToldHolds'
    BY DEF IInv, ClientsRight, ToldHolds
  <1>3. InformedOfChanges'
    <2>1. SUFFICES ASSUME NEW s \in Sockets, NEW room \in told[s] \cap stale'[s]
                   PROVE  \/ \E e \in Pending' : e.room = room
                          \/ room = "project" /\ s \in emptied
      BY DEF InformedOfChanges
    <2>2. CASE room \in stale[s]
      BY SteadyDue, <2>2 DEF IInv, ClientsRight, InformedOfChanges
    <2>3. CASE room \notin stale[s]
      BY <2>3 DEF NewsAnnounced
    <2>4. QED BY <2>2, <2>3
  <1>4. QED BY AccessStep, <1>1, <1>2, <1>3 DEF IInv, ClientsRight
-----------------------------------------------------------------------------
(* What a write does: its event is due, and whoever is promised a          *)
(* subscription has something to fetch.                                    *)

LEMMA PublishStep ==
  ASSUME IInv, NEW r \in Requests, NEW e, Publish(r, e), ~At(r, "due"),
         UNCHANGED <<conn, told>>
  PROVE  /\ Steady
         /\ NewsAnnounced
         /\ stale' \in [Sockets -> SUBSET Room]
         /\ req' = [q \in Requests |-> req'[q]]
         /\ \A q \in Requests : SubscribeOK(q)' /\ UpdateOK(q)'
         /\ At(r, "due")' /\ req'[r].event = e
  <1>1. Goto(r, Due(e)) /\ Due(e).pc = "due" /\ Due(e).event = e
    BY DEF Publish, Due
  <1>2. req' = [q \in Requests |-> req'[q]] /\ req'[r] = Due(e)
    BY GotoReq, <1>1 DEF IInv, Shapes
  <1>3. Steady
    BY GotoSteady, <1>1 DEF IInv
  <1>4. \A q \in Requests : SubscribeOK(q)' /\ UpdateOK(q)'
    BY RequestsOK, <1>1 DEF IInv
  <1>5. stale' \in [Sockets -> SUBSET Room]
    <2>1. stale \in [Sockets -> SUBSET Room] /\ told \in [Sockets -> SUBSET Room]
      BY DEF IInv, Shapes
    <2>2. stale' = [s \in Sockets |-> stale[s] \cup ({e.room} \cap told[s])]
      BY DEF Publish
    <2>3. QED BY <2>1, <2>2
  <1>6. At(r, "due")' /\ req'[r].event = e
    BY <1>1, <1>2 DEF At
  <1>7. NewsAnnounced
    <2>1. e \in Pending'
      BY <1>6 DEF Pending
    <2>2. \A s \in Sockets : stale'[s] \subseteq stale[s] \cup {e.room}
      BY DEF Publish
    <2>3. QED BY <2>1, <2>2 DEF NewsAnnounced
  <1>8. QED BY <1>2, <1>3, <1>4, <1>5, <1>6, <1>7

(* The other steps publish nothing. *)
LEMMA SilentStep ==
  ASSUME IInv, NEW r \in Requests, NEW x, Goto(r, x), ~At(r, "due"),
         x.pc \notin {"row", "join", "write"},
         UNCHANGED <<conn, stale>>
  PROVE  /\ Steady
         /\ NewsAnnounced
         /\ req' = [q \in Requests |-> req'[q]]
         /\ \A q \in Requests : SubscribeOK(q)' /\ UpdateOK(q)'
  <1>1. Steady
    BY GotoSteady DEF IInv
  <1>2. req' = [q \in Requests |-> req'[q]]
    BY GotoReq DEF IInv, Shapes
  <1>3. \A q \in Requests : SubscribeOK(q)' /\ UpdateOK(q)'
    BY RequestsOK DEF IInv
  <1>4. NewsAnnounced
    BY DEF NewsAnnounced
  <1>5. QED BY <1>1, <1>2, <1>3, <1>4

LEMMA NothingLost ==
  ASSUME \A u \in Users : Active(u) => Active(u)',
         \A u \in Users, room \in Room : MayHear(u, room) => MayHear(u, room)'
  PROVE  LossesAccounted
  <1>1. \A s \in Sockets : OwnerOf[s] \in Users
    BY RealtimeAssumption
  <1>2. QED BY <1>1 DEF LossesAccounted

LEMMA SameAccess ==
  ASSUME UNCHANGED db
  PROVE  LossesAccounted
  BY NothingLost DEF db, Active, MayHear, Hears

(* One whose sockets are to be closed has all its losses accounted for. *)
LEMMA LostByOne ==
  ASSUME NEW u \in Users, NEW r \in Requests, At(r, "due")',
         req'[r].event.user = u, req'[r].event.revokes = "sockets",
         \A v \in Users \ {u} : Active(v) => Active(v)',
         \A v \in Users \ {u}, room \in Room : MayHear(v, room) => MayHear(v, room)'
  PROVE  LossesAccounted
  <1>1. SocketsDue(u)'
    BY DEF SocketsDue
  <1>2. \A room : RevocationDue(u, room)'
    BY DueByRequestNext
  <1>3. \A s \in Sockets : OwnerOf[s] \in Users
    BY RealtimeAssumption
  <1>4. ASSUME NEW s \in Sockets, NEW room \in Room,
               MayHear(OwnerOf[s], room), ~MayHear(OwnerOf[s], room)'
        PROVE  Accounted(s, room)'
    <2>1. OwnerOf[s] = u
      BY <1>3, <1>4
    <2>2. QED BY <1>2, <2>1 DEF Accounted
  <1>5. ASSUME NEW s \in Sockets, Active(OwnerOf[s]), ~Active(OwnerOf[s])'
        PROVE  SocketsDue(OwnerOf[s])'
    <2>1. OwnerOf[s] = u
      BY <1>3, <1>5
    <2>2. QED BY <1>1, <2>1
  <1>6. QED BY <1>4, <1>5 DEF LossesAccounted

-----------------------------------------------------------------------------
(* Steps of a request that touch neither memberships nor rooms. *)

LEMMA IdleStep ==
  ASSUME IInv, NEW r \in Requests, NEW x, Goto(r, x), ~At(r, "due"),
         x.pc \notin {"row", "join", "write"},
         UNCHANGED <<db, conn, rooms, client, history>>
  PROVE  IInv'
  <1>1. /\ Steady
        /\ NewsAnnounced
        /\ req' = [q \in Requests |-> req'[q]]
        /\ \A q \in Requests : SubscribeOK(q)' /\ UpdateOK(q)'
    BY SilentStep DEF client
  <1>2. Shapes'
    BY <1>1 DEF IInv, Shapes, db, client, history
  <1>3. QED BY QuietStep, SameAccess, <1>1, <1>2 DEF db, client, history
-----------------------------------------------------------------------------
(* The writes. *)

LEMMA CallFacts ==
  ASSUME NEW c \in Calls
  PROVE  /\ c.op = "subscribe" => c.sock \in Sockets /\ c.room \in Room
         /\ c.op = "accept" => c.user \in Users /\ c.role \in Role
         /\ c.op = "update" => c.user \in Users /\ c.dto \in Dto
         /\ c.op \in {"remove", "add", "drop"} => c.user \in Users
         /\ c.op = "typing" => c.sock \in Sockets /\ c.on \in BOOLEAN
  <1>1. c \in Call
    BY RealtimeAssumption
  <1>2. CASE c \in [op : {"subscribe"}, sock : Sockets, room : Room]
    BY <1>2
  <1>3. CASE c \in [op : {"accept"}, user : Users, role : Role]
    BY <1>3
  <1>4. CASE c \in [op : {"update"}, user : Users, dto : Dto]
    BY <1>4
  <1>5. CASE c \in [op : {"remove", "add", "drop"}, user : Users]
    BY <1>5
  <1>6. CASE c \in [op : {"change"}, room : Room]
    BY <1>6
  <1>7. CASE c \in [op : {"typing"}, sock : Sockets, on : BOOLEAN]
    BY <1>7
  <1>8. CASE c \in [op : {"message"}, user : Users]
    BY <1>8
  <1>9. QED BY <1>1, <1>2, <1>3, <1>4, <1>5, <1>6, <1>7, <1>8 DEF Call

LEMMA AcceptStep ==
  ASSUME IInv, NEW r \in Requests, NEW c \in Calls, At(r, "new"), Accept(r, c)
  PROVE  IInv'
  <1> DEFINE m == [id |-> r, role |-> c.role, status |-> "active"]
  <1>1. /\ c.user \in Users /\ c.role \in Role
        /\ member[c.user] = NoMember
        /\ member' = [member EXCEPT ![c.user] = m]
        /\ UNCHANGED <<onProject, conn, rooms, chat, told, history>>
    BY CallFacts DEF Accept
  <1>2. /\ Steady
        /\ NewsAnnounced
        /\ stale' \in [Sockets -> SUBSET Room]
        /\ req' = [q \in Requests |-> req'[q]]
        /\ \A q \in Requests : SubscribeOK(q)' /\ UpdateOK(q)'
    <2>1. Publish(r, About("workspace", c.user, "nothing")) /\ ~At(r, "due")
      BY DEF Accept, At
    <2>2. QED BY PublishStep, <1>1, <2>1
  <1>3. m \in Membership
    BY <1>1 DEF Membership, Status
  <1>4. member \in [Users -> Membership]
    BY DEF IInv, Shapes
  <1>5. member' \in [Users -> Membership]
    BY <1>1, <1>3, <1>4
  <1>6. Shapes'
    BY <1>1, <1>2, <1>5 DEF IInv, Shapes, history
  <1>7. LossesAccounted
    <2>1. \A u \in Users : u # c.user => member'[u] = member[u]
      BY <1>1, <1>4
    <2>2. ~Active(c.user)
      BY <1>1 DEF Active, NoMember
    <2>3. \A u \in Users : Active(u) => Active(u)'
      BY <2>1, <2>2 DEF Active
    <2>4. ASSUME NEW u \in Users, NEW room \in Room, MayHear(u, room)
          PROVE  MayHear(u, room)'
      BY <1>1, <2>1, <2>2, <2>4 DEF MayHear, Hears, Active
    <2>5. QED BY NothingLost, <2>3, <2>4
  <1>8. QED BY QuietStep, <1>1, <1>2, <1>6, <1>7 DEF history

LEMMA ReadTargetStep ==
  ASSUME IInv, NEW r \in Requests, NEW c \in Calls, At(r, "new"), ReadTarget(r, c)
  PROVE  IInv'
  <1> DEFINE x == [pc |-> "write", call |-> c, target |-> member[c.user]]
  <1>1. /\ c.user \in Users /\ c.dto \in Dto
        /\ Goto(r, x)
        /\ UNCHANGED <<db, conn, rooms, chat, client, history>>
    BY CallFacts DEF ReadTarget
  <1>2. Steady
    BY GotoSteady, <1>1 DEF IInv, At
  <1>3. /\ req' = [q \in Requests |-> req'[q]]
        /\ req'[r] = x
        /\ \A q \in Requests : q # r => req'[q] = req[q]
    BY GotoReq, <1>1 DEF IInv, Shapes
  <1>4. ASSUME NEW q \in Requests
        PROVE  SubscribeOK(q)' /\ UpdateOK(q)'
    <2>1. SubscribeOK(q) /\ UpdateOK(q)
      BY DEF IInv, Shapes
    <2>2. CASE q = r
      BY <1>1, <1>3, <2>2 DEF SubscribeOK, UpdateOK, At
    <2>3. CASE q # r
      <3>1. req'[q] = req[q]
        BY <1>3, <2>3
      <3>2. QED BY <1>1, <2>1, <3>1 DEF SubscribeOK, UpdateOK, At
    <2>4. QED BY <2>2, <2>3
  <1>5. Shapes'
    BY <1>1, <1>3, <1>4 DEF IInv, Shapes, db, client, history
  <1>6. NewsAnnounced
    BY <1>1 DEF NewsAnnounced, client
  <1>7. QED BY QuietStep, SameAccess, <1>1, <1>2, <1>5, <1>6 DEF client, history

(* An update that was not announced and finds the member it read changes    *)
(* nothing.                                                                *)
LEMMA UnannouncedChangesNothing ==
  ASSUME NEW m \in Membership, NEW dto \in Dto, ~Announced(dto, m)
  PROVE  Updated(m, dto, m) = m
  <1>1. CASE m = NoMember
    BY <1>1 DEF Updated
  <1>2. CASE m # NoMember
    <2>1. m \in [id : Requests \cup {0}, role : Role, status : Status]
      BY <1>2 DEF Membership
    <2>2. Sent(dto.role, m.role) = m.role /\ Sent(dto.status, m.status) = m.status
      BY DEF Announced, Sent
    <2>3. QED BY <1>2, <2>1, <2>2 DEF Updated
  <1>3. QED BY <1>1, <1>2

LEMMA UpdatedOK ==
  ASSUME NEW m \in Membership, NEW dto \in Dto, NEW target
  PROVE  Updated(m, dto, target) \in Membership
  <1>1. CASE m = NoMember \/ m.id # target.id
    BY <1>1 DEF Updated
  <1>2. CASE ~(m = NoMember \/ m.id # target.id)
    <2>1. m \in [id : Requests \cup {0}, role : Role, status : Status]
      BY <1>2 DEF Membership
    <2>2. Sent(dto.role, m.role) \in Role /\ Sent(dto.status, m.status) \in Status
      BY <2>1 DEF Dto, Sent
    <2>3. Updated(m, dto, target) \in [id : Requests \cup {0}, role : Role, status : Status]
      BY <1>2, <2>1, <2>2 DEF Updated
    <2>4. QED BY <2>3 DEF Membership
  <1>3. QED BY <1>1, <1>2

LEMMA UpdateMemberStep ==
  ASSUME IInv, NEW r \in Requests, UpdateMember(r)
  PROVE  IInv'
  <1> DEFINE u == req[r].call.user
             dto == req[r].call.dto
             target == req[r].target
             m == Updated(member[u], dto, target)
  <1>1. /\ At(r, "write") /\ ~At(r, "due")
        /\ member' = [member EXCEPT ![u] = m]
        /\ UNCHANGED <<onProject, conn, rooms, told, emptied>>
    BY DEF UpdateMember, At
  <1>2. u \in Users /\ dto \in Dto /\ member \in [Users -> Membership]
    BY <1>1 DEF IInv, Shapes, UpdateOK
  <1>3. m \in Membership
    BY UpdatedOK, <1>2
  <1>4. member' \in [Users -> Membership]
    BY <1>1, <1>2, <1>3
  <1>5. member'[u] = m /\ \A v \in Users \ {u} : member'[v] = member[v]
    BY <1>1, <1>2
  <1>6. /\ \A v \in Users \ {u} : Active(v) => Active(v)'
        /\ \A v \in Users \ {u}, room \in Room : MayHear(v, room) => MayHear(v, room)'
    BY <1>1, <1>5 DEF Active, MayHear, Hears
  <1>7. CASE Announced(dto, target)
    <2>1. Publish(r, About("workspace", u, "sockets")) /\ UNCHANGED missed
      BY <1>7 DEF UpdateMember
    <2>2. /\ Steady
          /\ NewsAnnounced
          /\ stale' \in [Sockets -> SUBSET Room]
          /\ req' = [q \in Requests |-> req'[q]]
          /\ \A q \in Requests : SubscribeOK(q)' /\ UpdateOK(q)'
          /\ At(r, "due")' /\ req'[r].event = About("workspace", u, "sockets")
      BY PublishStep, <1>1, <2>1
    <2>3. Shapes'
      BY <1>1, <1>4, <2>1, <2>2 DEF IInv, Shapes
    <2>4. LossesAccounted
      BY LostByOne, <1>2, <1>6, <2>2 DEF About
    <2>5. QED BY QuietStep, <1>1, <2>1, <2>2, <2>3, <2>4
  <1>8. CASE ~Announced(dto, target)
    <2>1. /\ Goto(r, Done)
          /\ UNCHANGED stale
          /\ missed' = [s \in Sockets |->
               missed[s] \cup {room \in rooms[s] \cup Asking(s) :
                                 /\ OwnerOf[s] = u /\ member[u] \notin {target, m}
                                 /\ ~Hears(m, u, room)}]
      BY <1>8 DEF UpdateMember
    <2>2. /\ Steady
          /\ NewsAnnounced
          /\ req' = [q \in Requests |-> req'[q]]
          /\ \A q \in Requests : SubscribeOK(q)' /\ UpdateOK(q)'
      BY SilentStep, <1>1, <2>1 DEF Done
    <2>3. missed' \in [Sockets -> SUBSET Room]
      <3>1. \A s \in Sockets : rooms[s] \cup Asking(s) \subseteq Room /\ missed[s] \subseteq Room
        BY DEF IInv, Shapes, Asking
      <3>2. \A s \in Sockets : missed'[s] \subseteq Room
        BY <2>1, <3>1
      <3>3. QED BY <2>1, <3>2
    <2>4. Shapes'
      BY <1>1, <1>4, <2>1, <2>2, <2>3 DEF IInv, Shapes
    <2>5. \A s \in Sockets : missed[s] \subseteq missed'[s]
      BY <2>1
    <2>6. m # member[u] => member[u] # target
      BY UnannouncedChangesNothing, <1>2, <1>8
    <2>7. ASSUME NEW s \in Sockets, NEW room \in rooms[s] \cup Asking(s),
                 OwnerOf[s] = u, m # member[u], ~Hears(m, u, room)
          PROVE  room \in missed'[s]
      BY <2>1, <2>6, <2>7
    <2>8. LossesAccounted
      <3>1. ASSUME NEW s \in Sockets, NEW room \in Room,
                   room \in rooms[s] \/ \E q \in Requests : Joins(q, s, room),
                   MayHear(OwnerOf[s], room), ~MayHear(OwnerOf[s], room)'
            PROVE  Accounted(s, room)'
        <4>1. OwnerOf[s] = u
          BY RealtimeAssumption, <1>6, <3>1
        <4>2. m # member[u] /\ ~Hears(m, u, room)
          BY <1>1, <1>5, <3>1, <4>1 DEF MayHear, Hears
        <4>3. room \in rooms[s] \cup Asking(s)
          BY <3>1 DEF Asking, Joins
        <4>4. QED BY <2>7, <4>1, <4>2, <4>3 DEF Accounted
      <3>2. ASSUME NEW q \in Requests, NEW s \in Sockets, NEW room \in Room,
                   Reads(q, s, room), Active(OwnerOf[s]), ~Active(OwnerOf[s])'
            PROVE  room \in missed'[s]
        <4>1. OwnerOf[s] = u
          BY RealtimeAssumption, <1>6, <3>2
        <4>2. m # member[u] /\ ~Hears(m, u, room)
          BY <1>1, <1>5, <3>2, <4>1 DEF Active, Hears
        <4>3. room \in rooms[s] \cup Asking(s)
          BY <3>2 DEF Asking, Reads
        <4>4. QED BY <2>7, <4>1, <4>2, <4>3
      <3>3. QED BY <3>1, <3>2 DEF LossesAccounted
    <2>9. QED BY QuietStep, <1>1, <2>1, <2>2, <2>4, <2>5, <2>8
  <1>9. QED BY <1>7, <1>8
LEMMA RemoveMemberStep ==
  ASSUME IInv, NEW r \in Requests, NEW c \in Calls, At(r, "new"), RemoveMember(r, c)
  PROVE  IInv'
  <1>1. /\ c.user \in Users
        /\ ~At(r, "due")
        /\ member' = [member EXCEPT ![c.user] = NoMember]
        /\ onProject' = onProject \ {c.user}
        /\ Publish(r, About("workspace", c.user, "sockets"))
        /\ UNCHANGED <<conn, rooms, chat, told, history>>
    BY CallFacts DEF RemoveMember, At
  <1>2. /\ Steady
        /\ NewsAnnounced
        /\ stale' \in [Sockets -> SUBSET Room]
        /\ req' = [q \in Requests |-> req'[q]]
        /\ \A q \in Requests : SubscribeOK(q)' /\ UpdateOK(q)'
        /\ At(r, "due")' /\ req'[r].event = About("workspace", c.user, "sockets")
    BY PublishStep, <1>1
  <1>3. member \in [Users -> Membership] /\ member' \in [Users -> Membership]
    BY <1>1 DEF IInv, Shapes, Membership
  <1>4. Shapes'
    BY <1>1, <1>2, <1>3 DEF IInv, Shapes, history
  <1>5. LossesAccounted
    <2>1. \A v \in Users \ {c.user} : member'[v] = member[v]
      BY <1>1, <1>3
    <2>2. \A v \in Users \ {c.user} : Active(v) => Active(v)'
      BY <2>1 DEF Active
    <2>3. \A v \in Users \ {c.user}, room \in Room : MayHear(v, room) => MayHear(v, room)'
      BY <1>1, <2>1 DEF MayHear, Hears
    <2>4. QED BY LostByOne, <1>1, <1>2, <2>2, <2>3 DEF About
  <1>6. QED BY QuietStep, <1>1, <1>2, <1>4, <1>5 DEF history

LEMMA AddToProjectStep ==
  ASSUME IInv, NEW r \in Requests, AddToProject(r)
  PROVE  IInv'
  <1> DEFINE u == req[r].call.user
  <1>1. ~At(r, "due") /\ UNCHANGED <<member, conn, rooms, chat, told, history>>
    BY DEF AddToProject, At
  <1>2. CASE u \in onProject
    <2>1. Goto(r, Done) /\ UNCHANGED <<onProject, stale>>
      BY <1>2 DEF AddToProject
    <2>2. QED BY IdleStep, <1>1, <2>1 DEF Done, db, client
  <1>3. CASE u \notin onProject
    <2>1. /\ onProject' = onProject \cup {u}
          /\ Publish(r, About("project", u, "nothing"))
      BY <1>3 DEF AddToProject
    <2>2. /\ Steady
          /\ NewsAnnounced
          /\ stale' \in [Sockets -> SUBSET Room]
          /\ req' = [q \in Requests |-> req'[q]]
          /\ \A q \in Requests : SubscribeOK(q)' /\ UpdateOK(q)'
      BY PublishStep, <1>1, <2>1
    <2>3. Shapes'
      BY <1>1, <2>2 DEF IInv, Shapes, history
    <2>4. \A v \in Users : Active(v) => Active(v)'
      BY <1>1 DEF Active
    <2>5. \A v \in Users, room \in Room : MayHear(v, room) => MayHear(v, room)'
      BY <1>1, <2>1 DEF MayHear, Hears
    <2>6. LossesAccounted
      BY NothingLost, <2>4, <2>5
    <2>7. QED BY QuietStep, <1>1, <2>2, <2>3, <2>6 DEF history
  <1>4. QED BY <1>2, <1>3

LEMMA DropStep ==
  ASSUME IInv, NEW r \in Requests, NEW c \in Calls, At(r, "new"), DropFromProject(r, c)
  PROVE  IInv'
  <1>1. /\ ~At(r, "due")
        /\ onProject' = onProject \ {c.user}
        /\ Publish(r, About("project", c.user, "project"))
        /\ UNCHANGED <<member, conn, rooms, chat, told, history>>
    BY DEF DropFromProject, At
  <1>2. /\ Steady
        /\ NewsAnnounced
        /\ stale' \in [Sockets -> SUBSET Room]
        /\ req' = [q \in Requests |-> req'[q]]
        /\ \A q \in Requests : SubscribeOK(q)' /\ UpdateOK(q)'
        /\ At(r, "due")' /\ req'[r].event = About("project", c.user, "project")
    BY PublishStep, <1>1
  <1>3. Shapes'
    BY <1>1, <1>2 DEF IInv, Shapes, history
  <1>4. LossesAccounted
    <2>1. ASSUME NEW s \in Sockets, NEW room \in Room,
                 MayHear(OwnerOf[s], room), ~MayHear(OwnerOf[s], room)'
          PROVE  Accounted(s, room)'
      <3>1. OwnerOf[s] = c.user /\ room = "project"
        BY <1>1, <2>1 DEF MayHear, Hears, Room
      <3>2. RevocationDue(c.user, "project")'
        BY DueByRequestNext, <1>2 DEF About
      <3>3. QED BY <3>1, <3>2 DEF Accounted
    <2>2. \A u : Active(u)' <=> Active(u)
      BY <1>1 DEF Active
    <2>3. QED BY <2>1, <2>2 DEF LossesAccounted
  <1>5. QED BY QuietStep, <1>1, <1>2, <1>3, <1>4 DEF history

LEMMA ChangeStep ==
  ASSUME IInv, NEW r \in Requests, NEW c \in Calls, At(r, "new"), Change(r, c)
  PROVE  IInv'
  <1>1. ~At(r, "due") /\ UNCHANGED <<db, conn, rooms, chat, told, history>>
    BY DEF Change, At
  <1>2. PICK u \in Users : Publish(r, About(c.room, u, "nothing"))
    BY DEF Change
  <1>3. /\ Steady
        /\ NewsAnnounced
        /\ stale' \in [Sockets -> SUBSET Room]
        /\ req' = [q \in Requests |-> req'[q]]
        /\ \A q \in Requests : SubscribeOK(q)' /\ UpdateOK(q)'
    BY PublishStep, <1>1, <1>2
  <1>4. Shapes'
    BY <1>1, <1>3 DEF IInv, Shapes, db, history
  <1>5. QED BY QuietStep, SameAccess, <1>1, <1>3, <1>4 DEF history

(* The steps of the other requests: a request ends, or goes on to a step   *)
(* that neither subscribes nor writes.                                     *)
LEMMA IdleSteps ==
  ASSUME IInv, NEW r \in Requests,
         \/ ReadPeers(r)
         \/ ForwardChecked(r)
         \/ At(r, "new") /\ \E c \in Calls : CheckAdded(r, c) \/ Typing(r, c) \/ Message(r, c)
  PROVE  IInv'
  <1>1. ASSUME At(r, "new"), NEW c \in Calls, CheckAdded(r, c)
        PROVE  IInv'
    <2>1. /\ Goto(r, IF Active(c.user) THEN Working("insert", c) ELSE Done)
          /\ ~At(r, "due")
          /\ UNCHANGED <<db, conn, rooms, client, history>>
      BY <1>1 DEF CheckAdded, At
    <2>2. QED BY IdleStep, <2>1 DEF Working, Done
  <1>2. ASSUME At(r, "new"), NEW c \in Calls, Typing(r, c)
        PROVE  IInv'
    <2>1. /\ Goto(r, Done) \/ Goto(r, Working("peers", c))
          /\ ~At(r, "due")
          /\ UNCHANGED <<db, conn, rooms, client, history>>
      BY <1>2 DEF Typing, At
    <2>2. QED BY IdleStep, <2>1 DEF Working, Done
  <1>3. ASSUME At(r, "new"), NEW c \in Calls, Message(r, c)
        PROVE  IInv'
    <2>1. PICK e : Goto(r, Due(e))
      BY <1>3 DEF Message
    <2>2. ~At(r, "due") /\ UNCHANGED <<db, conn, rooms, client, history>>
      BY <1>3 DEF Message, At
    <2>3. QED BY IdleStep, <2>1, <2>2 DEF Due
  <1>4. CASE ReadPeers(r)
    <2>1. PICK x : Goto(r, x) /\ x.pc \in {"emit", "done"}
      BY <1>4 DEF ReadPeers, Done
    <2>2. ~At(r, "due") /\ UNCHANGED <<db, conn, rooms, client, history>>
      BY <1>4 DEF ReadPeers, At
    <2>3. QED BY IdleStep, <2>1, <2>2
  <1>5. CASE ForwardChecked(r)
    <2>1. Goto(r, Done) /\ ~At(r, "due") /\ UNCHANGED <<db, conn, rooms, client, history>>
      BY <1>5 DEF ForwardChecked, At
    <2>2. QED BY IdleStep, <2>1 DEF Done
  <1>6. QED BY <1>1, <1>2, <1>3, <1>4, <1>5

LEMMA ExpireStep ==
  ASSUME IInv, NEW s \in Sockets, Expire(s)
  PROVE  IInv'
  <1>1. UNCHANGED <<db, conn, rooms, req, client, history>>
    BY DEF Expire
  <1>2. Shapes'
    BY <1>1 DEF IInv, Shapes, SubscribeOK, UpdateOK, At, db, client, history
  <1>3. Steady /\ NewsAnnounced
    BY <1>1 DEF Steady, NewsAnnounced, client
  <1>4. QED BY QuietStep, SameAccess, <1>1, <1>2, <1>3 DEF client, history
-----------------------------------------------------------------------------
(* Subscribing. *)

(* The checks: nobody who has lost access passes one unaccounted for. *)
LEMMA CheckStep ==
  ASSUME IInv, NEW r \in Requests, NEW c, NEW x, Goto(r, x), ~At(r, "due"),
         c.sock \in Sockets, c.room \in Room, conn[c.sock] # "new",
         x \in {Done, Working("row", c), Working("join", c)},
         x.pc = "row" => Active(OwnerOf[c.sock]),
         x.pc = "join" =>
           \/ MayHear(OwnerOf[c.sock], c.room)
           \/ Open(c.sock) => Accounted(c.sock, c.room),
         UNCHANGED <<db, conn, rooms, chat, client, history>>
  PROVE  IInv'
  <1> USE DEF db, client, history
  <1>1. /\ req' = [q \in Requests |-> req'[q]]
        /\ req'[r] = x
        /\ \A q \in Requests : q # r => req'[q] = req[q]
    BY GotoReq DEF IInv, Shapes
  <1>2. /\ \A u, room : RevocationDue(u, room) => RevocationDue(u, room)'
        /\ \A u : SocketsDue(u) => SocketsDue(u)'
        /\ Pending \subseteq Pending'
    BY KeepDue, <1>1
  <1>3. \A s \in Sockets, room \in Room : Accounted(s, room) => Accounted(s, room)'
    BY <1>2 DEF Accounted
  <1>4. /\ \A s : Open(s)' <=> Open(s)
        /\ \A u : Active(u)' <=> Active(u)
        /\ \A u, room : MayHear(u, room)' <=> MayHear(u, room)
    BY DEF Open, Active, MayHear, Hears
  <1>5. ASSUME NEW q \in Requests
        PROVE  SubscribeOK(q)' /\ UpdateOK(q)'
    <2>1. SubscribeOK(q) /\ UpdateOK(q)
      BY DEF IInv, Shapes
    <2>2. CASE q = r
      BY <1>1, <2>2 DEF SubscribeOK, UpdateOK, At, Working, Done
    <2>3. CASE q # r
      <3>1. req'[q] = req[q]
        BY <1>1, <2>3
      <3>2. QED BY <2>1, <3>1 DEF SubscribeOK, UpdateOK, At
    <2>4. QED BY <2>2, <2>3
  <1>6. Shapes'
    BY <1>1, <1>5 DEF IInv, Shapes
  <1>7. ClosedHasNothing'
    BY <1>4 DEF IInv, ClosedHasNothing
  <1>8. HeldAccounted'
    <2>1. \A s \in Sockets : rooms[s] \subseteq Room
      BY DEF IInv, Shapes
    <2>2. QED BY <1>3, <1>4, <2>1 DEF IInv, AccessAccounted, HeldAccounted
  <1>9. JoinAccounted'
    <2>1. SUFFICES ASSUME NEW q \in Requests, NEW s \in Sockets, NEW room \in Room,
                          Joins(q, s, room)', Open(s), ~MayHear(OwnerOf[s], room)
                   PROVE  Accounted(s, room)
      BY <1>3, <1>4 DEF JoinAccounted
    <2>2. CASE q = r
      <3>1. x.pc = "join" /\ s = c.sock /\ room = c.room
        BY <1>1, <2>1, <2>2 DEF Joins, At, Working, Done
      <3>2. QED BY <2>1, <3>1
    <2>3. CASE q # r
      <3>1. Joins(q, s, room)
        BY <1>1, <2>1, <2>3 DEF Joins, At
      <3>2. QED BY <2>1, <3>1 DEF IInv, AccessAccounted, JoinAccounted
    <2>4. QED BY <2>2, <2>3
  <1>10. RowAccounted'
    <2>1. SUFFICES ASSUME NEW q \in Requests, NEW s \in Sockets, NEW room \in Room,
                          Reads(q, s, room)', Open(s), ~Active(OwnerOf[s])
                   PROVE  SocketsDue(OwnerOf[s])' \/ room \in missed[s]
      BY <1>4 DEF RowAccounted
    <2>2. CASE q = r
      <3>1. x.pc = "row" /\ s = c.sock
        BY <1>1, <2>1, <2>2 DEF Reads, At, Working, Done
      <3>2. QED BY <2>1, <3>1
    <2>3. CASE q # r
      <3>1. Reads(q, s, room)
        BY <1>1, <2>1, <2>3 DEF Reads, At
      <3>2. QED BY <1>2, <2>1, <3>1 DEF IInv, AccessAccounted, RowAccounted
    <2>4. QED BY <2>2, <2>3
  <1>11. ToldHolds'
    BY DEF IInv, ClientsRight, ToldHolds
  <1>12. InformedOfChanges'
    BY <1>2 DEF IInv, ClientsRight, InformedOfChanges
  <1>13. QED BY <1>6, <1>7, <1>8, <1>9, <1>10, <1>11, <1>12 DEF IInv, AccessAccounted, ClientsRight

LEMMA ReadMembershipStep ==
  ASSUME IInv, NEW r \in Requests, NEW c \in Calls, At(r, "new"), ReadMembership(r, c)
  PROVE  IInv'
  <1> DEFINE u == OwnerOf[c.sock]
  <1>1. /\ c.sock \in Sockets /\ c.room \in Room
        /\ conn[c.sock] # "new" /\ ~At(r, "due")
        /\ UNCHANGED <<db, conn, rooms, chat, client, history>>
    BY CallFacts DEF ReadMembership, Open, At
  <1>2. PICK x : /\ Goto(r, x)
                 /\ x = IF ~Active(u) THEN Done
                        ELSE IF Granted(u, c.room) THEN Working("join", c)
                        ELSE Working("row", c)
    BY DEF ReadMembership
  <1>3. x \in {Done, Working("row", c), Working("join", c)}
    BY <1>2
  <1>4. x.pc = "row" => Active(u)
    BY <1>2 DEF Done, Working
  <1>5. x.pc = "join" => MayHear(u, c.room)
    BY <1>2 DEF Done, Working, Granted, ReadsAll, MayHear, Hears, Active
  <1>6. QED BY CheckStep, <1>1, <1>2, <1>3, <1>4, <1>5

LEMMA ReadProjectRowStep ==
  ASSUME IInv, NEW r \in Requests, ReadProjectRow(r)
  PROVE  IInv'
  <1>1. PICK c : c = req[r].call
    OBVIOUS
  <1>2. /\ c.sock \in Sockets /\ c.room \in Room
        /\ conn[c.sock] # "new" /\ ~At(r, "due")
        /\ UNCHANGED <<db, conn, rooms, chat, client, history>>
    BY <1>1 DEF ReadProjectRow, At, IInv, Shapes, SubscribeOK
  <1>3. PICK x : /\ Goto(r, x)
                 /\ x = IF OwnerOf[c.sock] \in onProject THEN Working("join", c) ELSE Done
    BY <1>1 DEF ReadProjectRow
  <1>4. x \in {Done, Working("row", c), Working("join", c)} /\ x.pc # "row"
    BY <1>3 DEF Done, Working
  <1>5. ASSUME x.pc = "join", ~MayHear(OwnerOf[c.sock], c.room), Open(c.sock)
        PROVE  Accounted(c.sock, c.room)
    <2>1. OwnerOf[c.sock] \in onProject
      BY <1>3, <1>5 DEF Done
    <2>2. ~Active(OwnerOf[c.sock])
      BY <1>5, <2>1 DEF MayHear, Hears, Active
    <2>3. Reads(r, c.sock, c.room)
      BY <1>1 DEF ReadProjectRow, Reads
    <2>4. SocketsDue(OwnerOf[c.sock]) \/ c.room \in missed[c.sock]
      BY <1>2, <1>5, <2>2, <2>3 DEF IInv, AccessAccounted, RowAccounted
    <2>5. QED BY <2>4, DueByRequest DEF SocketsDue, Accounted
  <1>6. QED BY CheckStep, <1>2, <1>3, <1>4, <1>5
LEMMA JoinStep ==
  ASSUME IInv, NEW r \in Requests, Join(r)
  PROVE  IInv'
  <1>1. PICK s, room : s = req[r].call.sock /\ room = req[r].call.room
    OBVIOUS
  <1>2. /\ s \in Sockets /\ room \in Room
        /\ Joins(r, s, room) /\ ~At(r, "due")
    BY <1>1 DEF Join, IInv, Shapes, SubscribeOK, Joins, At
  <1>3. /\ Goto(r, Done)
        /\ stale' = [stale EXCEPT ![s] = @ \ {room}]
        /\ emptied' = IF room = "project" THEN emptied \ {s} ELSE emptied
        /\ UNCHANGED <<db, conn, chat, missed>>
    BY <1>1 DEF Join
  <1>4. /\ Open(s) => /\ rooms' = [rooms EXCEPT ![s] = @ \cup {room}]
                      /\ told' = [told EXCEPT ![s] = @ \cup {room}]
        /\ ~Open(s) => UNCHANGED <<rooms, told>>
    BY <1>1 DEF Join
  <1>5. /\ rooms \in [Sockets -> SUBSET Room]
        /\ told \in [Sockets -> SUBSET Room]
        /\ stale \in [Sockets -> SUBSET Room]
    BY DEF IInv, Shapes
  <1>6. /\ \A t \in Sockets : t # s => rooms'[t] = rooms[t] /\ told'[t] = told[t]
        /\ Open(s) => rooms'[s] = rooms[s] \cup {room} /\ told'[s] = told[s] \cup {room}
        /\ ~Open(s) => rooms'[s] = rooms[s] /\ told'[s] = told[s]
    BY <1>2, <1>4, <1>5
  <1>7. /\ \A t \in Sockets : t # s => stale'[t] = stale[t]
        /\ stale'[s] = stale[s] \ {room}
    BY <1>2, <1>3, <1>5
  <1>8. Done.pc \notin {"row", "join", "write", "due"}
    BY DEF Done
  <1>9. /\ req' = [q \in Requests |-> req'[q]]
        /\ Steady
        /\ \A q \in Requests : SubscribeOK(q)' /\ UpdateOK(q)'
    BY GotoReq, GotoSteady, RequestsOK, <1>2, <1>3, <1>8 DEF IInv, Shapes
  <1>10. Shapes'
    <2>1. rooms' \in [Sockets -> SUBSET Room] /\ told' \in [Sockets -> SUBSET Room]
      <3>1. CASE Open(s)
        BY <1>2, <1>4, <1>5, <3>1
      <3>2. CASE ~Open(s)
        BY <1>4, <1>5, <3>2
      <3>3. QED BY <3>1, <3>2
    <2>2. stale' \in [Sockets -> SUBSET Room]
      BY <1>2, <1>3, <1>5
    <2>3. emptied' \subseteq Sockets
      BY <1>3 DEF IInv, Shapes
    <2>4. QED BY <1>3, <1>9, <2>1, <2>2, <2>3 DEF IInv, Shapes, db
  <1>11. \A t \in Sockets, rm \in Room : Accounted(t, rm) => Accounted(t, rm)'
    BY SteadyDue, <1>3, <1>9 DEF Accounted
  <1>12. /\ \A t : Open(t)' <=> Open(t)
         /\ \A u : Active(u)' <=> Active(u)
         /\ \A u, rm : MayHear(u, rm)' <=> MayHear(u, rm)
    BY <1>3 DEF Open, Active, MayHear, Hears, db
  <1>13. \A q \in Requests, t \in Sockets, rm \in Room :
           /\ Joins(q, t, rm)' => Joins(q, t, rm)
           /\ Reads(q, t, rm)' => Reads(q, t, rm)
    BY <1>9 DEF Steady, Joins, Reads, At
  <1>14. ClosedHasNothing'
    BY <1>6, <1>12 DEF IInv, ClosedHasNothing
  <1>15. HeldAccounted'
    <2>1. SUFFICES ASSUME NEW t \in Sockets, NEW rm \in rooms'[t],
                          Open(t), ~MayHear(OwnerOf[t], rm)
                   PROVE  Accounted(t, rm)'
      BY <1>12 DEF HeldAccounted
    <2>2. CASE rm \in rooms[t]
      <3>1. rm \in Room
        BY <1>5, <2>2
      <3>2. QED BY <1>11, <2>1, <2>2, <3>1 DEF IInv, AccessAccounted, HeldAccounted
    <2>3. CASE rm \notin rooms[t]
      <3>1. t = s /\ rm = room
        BY <1>6, <2>3
      <3>2. QED BY <1>2, <1>11, <2>1, <3>1 DEF IInv, AccessAccounted, JoinAccounted
    <2>4. QED BY <2>2, <2>3
  <1>16. JoinAccounted'
    BY <1>11, <1>12, <1>13 DEF IInv, AccessAccounted, JoinAccounted
  <1>17. RowAccounted'
    BY SteadyDue, <1>3, <1>9, <1>12, <1>13 DEF IInv, AccessAccounted, RowAccounted
  <1>18. told[s] # {} => Open(s)
    BY <1>2 DEF IInv, ClosedHasNothing
  <1>19. ToldHolds'
    <2>1. SUFFICES ASSUME NEW t \in Sockets, NEW rm \in told'[t], rm \notin rooms'[t]
                   PROVE  rm = "project" /\ t \in emptied'
      BY DEF ToldHolds
    <2>2. rm \in told[t] /\ rm \notin rooms[t]
      BY <1>6, <2>1
    <2>3. rm = "project" /\ t \in emptied
      BY <2>2 DEF IInv, ClientsRight, ToldHolds
    <2>4. t # s \/ room # "project"
      BY <1>6, <1>18, <2>1, <2>2, <2>3
    <2>5. QED BY <1>3, <2>3, <2>4
  <1>20. InformedOfChanges'
    <2>1. SUFFICES ASSUME NEW t \in Sockets, NEW rm \in told'[t] \cap stale'[t]
                   PROVE  \/ \E e \in Pending' : e.room = rm
                          \/ rm = "project" /\ t \in emptied'
      BY DEF InformedOfChanges
    <2>2. rm \in told[t] \cap stale[t] /\ (t # s \/ rm # room)
      BY <1>6, <1>7, <1>18
    <2>3. \/ \E e \in Pending : e.room = rm
          \/ rm = "project" /\ t \in emptied
      BY <2>2 DEF IInv, ClientsRight, InformedOfChanges
    <2>4. CASE \E e \in Pending : e.room = rm
      BY SteadyDue, <1>9, <2>4
    <2>5. CASE rm = "project" /\ t \in emptied
      BY <1>3, <2>2, <2>5
    <2>6. QED BY <2>3, <2>4, <2>5
  <1>21. QED BY <1>10, <1>14, <1>15, <1>16, <1>17, <1>19, <1>20
           DEF IInv, AccessAccounted, ClientsRight

LEMMA UnsubscribeStep ==
  ASSUME IInv, NEW s \in Sockets, NEW room \in Room, Unsubscribe(s, room)
  PROVE  IInv'
  <1>1. /\ rooms' = [rooms EXCEPT ![s] = @ \ {room}]
        /\ told' = [told EXCEPT ![s] = @ \ {room}]
        /\ stale' = [stale EXCEPT ![s] = @ \ {room}]
        /\ emptied' = IF room = "project" THEN emptied \ {s} ELSE emptied
        /\ missed' = [missed EXCEPT ![s] = @ \ ({room} \ Asking(s))]
        /\ UNCHANGED <<db, conn, req, chat>>
    BY DEF Unsubscribe
  <1>2. /\ rooms \in [Sockets -> SUBSET Room]
        /\ told \in [Sockets -> SUBSET Room]
        /\ stale \in [Sockets -> SUBSET Room]
        /\ missed \in [Sockets -> SUBSET Room]
        /\ emptied \subseteq Sockets
    BY DEF IInv, Shapes
  <1>3. Shapes'
    <2>1. /\ rooms' \in [Sockets -> SUBSET Room]
          /\ told' \in [Sockets -> SUBSET Room]
          /\ stale' \in [Sockets -> SUBSET Room]
          /\ missed' \in [Sockets -> SUBSET Room]
          /\ emptied' \subseteq Sockets
      BY <1>1, <1>2
    <2>2. QED BY <1>1, <2>1 DEF IInv, Shapes, SubscribeOK, UpdateOK, At, db
  <1>4. \A t \in Sockets : /\ rooms'[t] = rooms[t] \ (IF t = s THEN {room} ELSE {})
                          /\ told'[t] = told[t] \ (IF t = s THEN {room} ELSE {})
                          /\ stale'[t] = stale[t] \ (IF t = s THEN {room} ELSE {})
    BY <1>1, <1>2
  <1>5. /\ \A t : Open(t)' <=> Open(t)
        /\ \A u : Active(u)' <=> Active(u)
        /\ \A u, rm : MayHear(u, rm)' <=> MayHear(u, rm)
        /\ \A u, rm : RevocationDue(u, rm)' <=> RevocationDue(u, rm)
        /\ \A u : SocketsDue(u)' <=> SocketsDue(u)
        /\ Pending' = Pending
        /\ \A q, t, rm : Joins(q, t, rm)' <=> Joins(q, t, rm)
        /\ \A q, t, rm : Reads(q, t, rm)' <=> Reads(q, t, rm)
    BY <1>1 DEF Open, Active, MayHear, Hears, RevocationDue, SocketsDue, Pending, Joins, Reads,
                At, db
  <1>6. \A t \in Sockets, rm \in Room :
          rm \in missed[t] /\ rm \notin missed'[t] => t = s /\ rm = room /\ room \notin Asking(s)
    BY <1>1, <1>2
  <1>7. \A q \in Requests : Joins(q, s, room) \/ Reads(q, s, room) => room \in Asking(s)
    BY DEF Asking, Joins, Reads
  <1>8. ClosedHasNothing'
    BY <1>4, <1>5 DEF IInv, ClosedHasNothing
  <1>9. HeldAccounted'
    <2>1. SUFFICES ASSUME NEW t \in Sockets, NEW rm \in rooms'[t],
                          Open(t), ~MayHear(OwnerOf[t], rm)
                   PROVE  Accounted(t, rm)'
      BY <1>5 DEF HeldAccounted
    <2>2. rm \in rooms[t] /\ rm \in Room /\ ~(t = s /\ rm = room)
      BY <1>2, <1>4
    <2>3. Accounted(t, rm)
      BY <2>1, <2>2 DEF IInv, AccessAccounted, HeldAccounted
    <2>4. QED BY <1>5, <1>6, <2>2, <2>3 DEF Accounted
  <1>10. JoinAccounted'
    <2>1. SUFFICES ASSUME NEW q \in Requests, NEW t \in Sockets, NEW rm \in Room,
                          Joins(q, t, rm), Open(t), ~MayHear(OwnerOf[t], rm)
                   PROVE  Accounted(t, rm)'
      BY <1>5 DEF JoinAccounted
    <2>2. Accounted(t, rm)
      BY <2>1 DEF IInv, AccessAccounted, JoinAccounted
    <2>3. QED BY <1>5, <1>6, <1>7, <2>1, <2>2 DEF Accounted
  <1>11. RowAccounted'
    <2>1. SUFFICES ASSUME NEW q \in Requests, NEW t \in Sockets, NEW rm \in Room,
                          Reads(q, t, rm), Open(t), ~Active(OwnerOf[t])
                   PROVE  SocketsDue(OwnerOf[t]) \/ rm \in missed'[t]
      BY <1>5 DEF RowAccounted
    <2>2. SocketsDue(OwnerOf[t]) \/ rm \in missed[t]
      BY <2>1 DEF IInv, AccessAccounted, RowAccounted
    <2>3. QED BY <1>6, <1>7, <2>1, <2>2
  <1>12. ToldHolds'
    <2>1. SUFFICES ASSUME NEW t \in Sockets, NEW rm \in told'[t], rm \notin rooms'[t]
                   PROVE  rm = "project" /\ t \in emptied'
      BY DEF ToldHolds
    <2>2. rm \in told[t] /\ rm \notin rooms[t] /\ ~(t = s /\ rm = room)
      BY <1>4, <2>1
    <2>3. rm = "project" /\ t \in emptied
      BY <2>2 DEF IInv, ClientsRight, ToldHolds
    <2>4. QED BY <1>1, <2>2, <2>3
  <1>13. InformedOfChanges'
    <2>1. SUFFICES ASSUME NEW t \in Sockets, NEW rm \in told'[t] \cap stale'[t]
                   PROVE  \/ \E e \in Pending : e.room = rm
                          \/ rm = "project" /\ t \in emptied'
      BY <1>5 DEF InformedOfChanges
    <2>2. rm \in told[t] \cap stale[t] /\ ~(t = s /\ rm = room)
      BY <1>4
    <2>3. \/ \E e \in Pending : e.room = rm
          \/ rm = "project" /\ t \in emptied
      BY <2>2 DEF IInv, ClientsRight, InformedOfChanges
    <2>4. QED BY <1>1, <2>2, <2>3
  <1>14. QED BY <1>3, <1>8, <1>9, <1>10, <1>11, <1>12, <1>13
           DEF IInv, AccessAccounted, ClientsRight
-----------------------------------------------------------------------------
(* Connections. *)

LEMMA ConnectStep ==
  ASSUME IInv, NEW s \in Sockets, Connect(s)
  PROVE  IInv'
  <1>1. /\ conn[s] = "new"
        /\ conn' = [conn EXCEPT ![s] = "open"]
        /\ UNCHANGED <<db, rooms, req, chat, client, history>>
    BY DEF Connect
  <1>2. conn \in [Sockets -> Connection]
    BY DEF IInv, Shapes
  <1>3. /\ conn' \in [Sockets -> Connection]
        /\ \A t \in Sockets : conn'[t] = IF t = s THEN "open" ELSE conn[t]
    BY <1>1, <1>2 DEF Connection
  <1>4. Shapes'
    BY <1>1, <1>3 DEF IInv, Shapes, SubscribeOK, UpdateOK, At, db, client, history
  <1>5. \A t \in Sockets : Open(t)' <=> Open(t) \/ t = s
    BY <1>3 DEF Open
  <1>6. /\ \A u : Active(u)' <=> Active(u)
        /\ \A u, rm : MayHear(u, rm)' <=> MayHear(u, rm)
        /\ \A t, rm : Accounted(t, rm)' <=> Accounted(t, rm)
        /\ \A u : SocketsDue(u)' <=> SocketsDue(u)
        /\ \A q, t, rm : Joins(q, t, rm)' <=> Joins(q, t, rm)
        /\ \A q, t, rm : Reads(q, t, rm)' <=> Reads(q, t, rm)
    BY <1>1 DEF Active, MayHear, Hears, Accounted, RevocationDue, SocketsDue, Pending,
                Joins, Reads, At, db, history
  <1>7. rooms[s] = {} /\ told[s] = {}
    BY <1>1 DEF IInv, ClosedHasNothing, Open
  <1>8. \A q \in Requests : \A rm : ~Joins(q, s, rm) /\ ~Reads(q, s, rm)
    BY <1>1 DEF IInv, Shapes, SubscribeOK, Joins, Reads
  <1>9. ClosedHasNothing'
    BY <1>1, <1>5 DEF IInv, ClosedHasNothing, client
  <1>10. HeldAccounted'
    BY <1>1, <1>5, <1>6, <1>7 DEF IInv, AccessAccounted, HeldAccounted
  <1>11. JoinAccounted'
    BY <1>5, <1>6, <1>8 DEF IInv, AccessAccounted, JoinAccounted
  <1>12. RowAccounted'
    BY <1>1, <1>5, <1>6, <1>8 DEF IInv, AccessAccounted, RowAccounted, history
  <1>13. ClientsRight'
    BY <1>1 DEF IInv, ClientsRight, ToldHolds, InformedOfChanges, Pending, At, client, history
  <1>14. QED BY <1>4, <1>9, <1>10, <1>11, <1>12, <1>13 DEF IInv, AccessAccounted

(* Sockets that close lose everything; the others must keep what is due to  *)
(* them.                                                                   *)
Closes(S) ==
  /\ Close(S)
  /\ told' = [s \in Sockets |-> IF s \in S THEN {} ELSE told[s]]
  /\ stale' \in [Sockets -> SUBSET Room]
  /\ req' = [q \in Requests |-> req'[q]]
  /\ \A q \in Requests : req'[q] = req[q] \/ req'[q] = Done
  /\ UNCHANGED db

OthersKeepDue(S) ==
  \A t \in Sockets \ S : Open(t) =>
    /\ \A rm \in Room : RevocationDue(OwnerOf[t], rm) => RevocationDue(OwnerOf[t], rm)'
    /\ SocketsDue(OwnerOf[t]) => SocketsDue(OwnerOf[t])'

OthersInformed(S) ==
  \A t \in Sockets \ S : \A rm \in told[t] \cap stale'[t] :
    (\E e \in Pending' : e.room = rm) \/ (rm = "project" /\ t \in emptied)

LEMMA CloseStep ==
  ASSUME IInv, NEW S \in SUBSET Sockets, Closes(S), OthersKeepDue(S), OthersInformed(S)
  PROVE  IInv'
  <1>1. /\ conn' = [s \in Sockets |-> IF s \in S THEN "closed" ELSE conn[s]]
        /\ rooms' = [s \in Sockets |-> IF s \in S THEN {} ELSE rooms[s]]
        /\ emptied' = emptied \ S
        /\ missed' = [s \in Sockets |-> IF s \in S THEN {} ELSE missed[s]]
    BY DEF Close, Closes
  <1>2. /\ member \in [Users -> Membership]
        /\ conn \in [Sockets -> Connection]
        /\ rooms \in [Sockets -> SUBSET Room]
        /\ told \in [Sockets -> SUBSET Room]
        /\ missed \in [Sockets -> SUBSET Room]
        /\ emptied \subseteq Sockets
        /\ \A r \in Requests : SubscribeOK(r) /\ UpdateOK(r)
    BY DEF IInv, Shapes
  <1>3. ASSUME NEW q \in Requests
        PROVE  SubscribeOK(q)' /\ UpdateOK(q)'
    <2>1. CASE req'[q] = req[q]
      BY <1>1, <1>2, <2>1 DEF SubscribeOK, UpdateOK, At
    <2>2. CASE req'[q] = Done
      BY <2>2 DEF SubscribeOK, UpdateOK, At, Done
    <2>3. QED BY <2>1, <2>2 DEF Closes
  <1>4. Shapes'
    <2>1. /\ conn' \in [Sockets -> Connection]
          /\ rooms' \in [Sockets -> SUBSET Room]
          /\ told' \in [Sockets -> SUBSET Room]
          /\ missed' \in [Sockets -> SUBSET Room]
          /\ emptied' \subseteq Sockets
      BY <1>1, <1>2 DEF Connection, Closes
    <2>2. QED BY <1>2, <1>3, <2>1 DEF Shapes, Closes, db
  <1>5. /\ \A t \in Sockets : (Open(t)' => Open(t)) /\ (Open(t)' => t \notin S)
        /\ \A t \in Sockets : t \notin S => (Open(t) => Open(t)')
        /\ \A t \in Sockets : t \notin S => rooms'[t] = rooms[t]
        /\ \A t \in Sockets : t \notin S => missed'[t] = missed[t]
        /\ \A t \in Sockets : t \notin S => told'[t] = told[t]
        /\ \A t \in Sockets : t \in S => rooms'[t] = {} /\ told'[t] = {}
    BY <1>1 DEF Open, Closes
  <1>6. /\ \A u : Active(u)' <=> Active(u)
        /\ \A u, rm : MayHear(u, rm)' <=> MayHear(u, rm)
    BY DEF Active, MayHear, Hears, Closes, db
  <1>7. \A q \in Requests : \A t, rm :
          /\ Joins(q, t, rm)' => Joins(q, t, rm)
          /\ Reads(q, t, rm)' => Reads(q, t, rm)
    BY DEF Joins, Reads, At, Done, Closes
  <1>8. \A t \in Sockets, rm \in Room :
          Open(t) /\ t \notin S /\ Accounted(t, rm) => Accounted(t, rm)'
    BY <1>5 DEF Accounted, OthersKeepDue
  <1>9. ClosedHasNothing'
    BY <1>5 DEF IInv, ClosedHasNothing
  <1>10. HeldAccounted'
    <2>1. SUFFICES ASSUME NEW t \in Sockets, NEW rm \in rooms'[t],
                          Open(t), t \notin S, ~MayHear(OwnerOf[t], rm)
                   PROVE  Accounted(t, rm)'
      BY <1>5, <1>6 DEF HeldAccounted
    <2>2. rm \in rooms[t] /\ rm \in Room
      BY <1>2, <1>5, <2>1
    <2>3. QED BY <1>8, <2>1, <2>2 DEF IInv, AccessAccounted, HeldAccounted
  <1>11. JoinAccounted'
    <2>1. SUFFICES ASSUME NEW q \in Requests, NEW t \in Sockets, NEW rm \in Room,
                          Joins(q, t, rm), Open(t), t \notin S, ~MayHear(OwnerOf[t], rm)
                   PROVE  Accounted(t, rm)'
      BY <1>5, <1>6, <1>7 DEF JoinAccounted
    <2>2. QED BY <1>8, <2>1 DEF IInv, AccessAccounted, JoinAccounted
  <1>12. RowAccounted'
    <2>1. SUFFICES ASSUME NEW q \in Requests, NEW t \in Sockets, NEW rm \in Room,
                          Reads(q, t, rm), Open(t), t \notin S, ~Active(OwnerOf[t])
                   PROVE  SocketsDue(OwnerOf[t])' \/ rm \in missed'[t]
      BY <1>5, <1>6, <1>7 DEF RowAccounted
    <2>2. missed'[t] = missed[t]
      BY <1>5, <2>1
    <2>3. SocketsDue(OwnerOf[t]) \/ rm \in missed[t]
      BY <2>1, <2>2 DEF IInv, AccessAccounted, RowAccounted
    <2>4. QED BY <2>1, <2>2, <2>3 DEF OthersKeepDue
  <1>13. ToldHolds'
    BY <1>1, <1>5 DEF IInv, ClientsRight, ToldHolds
  <1>14. InformedOfChanges'
    BY <1>1, <1>5 DEF InformedOfChanges, OthersInformed
  <1>15. QED BY <1>4, <1>9, <1>10, <1>11, <1>12, <1>13, <1>14
           DEF IInv, AccessAccounted, ClientsRight

LEMMA DisconnectStep ==
  ASSUME IInv, NEW s \in Sockets, Disconnect(s)
  PROVE  IInv'
  <1>1. /\ Close({s})
        /\ told' = [told EXCEPT ![s] = {}]
        /\ stale' = [stale EXCEPT ![s] = {}]
        /\ UNCHANGED <<db, req>>
    BY DEF Disconnect
  <1>2. /\ told \in [Sockets -> SUBSET Room]
        /\ stale \in [Sockets -> SUBSET Room]
        /\ req = [q \in Requests |-> req[q]]
    BY DEF IInv, Shapes
  <1>3. told' = [t \in Sockets |-> IF t \in {s} THEN {} ELSE told[t]]
    BY <1>1, <1>2
  <1>4. /\ stale' \in [Sockets -> SUBSET Room]
        /\ \A t \in Sockets \ {s} : stale'[t] = stale[t]
    BY <1>1, <1>2
  <1>5. /\ \A u, rm : RevocationDue(u, rm)' <=> RevocationDue(u, rm)
        /\ \A u : SocketsDue(u)' <=> SocketsDue(u)
        /\ Pending' = Pending
    BY <1>1 DEF RevocationDue, SocketsDue, Pending, At
  <1>6. \A t \in Sockets \ {s} : \A rm \in told[t] \cap stale'[t] :
          (\E e \in Pending' : e.room = rm) \/ (rm = "project" /\ t \in emptied)
    BY <1>4, <1>5 DEF IInv, ClientsRight, InformedOfChanges
  <1>7. req' = [q \in Requests |-> req'[q]] /\ \A q \in Requests : req'[q] = req[q]
    BY <1>1, <1>2
  <1>8. Closes({s})
    BY <1>1, <1>3, <1>4, <1>7 DEF Closes
  <1>9. OthersKeepDue({s}) /\ OthersInformed({s})
    BY <1>5, <1>6 DEF OthersKeepDue, OthersInformed
  <1>10. QED BY CloseStep, <1>8, <1>9
-----------------------------------------------------------------------------
(* Listeners. *)

LEMMA DeliverReq ==
  ASSUME IInv, NEW r \in Requests, At(r, "due"), Goto(r, Done)
  PROVE  /\ req' = [q \in Requests |-> req'[q]]
         /\ \A q \in Requests : req'[q] = req[q] \/ req'[q] = Done
         /\ \A u, rm :
              RevocationDue(u, rm)
              /\ ~(req[r].event.user = u /\ req[r].event.revokes \in {"sockets", rm})
              => RevocationDue(u, rm)'
         /\ \A u :
              SocketsDue(u) /\ ~(req[r].event.user = u /\ req[r].event.revokes = "sockets")
              => SocketsDue(u)'
         /\ \A e \in Pending : e # req[r].event => e \in Pending'
  <1>1. /\ req' = [q \in Requests |-> req'[q]]
        /\ req'[r] = Done
        /\ \A q \in Requests : q # r => req'[q] = req[q]
    BY GotoReq DEF IInv, Shapes
  <1>2. ASSUME NEW u, NEW rm, RevocationDue(u, rm),
               ~(req[r].event.user = u /\ req[r].event.revokes \in {"sockets", rm})
        PROVE  RevocationDue(u, rm)'
    <2>1. PICK q \in Requests : /\ At(q, "due")
                               /\ req[q].event.user = u
                               /\ req[q].event.revokes \in {"sockets", rm}
      BY DueByRequest, <1>2
    <2>2. q # r /\ req'[q] = req[q] /\ At(q, "due")'
      BY <1>1, <1>2, <2>1 DEF At
    <2>3. QED BY DueByRequestNext, <2>1, <2>2
  <1>3. ASSUME NEW u, SocketsDue(u),
               ~(req[r].event.user = u /\ req[r].event.revokes = "sockets")
        PROVE  SocketsDue(u)'
    BY <1>1, <1>3 DEF SocketsDue, At
  <1>4. ASSUME NEW e \in Pending, e # req[r].event
        PROVE  e \in Pending'
    BY <1>1, <1>4 DEF Pending, At
  <1>5. QED BY <1>1, <1>2, <1>3, <1>4

(* A socket that is in the room has been told; for any other room, the      *)
(* event is still due.                                                     *)
LEMMA BroadcastInforms ==
  ASSUME IInv, NEW r \in Requests, At(r, "due"), Goto(r, Done)
  PROVE  /\ Broadcast(req[r].event.room) \in [Sockets -> SUBSET Room]
         /\ \A t \in Sockets : \A rm \in told[t] \cap Broadcast(req[r].event.room)[t] :
              (\E e \in Pending' : e.room = rm) \/ (rm = "project" /\ t \in emptied)
  <1>1. stale \in [Sockets -> SUBSET Room]
    BY DEF IInv, Shapes
  <1>2. Broadcast(req[r].event.room) \in [Sockets -> SUBSET Room]
    BY <1>1 DEF Broadcast
  <1>3. ASSUME NEW t \in Sockets, NEW rm \in told[t] \cap Broadcast(req[r].event.room)[t]
        PROVE  (\E e \in Pending' : e.room = rm) \/ (rm = "project" /\ t \in emptied)
    <2>1. rm \in stale[t] /\ (rm # req[r].event.room \/ rm \notin rooms[t])
      BY <1>3 DEF Broadcast
    <2>2. \/ \E e \in Pending : e.room = rm
          \/ rm = "project" /\ t \in emptied
      BY <1>3, <2>1 DEF IInv, ClientsRight, InformedOfChanges
    <2>3. CASE rm \notin rooms[t]
      BY <1>3, <2>3 DEF IInv, ClientsRight, ToldHolds
    <2>4. CASE rm # req[r].event.room
      BY DeliverReq, <2>2, <2>4
    <2>5. QED BY <2>1, <2>3, <2>4
  <1>4. QED BY <1>2, <1>3

LEMMA KickStep ==
  ASSUME IInv, NEW r \in Requests, At(r, "due"), Goto(r, Done), UNCHANGED db,
         Kick(req[r].event)
  PROVE  IInv'
  <1>1. PICK e : e = req[r].event
    OBVIOUS
  <1>2. PICK S : S = {s \in SocketsOf(e.user) : Open(s)}
    OBVIOUS
  <1>3. /\ Close(S)
        /\ told' = [s \in Sockets |-> IF s \in S THEN {} ELSE told[s]]
        /\ stale' = [s \in Sockets |-> IF s \in S THEN {} ELSE Broadcast(e.room)[s]]
    BY <1>1, <1>2 DEF Kick
  <1>4. S \in SUBSET Sockets
    BY <1>2 DEF SocketsOf
  <1>5. Broadcast(e.room) \in [Sockets -> SUBSET Room]
    BY BroadcastInforms, <1>1
  <1>6. stale' \in [Sockets -> SUBSET Room]
    BY <1>3, <1>5
  <1>7. Closes(S)
    BY DeliverReq, <1>3, <1>6 DEF Closes
  <1>8. OthersKeepDue(S)
    <2>1. \A t \in Sockets \ S : Open(t) => OwnerOf[t] # e.user
      BY <1>2 DEF SocketsOf
    <2>2. QED BY DeliverReq, <1>1, <2>1 DEF OthersKeepDue
  <1>9. OthersInformed(S)
    <2>1. \A t \in Sockets \ S : stale'[t] = Broadcast(e.room)[t]
      BY <1>3
    <2>2. QED BY BroadcastInforms, <1>1, <2>1 DEF OthersInformed
  <1>10. QED BY CloseStep, <1>4, <1>7, <1>8, <1>9

(* What is common to the listeners that close no socket. *)
LEMMA ListenStep ==
  ASSUME IInv, NEW r \in Requests, At(r, "due"), Goto(r, Done), UNCHANGED <<db, conn, told>>,
         stale' = Broadcast(req[r].event.room),
         rooms' \in [Sockets -> SUBSET Room],
         missed' \in [Sockets -> SUBSET Room],
         emptied \subseteq emptied', emptied' \subseteq Sockets
  PROVE  /\ Shapes'
         /\ \A q \in Requests : \A t, rm : Joins(q, t, rm)' => Joins(q, t, rm)
         /\ \A q \in Requests : \A t, rm : Reads(q, t, rm)' => Reads(q, t, rm)
         /\ \A t : Open(t)' <=> Open(t)
         /\ \A u : Active(u)' <=> Active(u)
         /\ \A u, rm : MayHear(u, rm)' <=> MayHear(u, rm)
         /\ InformedOfChanges'
  <1>1. /\ req' = [q \in Requests |-> req'[q]]
        /\ \A q \in Requests : req'[q] = req[q] \/ req'[q] = Done
    BY DeliverReq
  <1>2. ASSUME NEW q \in Requests
        PROVE  SubscribeOK(q)' /\ UpdateOK(q)'
    <2>1. SubscribeOK(q) /\ UpdateOK(q)
      BY DEF IInv, Shapes
    <2>2. CASE req'[q] = req[q]
      BY <2>1, <2>2 DEF SubscribeOK, UpdateOK, At
    <2>3. CASE req'[q] = Done
      BY <2>3 DEF SubscribeOK, UpdateOK, At, Done
    <2>4. QED BY <1>1, <2>2, <2>3
  <1>3. stale' \in [Sockets -> SUBSET Room]
    BY BroadcastInforms
  <1>4. Shapes'
    BY <1>1, <1>2, <1>3 DEF IInv, Shapes, db
  <1>5. /\ \A q \in Requests : \A t, rm : Joins(q, t, rm)' => Joins(q, t, rm)
        /\ \A q \in Requests : \A t, rm : Reads(q, t, rm)' => Reads(q, t, rm)
    BY <1>1 DEF Joins, Reads, At, Done
  <1>6. /\ \A t : Open(t)' <=> Open(t)
        /\ \A u : Active(u)' <=> Active(u)
        /\ \A u, rm : MayHear(u, rm)' <=> MayHear(u, rm)
    BY DEF Open, Active, MayHear, Hears, db
  <1>7. InformedOfChanges'
    <2>1. SUFFICES ASSUME NEW t \in Sockets, NEW rm \in told[t] \cap stale'[t]
                   PROVE  \/ \E e \in Pending' : e.room = rm
                          \/ rm = "project" /\ t \in emptied'
      BY DEF InformedOfChanges
    <2>2. (\E e \in Pending' : e.room = rm) \/ (rm = "project" /\ t \in emptied)
      BY BroadcastInforms
    <2>3. QED BY <2>2
  <1>8. QED BY <1>4, <1>5, <1>6, <1>7

LEMMA EmptyStep ==
  ASSUME IInv, NEW r \in Requests, At(r, "due"), Goto(r, Done), UNCHANGED db,
         req[r].event.revokes = "project", Empty(req[r].event)
  PROVE  IInv'
  <1>1. PICK e : e = req[r].event
    OBVIOUS
  <1>2. PICK S : S = {s \in SocketsOf(e.user) : Open(s)}
    OBVIOUS
  <1>3. /\ rooms' = [s \in Sockets |-> IF s \in S THEN rooms[s] \ {"project"} ELSE rooms[s]]
        /\ stale' = Broadcast(e.room)
        /\ emptied' = emptied \cup {s \in S : "project" \in told[s]}
        /\ missed' = [s \in Sockets |->
             IF s \in S THEN missed[s] \cup ({"project"} \cap Joining(s)) ELSE missed[s]]
        /\ UNCHANGED <<conn, told>>
    BY <1>1, <1>2 DEF Empty
  <1>4. S \subseteq Sockets /\ \A t \in Sockets : Open(t) /\ OwnerOf[t] = e.user => t \in S
    BY <1>2 DEF SocketsOf
  <1>5. /\ rooms \in [Sockets -> SUBSET Room]
        /\ missed \in [Sockets -> SUBSET Room]
        /\ emptied \subseteq Sockets
    BY DEF IInv, Shapes
  <1>6. /\ rooms' \in [Sockets -> SUBSET Room]
        /\ missed' \in [Sockets -> SUBSET Room]
        /\ emptied' \subseteq Sockets /\ emptied \subseteq emptied'
    BY <1>3, <1>4, <1>5 DEF Room
  <1>7. /\ Shapes'
        /\ \A q \in Requests : \A t, rm : Joins(q, t, rm)' => Joins(q, t, rm)
        /\ \A q \in Requests : \A t, rm : Reads(q, t, rm)' => Reads(q, t, rm)
        /\ \A t : Open(t)' <=> Open(t)
        /\ \A u : Active(u)' <=> Active(u)
        /\ \A u, rm : MayHear(u, rm)' <=> MayHear(u, rm)
        /\ InformedOfChanges'
    BY ListenStep, <1>1, <1>3, <1>6
  <1>8. /\ \A t \in Sockets : rooms'[t] \subseteq rooms[t]
        /\ \A t \in Sockets : \A rm :
             rm \in rooms[t] /\ rm \notin rooms'[t] => t \in S /\ rm = "project"
        /\ \A t \in S : "project" \notin rooms'[t]
        /\ \A t \in Sockets : missed[t] \subseteq missed'[t]
        /\ \A t \in S : "project" \in Joining(t) => "project" \in missed'[t]
    BY <1>3, <1>4
  <1>9. /\ \A u : SocketsDue(u) => SocketsDue(u)'
        /\ \A u, rm :
             RevocationDue(u, rm) /\ ~(e.user = u /\ rm = "project") => RevocationDue(u, rm)'
    BY DeliverReq, <1>1
  <1>10. \A t \in Sockets, rm \in Room :
           Open(t) /\ Accounted(t, rm) => Accounted(t, rm)' \/ (t \in S /\ rm = "project")
    BY <1>4, <1>8, <1>9 DEF Accounted
  <1>11. ClosedHasNothing'
    BY <1>3, <1>7, <1>8 DEF IInv, ClosedHasNothing
  <1>12. HeldAccounted'
    <2>1. SUFFICES ASSUME NEW t \in Sockets, NEW rm \in rooms'[t],
                          Open(t), ~MayHear(OwnerOf[t], rm)
                   PROVE  Accounted(t, rm)'
      BY <1>7 DEF HeldAccounted
    <2>2. rm \in rooms[t] /\ rm \in Room /\ ~(t \in S /\ rm = "project")
      BY <1>5, <1>8
    <2>3. Accounted(t, rm)
      BY <2>1, <2>2 DEF IInv, AccessAccounted, HeldAccounted
    <2>4. QED BY <1>10, <2>1, <2>2, <2>3
  <1>13. JoinAccounted'
    <2>1. SUFFICES ASSUME NEW q \in Requests, NEW t \in Sockets, NEW rm \in Room,
                          Joins(q, t, rm), Open(t), ~MayHear(OwnerOf[t], rm)
                   PROVE  Accounted(t, rm)'
      BY <1>7 DEF JoinAccounted
    <2>2. Accounted(t, rm)
      BY <2>1 DEF IInv, AccessAccounted, JoinAccounted
    <2>3. CASE t \in S /\ rm = "project"
      <3>1. "project" \in Joining(t)
        BY <2>1, <2>3 DEF Joining, Joins
      <3>2. QED BY <1>8, <2>3, <3>1 DEF Accounted
    <2>4. CASE ~(t \in S /\ rm = "project")
      BY <1>10, <2>1, <2>2, <2>4
    <2>5. QED BY <2>3, <2>4
  <1>14. RowAccounted'
    <2>1. SUFFICES ASSUME NEW q \in Requests, NEW t \in Sockets, NEW rm \in Room,
                          Reads(q, t, rm), Open(t), ~Active(OwnerOf[t])
                   PROVE  SocketsDue(OwnerOf[t])' \/ rm \in missed'[t]
      BY <1>7 DEF RowAccounted
    <2>2. SocketsDue(OwnerOf[t]) \/ rm \in missed[t]
      BY <2>1 DEF IInv, AccessAccounted, RowAccounted
    <2>3. QED BY <1>8, <1>9, <2>2
  <1>15. ToldHolds'
    <2>1. SUFFICES ASSUME NEW t \in Sockets, NEW rm \in told[t], rm \notin rooms'[t]
                   PROVE  rm = "project" /\ t \in emptied'
      BY <1>3 DEF ToldHolds
    <2>2. CASE rm \in rooms[t]
      BY <1>3, <1>8, <2>1, <2>2
    <2>3. CASE rm \notin rooms[t]
      BY <1>6, <2>3 DEF IInv, ClientsRight, ToldHolds
    <2>4. QED BY <2>2, <2>3
  <1>16. QED BY <1>7, <1>11, <1>12, <1>13, <1>14, <1>15 DEF IInv, AccessAccounted, ClientsRight

LEMMA TellStep ==
  ASSUME IInv, NEW r \in Requests, At(r, "due"), Goto(r, Done),
         req[r].event.revokes = "nothing",
         stale' = Broadcast(req[r].event.room),
         UNCHANGED <<db, conn, rooms, told, history>>
  PROVE  IInv'
  <1>1. /\ rooms \in [Sockets -> SUBSET Room]
        /\ missed \in [Sockets -> SUBSET Room]
        /\ emptied \subseteq Sockets
    BY DEF IInv, Shapes
  <1>2. UNCHANGED <<rooms, emptied, missed>>
    BY DEF history
  <1>3. /\ Shapes'
        /\ \A q \in Requests : \A t, rm : Joins(q, t, rm)' => Joins(q, t, rm)
        /\ \A q \in Requests : \A t, rm : Reads(q, t, rm)' => Reads(q, t, rm)
        /\ \A t : Open(t)' <=> Open(t)
        /\ \A u : Active(u)' <=> Active(u)
        /\ \A u, rm : MayHear(u, rm)' <=> MayHear(u, rm)
        /\ InformedOfChanges'
    BY ListenStep, <1>1, <1>2
  <1>4. /\ \A u : SocketsDue(u) => SocketsDue(u)'
        /\ \A u : \A rm \in Room : RevocationDue(u, rm) => RevocationDue(u, rm)'
    BY DeliverReq DEF Room
  <1>5. \A t \in Sockets, rm \in Room : Accounted(t, rm) => Accounted(t, rm)'
    BY <1>2, <1>4 DEF Accounted
  <1>6. ClosedHasNothing' /\ ToldHolds'
    BY <1>2, <1>3 DEF IInv, ClosedHasNothing, ClientsRight, ToldHolds
  <1>7. HeldAccounted'
    BY <1>1, <1>2, <1>3, <1>5 DEF IInv, AccessAccounted, HeldAccounted
  <1>8. JoinAccounted'
    BY <1>3, <1>5 DEF IInv, AccessAccounted, JoinAccounted
  <1>9. RowAccounted'
    BY <1>2, <1>3, <1>4 DEF IInv, AccessAccounted, RowAccounted
  <1>10. QED BY <1>3, <1>6, <1>7, <1>8, <1>9 DEF IInv, AccessAccounted, ClientsRight

LEMMA DeliverStep ==
  ASSUME IInv, NEW r \in Requests, Deliver(r)
  PROVE  IInv'
  <1>1. At(r, "due") /\ Goto(r, Done) /\ UNCHANGED db
    BY DEF Deliver
  <1>2. CASE Kick(req[r].event)
    BY KickStep, <1>1, <1>2
  <1>3. CASE req[r].event.revokes = "project" /\ Empty(req[r].event)
    BY EmptyStep, <1>1, <1>3
  <1>4. CASE /\ req[r].event.revokes = "nothing"
             /\ stale' = Broadcast(req[r].event.room)
             /\ UNCHANGED <<conn, rooms, told, history>>
    BY TellStep, <1>1, <1>4
  <1>5. QED BY <1>2, <1>3, <1>4 DEF Deliver

-----------------------------------------------------------------------------
(* The invariant. *)

LEMMA InitHolds == Init => IInv
  <1> SUFFICES ASSUME Init PROVE IInv
    OBVIOUS
  <1>1. Shapes
    BY RealtimeAssumption DEF Init, Shapes, Connection, SubscribeOK, UpdateOK, At, NoReq
  <1>2. ClosedHasNothing /\ ToldHolds /\ InformedOfChanges
    BY DEF Init, ClosedHasNothing, ToldHolds, InformedOfChanges
  <1>3. AccessAccounted
    BY DEF Init, AccessAccounted, HeldAccounted, JoinAccounted, RowAccounted, Joins, Reads, At,
           NoReq
  <1>4. QED BY <1>1, <1>2, <1>3 DEF IInv, ClientsRight

LEMMA NextHolds == IInv /\ [Next]_vars => IInv'
  <1> SUFFICES ASSUME IInv, [Next]_vars PROVE IInv'
    OBVIOUS
  <1>1. ASSUME NEW s \in Sockets, Connect(s) \/ Disconnect(s) \/ Expire(s)
        PROVE  IInv'
    BY ConnectStep, DisconnectStep, ExpireStep, <1>1
  <1>2. ASSUME NEW s \in Sockets, NEW room \in Room, Unsubscribe(s, room)
        PROVE  IInv'
    BY UnsubscribeStep, <1>2
  <1>3. ASSUME NEW r \in Requests, Free(r), NEW c \in Calls, Start(r, c)
        PROVE  IInv'
    <2>1. At(r, "new")
      BY <1>3 DEF Free
    <2>2. CASE ReadMembership(r, c)
      BY ReadMembershipStep, <2>1, <2>2
    <2>3. CASE Accept(r, c)
      BY AcceptStep, <2>1, <2>3
    <2>4. CASE ReadTarget(r, c)
      BY ReadTargetStep, <2>1, <2>4
    <2>5. CASE RemoveMember(r, c)
      BY RemoveMemberStep, <2>1, <2>5
    <2>6. CASE DropFromProject(r, c)
      BY DropStep, <2>1, <2>6
    <2>7. CASE Change(r, c)
      BY ChangeStep, <2>1, <2>7
    <2>8. CASE CheckAdded(r, c) \/ Typing(r, c) \/ Message(r, c)
      BY IdleSteps, <2>1, <2>8
    <2>9. QED BY <1>3, <2>2, <2>3, <2>4, <2>5, <2>6, <2>7, <2>8 DEF Start
  <1>4. ASSUME NEW r \in Requests, Proceed(r)
        PROVE  IInv'
    BY ReadProjectRowStep, JoinStep, UpdateMemberStep, AddToProjectStep, IdleSteps, <1>4
    DEF Proceed
  <1>5. ASSUME NEW r \in Requests, Deliver(r)
        PROVE  IInv'
    BY DeliverStep, <1>5
  <1>6. CASE UNCHANGED vars
    <2>1. UNCHANGED <<db, conn, rooms, req, client, history>>
      BY <1>6 DEF vars, db, client, history
    <2>2. Shapes'
      BY <2>1 DEF IInv, Shapes, SubscribeOK, UpdateOK, At, db, client, history
    <2>3. Steady /\ NewsAnnounced
      BY <2>1 DEF Steady, NewsAnnounced, client
    <2>4. QED BY QuietStep, SameAccess, <2>1, <2>2, <2>3 DEF client, history
  <1>7. QED BY <1>1, <1>2, <1>3, <1>4, <1>5, <1>6 DEF Next

(* The invariant holds of every behaviour. *)
THEOREM InvariantHolds == Spec => []IInv
  BY InitHolds, NextHolds, PTL DEF Spec

(* Whoever has lost access to a room is out of it or about to be put out    *)
(* (onMembershipChanged, onProjectMemberRemoved), whatever the number of   *)
(* users, connections and requests, but for the two exceptions that missed  *)
(* records.                                                                *)
THEOREM RoomsCorrect == Spec => []RoomsFollowAccess
  <1>1. IInv => RoomsFollowAccess
    <2>1. SUFFICES ASSUME IInv, NEW s \in Sockets, NEW room \in Room, Illicit(s, room)
                   PROVE  Accounted(s, room)
      BY DEF RoomsFollowAccess, Accounted
    <2>2. Open(s)
      BY <2>1 DEF Illicit, IInv, ClosedHasNothing
    <2>3. QED BY <2>1, <2>2 DEF Illicit, IInv, AccessAccounted, HeldAccounted
  <1>2. QED BY InvariantHolds, <1>1, PTL

(* A client with a subscription has fetched every change or is about to be  *)
(* told (broadcast), unless the project's room was emptied for it.          *)
THEOREM InformedCorrect == Spec => []InformedOfChanges
  <1>1. IInv => InformedOfChanges
    BY DEF IInv, ClientsRight
  <1>2. QED BY InvariantHolds, <1>1, PTL

-----------------------------------------------------------------------------
(* Typing. *)

(* A viewer of somebody's typing is one of the peers that a connected socket *)
(* still tells, while the viewer is a member.                              *)
Vouched(t, u) ==
  /\ Active(OwnerOf[t])
  /\ \E s \in SocketsOf(u) : typing[s] /\ Open(s) /\ OwnerOf[t] \in access[s].peers

Excused(t, u) ==
  \/ \E s \in SocketsOf(u) : s \in ghosts
  \/ RevocationDue(OwnerOf[t], "workspace")

CheckOK(r) ==
  /\ At(r, "peers") \/ At(r, "emit") =>
       req[r].call.sock \in Sockets /\ req[r].call.on \in BOOLEAN
  /\ At(r, "emit") => req[r].peers \subseteq Users

TypingShapes ==
  /\ access \in [Sockets -> Access]
  /\ typing \in [Sockets -> BOOLEAN]
  /\ shows \in [Sockets -> SUBSET Users]
  /\ \A r \in Requests : CheckOK(r)

ClosedShowsNothing == \A t \in Sockets : ~Open(t) => shows[t] = {}

TypingAccounted == \A t \in Sockets : \A u \in shows[t] : Vouched(t, u) \/ Excused(t, u)

TypingInv == TypingShapes /\ ClosedShowsNothing /\ TypingAccounted

LEMMA ChecksOK ==
  ASSUME Shapes, TypingShapes, NEW r \in Requests, NEW x, Goto(r, x),
         x.pc \notin {"peers", "emit"}
  PROVE  \A q \in Requests : CheckOK(q)'
  <1>1. /\ req'[r] = x
        /\ \A q \in Requests : q # r => req'[q] = req[q]
    BY GotoReq DEF Shapes
  <1>2. TAKE q \in Requests
  <1>3. CheckOK(q)
    BY DEF TypingShapes
  <1>4. CASE q = r
    BY <1>1, <1>4 DEF CheckOK, At
  <1>5. CASE q # r
    <2>1. req'[q] = req[q]
      BY <1>1, <1>5
    <2>2. QED BY <1>3, <2>1 DEF CheckOK, At
  <1>6. QED BY <1>4, <1>5

(* A step that neither closes a socket nor signals typing, and whoever stops *)
(* being a member in it is excused.                                        *)
LEMMA TypingKept ==
  ASSUME TypingInv, TypingShapes',
         UNCHANGED typing,
         \A s \in Sockets : Open(s) => Open(s)',
         \A s \in Sockets : access'[s].peers = access[s].peers,
         \A t \in Sockets : shows'[t] \subseteq shows[t],
         ghosts \subseteq ghosts',
         \A v : RevocationDue(v, "workspace") => RevocationDue(v, "workspace")',
         \A t \in Sockets : \A u \in shows[t] :
           Vouched(t, u) /\ ~Active(OwnerOf[t])' => Excused(t, u)'
  PROVE  TypingInv'
  <1>1. ClosedShowsNothing'
    <2>1. SUFFICES ASSUME NEW t \in Sockets, ~Open(t)' PROVE shows'[t] = {}
      BY DEF ClosedShowsNothing
    <2>2. shows[t] = {}
      BY <2>1 DEF TypingInv, ClosedShowsNothing
    <2>3. QED BY <2>2
  <1>2. TypingAccounted'
    <2>1. SUFFICES ASSUME NEW t \in Sockets, NEW u \in shows'[t]
                   PROVE  Vouched(t, u)' \/ Excused(t, u)'
      BY DEF TypingAccounted
    <2>2. u \in shows[t]
      BY <2>1
    <2>3. CASE Excused(t, u)
      BY <2>3 DEF Excused, SocketsOf
    <2>4. CASE Vouched(t, u) /\ ~Active(OwnerOf[t])'
      BY <2>2, <2>4
    <2>5. CASE Vouched(t, u) /\ Active(OwnerOf[t])'
      <3>1. PICK s \in SocketsOf(u) : typing[s] /\ Open(s) /\ OwnerOf[t] \in access[s].peers
        BY <2>5 DEF Vouched
      <3>2. s \in Sockets /\ typing'[s] /\ Open(s)' /\ OwnerOf[t] \in access'[s].peers
        BY <3>1 DEF SocketsOf
      <3>3. QED BY <2>5, <3>1, <3>2 DEF Vouched, SocketsOf
    <2>6. QED BY <2>2, <2>3, <2>4, <2>5 DEF TypingInv, TypingAccounted
  <1>3. QED BY <1>1, <1>2 DEF TypingInv

(* The same of a request's step. *)
LEMMA RequestKeepsTyping ==
  ASSUME IInv, TypingInv, NEW r \in Requests, NEW x, Goto(r, x), ~At(r, "due"),
         x.pc \notin {"peers", "emit"},
         UNCHANGED <<conn, access, typing, shows>>, ghosts \subseteq ghosts',
         \A t \in Sockets : \A u \in shows[t] :
           Vouched(t, u) /\ ~Active(OwnerOf[t])' => Excused(t, u)'
  PROVE  TypingInv'
  <1>1. TypingShapes'
    BY ChecksOK DEF TypingInv, TypingShapes, IInv
  <1>2. \A q \in Requests : At(q, "due") => req'[q] = req[q]
    BY GotoReq DEF IInv, Shapes
  <1>3. \A v : RevocationDue(v, "workspace") => RevocationDue(v, "workspace")'
    BY KeepDue, <1>2
  <1>4. QED BY TypingKept, <1>1, <1>3 DEF Open

(* The requests that say nothing of anybody's typing. *)
LEMMA OthersKeepTyping ==
  ASSUME IInv, TypingInv, NEW r \in Requests, NEW c \in Calls, At(r, "new"),
         \/ ReadMembership(r, c) \/ ReadTarget(r, c) \/ CheckAdded(r, c)
         \/ DropFromProject(r, c) \/ Change(r, c) \/ Message(r, c) \/ Accept(r, c)
  PROVE  TypingInv'
  <1>1. ~At(r, "due") /\ UNCHANGED <<conn, access, typing, shows, ghosts>>
    BY DEF At, ReadMembership, ReadTarget, CheckAdded, DropFromProject, Change, Message, Accept,
           chat
  <1>2. \E x : Goto(r, x) /\ x.pc \notin {"peers", "emit"}
    <2>1. CASE ReadMembership(r, c) \/ CheckAdded(r, c)
      BY <2>1 DEF ReadMembership, CheckAdded, Working, Done
    <2>2. CASE ReadTarget(r, c)
      BY <2>2 DEF ReadTarget
    <2>3. CASE DropFromProject(r, c) \/ Change(r, c) \/ Message(r, c) \/ Accept(r, c)
      <3>1. \A e : Due(e).pc = "due"
        BY DEF Due
      <3>2. \E e : Goto(r, Due(e))
        BY <2>3 DEF DropFromProject, Change, Message, Accept, Publish
      <3>3. QED BY <3>1, <3>2
    <2>4. QED BY <2>1, <2>2, <2>3
  <1>3. \A v \in Users : Active(v) => Active(v)'
    <2>1. CASE Accept(r, c)
      <3>1. c.user \in Users /\ member \in [Users -> Membership]
        BY <2>1, CallFacts DEF Accept, IInv, Shapes
      <3>2. member' = [member EXCEPT ![c.user] =
                         [id |-> r, role |-> c.role, status |-> "active"]]
        BY <2>1 DEF Accept
      <3>3. QED BY <3>1, <3>2 DEF Active
    <2>2. CASE UNCHANGED member
      BY <2>2 DEF Active
    <2>3. QED BY <2>1, <2>2 DEF ReadMembership, ReadTarget, CheckAdded, DropFromProject, Change,
                                Message, db
  <1>4. \A t \in Sockets : \A u \in shows[t] : ~(Vouched(t, u) /\ ~Active(OwnerOf[t])')
    BY <1>3, RealtimeAssumption DEF Vouched
  <1>5. QED BY RequestKeepsTyping, <1>1, <1>2, <1>4

LEMMA SecondStepsKeepTyping ==
  ASSUME IInv, TypingInv, NEW r \in Requests,
         ReadProjectRow(r) \/ Join(r) \/ AddToProject(r)
  PROVE  TypingInv'
  <1>1. ~At(r, "due") /\ UNCHANGED <<conn, access, typing, shows, ghosts, member>>
    BY DEF At, ReadProjectRow, Join, AddToProject, chat, db
  <1>2. \E x : Goto(r, x) /\ x.pc \notin {"peers", "emit"}
    BY DEF ReadProjectRow, Join, AddToProject, Publish, Working, Done, Due
  <1>3. \A t \in Sockets : \A u \in shows[t] : ~(Vouched(t, u) /\ ~Active(OwnerOf[t])')
    BY <1>1 DEF Vouched, Active
  <1>4. QED BY RequestKeepsTyping, <1>1, <1>2, <1>3

(* An event that closes the user's sockets excuses what they show. *)
LEMMA PublishedExcuses ==
  ASSUME Shapes, NEW r \in Requests, NEW v, Goto(r, Due(About("workspace", v, "sockets"))),
         NEW t \in Sockets, OwnerOf[t] = v, NEW u
  PROVE  Excused(t, u)'
  <1>1. req'[r] = Due(About("workspace", v, "sockets"))
    BY GotoReq DEF Shapes
  <1>2. /\ At(r, "due")'
        /\ req'[r].event.user = v /\ req'[r].event.revokes = "sockets"
    BY <1>1 DEF At, Due, About
  <1>3. RevocationDue(v, "workspace")'
    BY DueByRequestNext, <1>2
  <1>4. QED BY <1>3 DEF Excused

LEMMA RemoveMemberKeepsTyping ==
  ASSUME IInv, TypingInv, NEW r \in Requests, NEW c \in Calls, At(r, "new"), RemoveMember(r, c)
  PROVE  TypingInv'
  <1>1. /\ ~At(r, "due") /\ UNCHANGED <<conn, access, typing, shows, ghosts>>
        /\ Goto(r, Due(About("workspace", c.user, "sockets")))
        /\ member' = [member EXCEPT ![c.user] = NoMember]
    BY DEF At, RemoveMember, Publish, chat
  <1>2. \A v \in Users \ {c.user} : Active(v) => Active(v)'
    BY <1>1 DEF IInv, Shapes, Active
  <1>3. ASSUME NEW t \in Sockets, NEW u \in shows[t], Vouched(t, u), ~Active(OwnerOf[t])'
        PROVE  Excused(t, u)'
    <2>1. OwnerOf[t] = c.user
      BY <1>2, <1>3, RealtimeAssumption DEF Vouched
    <2>2. QED BY <1>1, <2>1, PublishedExcuses DEF IInv
  <1>4. Due(About("workspace", c.user, "sockets")).pc = "due"
    BY DEF Due
  <1>5. QED BY RequestKeepsTyping, <1>1, <1>3, <1>4

LEMMA UpdateMemberKeepsTyping ==
  ASSUME IInv, TypingInv, NEW r \in Requests, UpdateMember(r)
  PROVE  TypingInv'
  <1> DEFINE v == req[r].call.user
             dto == req[r].call.dto
             target == req[r].target
             m == Updated(member[v], dto, target)
  <1>1. /\ At(r, "write") /\ ~At(r, "due")
        /\ member' = [member EXCEPT ![v] = m]
        /\ UNCHANGED <<conn, access, typing, shows>>
        /\ ghosts' = IF Active(v) /\ m.status # "active" /\ ~Announced(dto, target)
                     THEN ghosts \cup {s \in Sockets : typing[s] /\ v \in access[s].peers}
                     ELSE ghosts
    BY DEF UpdateMember, At
  <1>2. v \in Users /\ member \in [Users -> Membership]
    BY <1>1 DEF IInv, Shapes, UpdateOK
  <1>3. member'[v] = m /\ \A w \in Users \ {v} : Active(w) => Active(w)'
    BY <1>1, <1>2 DEF Active
  <1>4. CASE Announced(dto, target)
    <2>1. Goto(r, Due(About("workspace", v, "sockets")))
      BY <1>4 DEF UpdateMember, Publish
    <2>2. ASSUME NEW t \in Sockets, NEW u \in shows[t], Vouched(t, u), ~Active(OwnerOf[t])'
          PROVE  Excused(t, u)'
      <3>1. OwnerOf[t] = v
        BY <1>3, <2>2, RealtimeAssumption DEF Vouched
      <3>2. QED BY <2>1, <3>1, PublishedExcuses DEF IInv
    <2>3. Due(About("workspace", v, "sockets")).pc = "due"
      BY DEF Due
    <2>4. QED BY RequestKeepsTyping, <1>1, <2>1, <2>2, <2>3
  <1>5. CASE ~Announced(dto, target)
    <2>1. Goto(r, Done) /\ Done.pc = "done"
      BY <1>5 DEF UpdateMember, Done
    <2>2. ASSUME NEW t \in Sockets, NEW u \in shows[t], Vouched(t, u), ~Active(OwnerOf[t])'
          PROVE  Excused(t, u)'
      <3>1. OwnerOf[t] = v /\ Active(v)
        BY <1>3, <2>2, RealtimeAssumption DEF Vouched
      <3>2. m.status # "active"
        BY <1>3, <2>2, <3>1 DEF Active
      <3>3. PICK s \in SocketsOf(u) : typing[s] /\ OwnerOf[t] \in access[s].peers
        BY <2>2 DEF Vouched
      <3>4. s \in ghosts'
        BY <1>1, <1>5, <3>1, <3>2, <3>3 DEF SocketsOf
      <3>5. QED BY <3>3, <3>4 DEF Excused, SocketsOf
    <2>3. QED BY RequestKeepsTyping, <1>1, <2>1, <2>2
  <1>6. QED BY <1>4, <1>5

-----------------------------------------------------------------------------
(* Typing is signalled. *)

(* What follows a check, whatever its age: whoever has seen the typing is   *)
(* told, or left out.                                                      *)
LEMMA ForwardKeepsTyping ==
  ASSUME TypingInv, TypingShapes', NEW s \in Sockets, NEW on \in BOOLEAN,
         NEW peers \in SUBSET Users, Forward(s, on, peers),
         UNCHANGED <<conn, member>>,
         access'[s].peers = peers,
         \A q \in Sockets \ {s} : access'[q].peers = access[q].peers,
         \A v : RevocationDue(v, "workspace") => RevocationDue(v, "workspace")'
  PROVE  TypingInv'
  <1>1. /\ \A q : Open(q)' <=> Open(q)
        /\ \A v : Active(v)' <=> Active(v)
    BY DEF Open, Active
  <1>2. /\ typing \in [Sockets -> BOOLEAN]
        /\ shows \in [Sockets -> SUBSET Users]
    BY DEF TypingInv, TypingShapes
  <1>3. /\ \A q \in Sockets \ {s} : typing'[q] = typing[q]
        /\ ghosts \subseteq ghosts'
        /\ LeftOut(s, peers) \subseteq ghosts'
    BY <1>2 DEF Forward, LeftOut
  <1>4. \A t \in Sockets : shows'[t] # shows[t] => Open(t)
    BY <1>2 DEF Forward, Shown
  <1>5. ClosedShowsNothing'
    <2>1. SUFFICES ASSUME NEW t \in Sockets, ~Open(t) PROVE shows'[t] = {}
      BY <1>1 DEF ClosedShowsNothing
    <2>2. QED BY <1>4, <2>1 DEF TypingInv, ClosedShowsNothing
  <1>6. ASSUME NEW t \in Sockets, NEW u \in shows'[t], u \notin shows[t]
        PROVE  Vouched(t, u)' \/ Excused(t, u)'
    <2>1. /\ on /\ u = OwnerOf[s] /\ OwnerOf[t] \in peers
          /\ typing' = [typing EXCEPT ![s] = on]
          /\ ghosts' = ghosts \cup IF on /\ ~(Open(s) /\ \A v \in peers : Active(v)) THEN {s}
                                   ELSE LeftOut(s, peers)
      BY <1>2, <1>6 DEF Forward, Shown
    <2>2. s \in SocketsOf(u)
      BY <2>1 DEF SocketsOf
    <2>3. CASE Open(s) /\ \A v \in peers : Active(v)
      BY <1>1, <1>2, <2>1, <2>2, <2>3 DEF Vouched
    <2>4. CASE ~(Open(s) /\ \A v \in peers : Active(v))
      BY <2>1, <2>2, <2>4 DEF Excused, SocketsOf
    <2>5. QED BY <2>3, <2>4
  <1>7. ASSUME NEW t \in Sockets, NEW u \in shows'[t], u \in shows[t], Vouched(t, u)
        PROVE  Vouched(t, u)' \/ Excused(t, u)'
    <2>1. PICK q \in SocketsOf(u) : typing[q] /\ Open(q) /\ OwnerOf[t] \in access[q].peers
      BY <1>7 DEF Vouched
    <2>2. q \in Sockets /\ OwnerOf[q] = u /\ Active(OwnerOf[t])
      BY <1>7, <2>1 DEF SocketsOf, Vouched
    <2>3. CASE q # s
      BY <1>1, <1>3, <2>1, <2>2, <2>3 DEF Vouched, SocketsOf
    <2>4. CASE q = s /\ OwnerOf[t] \notin peers
      <3>1. s \in LeftOut(s, peers)
        BY <2>1, <2>2, <2>4 DEF LeftOut
      <3>2. QED BY <1>3, <2>2, <2>4, <3>1 DEF Excused, SocketsOf
    <2>5. CASE q = s /\ OwnerOf[t] \in peers
      <3>1. Open(t)
        BY <1>7 DEF TypingInv, ClosedShowsNothing
      <3>2. CASE UNCHANGED typing
        BY <1>1, <2>1, <2>2, <2>5, <3>2 DEF Vouched, SocketsOf
      <3>3. CASE /\ typing' = [typing EXCEPT ![s] = on]
                 /\ shows' = Shown(OwnerOf[s], peers, on)
        <4>1. on
          BY <1>7, <2>2, <2>5, <3>1, <3>3 DEF Shown
        <4>2. typing'[s]
          BY <1>2, <3>3, <4>1
        <4>3. QED BY <1>1, <2>1, <2>2, <2>5, <4>2 DEF Vouched, SocketsOf
      <3>4. QED BY <3>2, <3>3 DEF Forward
    <2>6. QED BY <2>3, <2>4, <2>5
  <1>8. ASSUME NEW t \in Sockets, NEW u, Excused(t, u)
        PROVE  Excused(t, u)'
    BY <1>3, <1>8 DEF Excused, SocketsOf
  <1>9. TypingAccounted'
    BY <1>2, <1>6, <1>7, <1>8 DEF TypingAccounted, TypingInv
  <1>10. QED BY <1>5, <1>9 DEF TypingInv

LEMMA ForwardTypes ==
  ASSUME TypingShapes, NEW s \in Sockets, NEW on \in BOOLEAN, NEW peers, Forward(s, on, peers)
  PROVE  typing' \in [Sockets -> BOOLEAN] /\ shows' \in [Sockets -> SUBSET Users]
  <1>1. typing \in [Sockets -> BOOLEAN] /\ shows \in [Sockets -> SUBSET Users]
    BY DEF TypingShapes
  <1>2. OwnerOf[s] \in Users
    BY RealtimeAssumption
  <1>3. Shown(OwnerOf[s], peers, on) \in [Sockets -> SUBSET Users]
    <2>1. \A t \in Sockets : Shown(OwnerOf[s], peers, on)[t] \subseteq Users
      BY <1>1, <1>2 DEF Shown
    <2>2. QED BY <2>1 DEF Shown
  <1>4. QED BY <1>1, <1>3 DEF Forward

LEMMA TypingStep ==
  ASSUME IInv, TypingInv, NEW r \in Requests, NEW c \in Calls, At(r, "new"), Typing(r, c)
  PROVE  TypingInv'
  <1>1. /\ ~At(r, "due") /\ UNCHANGED <<conn, access, member>>
        /\ c.sock \in Sockets /\ c.on \in BOOLEAN
    BY CallFacts DEF At, Typing, db
  <1>2. \A q \in Requests : q # r => req'[q] = req[q]
    BY GotoReq DEF Typing, IInv, Shapes
  <1>3. \A v : RevocationDue(v, "workspace") => RevocationDue(v, "workspace")'
    BY KeepDue, <1>1, <1>2
  <1>4. CASE /\ Forward(c.sock, c.on, access[c.sock].peers)
             /\ Goto(r, Done)
    <2>1. \A q \in Requests : CheckOK(q)'
      BY ChecksOK, <1>4 DEF IInv, TypingInv, Done
    <2>2. TypingShapes'
      BY ForwardTypes, <1>1, <1>4, <2>1 DEF TypingInv, TypingShapes
    <2>3. access[c.sock].peers \in SUBSET Users
      BY <1>1 DEF TypingInv, TypingShapes, Access
    <2>4. QED BY ForwardKeepsTyping, <1>1, <1>3, <1>4, <2>2, <2>3
  <1>5. CASE /\ Goto(r, Working("peers", c))
             /\ UNCHANGED <<typing, shows, ghosts>>
    <2>1. req'[r] = Working("peers", c)
      BY GotoReq, <1>5 DEF IInv, Shapes
    <2>2. \A q \in Requests : CheckOK(q)'
      BY <1>1, <1>2, <2>1 DEF TypingInv, TypingShapes, CheckOK, At, Working
    <2>3. TypingShapes'
      BY <1>1, <1>5, <2>2 DEF TypingInv, TypingShapes
    <2>4. \A t \in Sockets : \A u \in shows[t] : ~(Vouched(t, u) /\ ~Active(OwnerOf[t])')
      BY <1>1 DEF Vouched, Active
    <2>5. QED BY TypingKept, <1>1, <1>3, <1>5, <2>3, <2>4 DEF Open
  <1>6. QED BY <1>4, <1>5 DEF Typing

LEMMA ReadPeersStep ==
  ASSUME IInv, TypingInv, NEW r \in Requests, ReadPeers(r)
  PROVE  TypingInv'
  <1> DEFINE s == req[r].call.sock
  <1>1. /\ At(r, "peers") /\ ~At(r, "due")
        /\ UNCHANGED <<conn, member, typing, shows>>
        /\ s \in Sockets
        /\ access \in [Sockets -> Access]
    BY DEF At, ReadPeers, db, TypingInv, TypingShapes, CheckOK
  <1>2. \A q \in Requests : q # r => req'[q] = req[q]
    BY GotoReq DEF ReadPeers, IInv, Shapes
  <1>3. \A v : RevocationDue(v, "workspace") => RevocationDue(v, "workspace")'
    BY KeepDue, <1>1, <1>2
  <1>4. CASE /\ Goto(r, [pc |-> "emit", call |-> req[r].call, peers |-> Audience(OwnerOf[s])])
             /\ UNCHANGED <<access, ghosts>>
    <2>1. /\ req'[r] = [pc |-> "emit", call |-> req[r].call, peers |-> Audience(OwnerOf[s])]
          /\ Audience(OwnerOf[s]) \subseteq Users
      BY GotoReq, <1>4 DEF IInv, Shapes, Audience
    <2>2. \A q \in Requests : CheckOK(q)'
      BY <1>1, <1>2, <2>1 DEF TypingInv, TypingShapes, CheckOK, At
    <2>3. TypingShapes'
      BY <1>1, <1>4, <2>2 DEF TypingInv, TypingShapes
    <2>4. \A t \in Sockets : \A u \in shows[t] : ~(Vouched(t, u) /\ ~Active(OwnerOf[t])')
      BY <1>1 DEF Vouched, Active
    <2>5. QED BY TypingKept, <1>1, <1>3, <1>4, <2>3, <2>4 DEF Open
  <1>5. CASE /\ Goto(r, Done)
             /\ access' = [access EXCEPT ![s] = NoPeers]
             /\ ghosts' = IF typing[s] THEN ghosts \cup {s} ELSE ghosts
    <2>1. \A q \in Requests : CheckOK(q)'
      BY ChecksOK, <1>5 DEF IInv, TypingInv, Done
    <2>2. access' \in [Sockets -> Access]
      BY <1>1, <1>5 DEF Access, NoPeers
    <2>3. TypingShapes'
      BY <1>1, <2>1, <2>2 DEF TypingInv, TypingShapes
    <2>4. ClosedShowsNothing'
      BY <1>1 DEF TypingInv, ClosedShowsNothing, Open
    <2>5. ASSUME NEW t \in Sockets, NEW u \in shows[t]
          PROVE  Vouched(t, u)' \/ Excused(t, u)'
      <3>1. CASE Excused(t, u)
        BY <1>3, <1>5, <3>1 DEF Excused, SocketsOf
      <3>2. CASE Vouched(t, u)
        <4>1. PICK q \in SocketsOf(u) : typing[q] /\ Open(q) /\ OwnerOf[t] \in access[q].peers
          BY <3>2 DEF Vouched
        <4>2. CASE q = s
          BY <1>5, <4>1, <4>2 DEF Excused, SocketsOf
        <4>3. CASE q # s
          <5>1. access'[q] = access[q]
            BY <1>1, <1>5, <4>1, <4>3 DEF SocketsOf
          <5>2. QED BY <1>1, <3>2, <4>1, <5>1 DEF Vouched, SocketsOf, Open, Active
        <4>4. QED BY <4>2, <4>3
      <3>3. QED BY <3>1, <3>2 DEF TypingInv, TypingAccounted
    <2>6. QED BY <1>1, <2>3, <2>4, <2>5 DEF TypingInv, TypingAccounted
  <1>6. QED BY <1>4, <1>5 DEF ReadPeers

LEMMA ForwardCheckedStep ==
  ASSUME IInv, TypingInv, NEW r \in Requests, ForwardChecked(r)
  PROVE  TypingInv'
  <1> DEFINE s == req[r].call.sock
             peers == req[r].peers
  <1>1. /\ At(r, "emit") /\ ~At(r, "due") /\ UNCHANGED <<conn, member>>
        /\ Goto(r, Done)
        /\ Forward(s, req[r].call.on, peers)
        /\ access' = [access EXCEPT ![s] = [known |-> TRUE, fresh |-> TRUE, peers |-> peers]]
    BY DEF At, ForwardChecked, db
  <1>2. /\ s \in Sockets /\ peers \in SUBSET Users /\ access \in [Sockets -> Access]
        /\ req[r].call.on \in BOOLEAN
    BY <1>1 DEF TypingInv, TypingShapes, CheckOK
  <1>3. \A q \in Requests : q # r => req'[q] = req[q]
    BY GotoReq, <1>1 DEF IInv, Shapes
  <1>4. \A v : RevocationDue(v, "workspace") => RevocationDue(v, "workspace")'
    BY KeepDue, <1>1, <1>3
  <1>5. \A q \in Requests : CheckOK(q)'
    BY ChecksOK, <1>1 DEF IInv, TypingInv, Done
  <1>6. access' \in [Sockets -> Access]
    BY <1>1, <1>2 DEF Access
  <1>7. TypingShapes'
    BY ForwardTypes, <1>1, <1>2, <1>5, <1>6 DEF TypingInv, TypingShapes
  <1>8. /\ access'[s].peers = peers
        /\ \A q \in Sockets \ {s} : access'[q].peers = access[q].peers
    BY <1>1, <1>2
  <1>9. QED BY ForwardKeepsTyping, <1>1, <1>2, <1>4, <1>7, <1>8

-----------------------------------------------------------------------------
(* Sockets open and close. *)

LEMMA SocketsKeepTyping ==
  ASSUME IInv, TypingInv, NEW s \in Sockets,
         Connect(s) \/ Expire(s) \/ \E room \in Room : Unsubscribe(s, room)
  PROVE  TypingInv'
  <1>1. UNCHANGED <<member, req, typing, shows, ghosts>>
    BY DEF Connect, Expire, Unsubscribe, db, chat
  <1>2. /\ access \in [Sockets -> Access]
        /\ \A q \in Requests : CheckOK(q)
        /\ conn \in [Sockets -> Connection]
    BY DEF TypingInv, TypingShapes, IInv, Shapes
  <1>3. \A q \in Requests : CheckOK(q)'
    BY <1>1, <1>2 DEF CheckOK, At
  <1>4. access' \in [Sockets -> Access] /\ \A q \in Sockets : access'[q].peers = access[q].peers
    <2>1. CASE access' = [access EXCEPT ![s].fresh = FALSE]
      <3>1. access[s] \in Access
        BY <1>2
      <3>2. access'[s] = [access[s] EXCEPT !.fresh = FALSE]
        BY <1>2, <2>1
      <3>3. access'[s] \in Access /\ access'[s].peers = access[s].peers
        BY <3>1, <3>2 DEF Access
      <3>4. \A q \in Sockets \ {s} : access'[q] = access[q]
        BY <1>2, <2>1
      <3>5. access' = [q \in Sockets |-> access'[q]]
        BY <1>2, <2>1
      <3>6. QED BY <1>2, <3>3, <3>4, <3>5
    <2>2. CASE UNCHANGED access
      BY <1>2, <2>2
    <2>3. QED BY <2>1, <2>2 DEF Connect, Expire, Unsubscribe, chat
  <1>5. TypingShapes'
    BY <1>1, <1>3, <1>4 DEF TypingInv, TypingShapes
  <1>6. \A q \in Sockets : Open(q) => Open(q)'
    BY <1>2 DEF Open, Connect, Expire, Unsubscribe
  <1>7. \A v : RevocationDue(v, "workspace") => RevocationDue(v, "workspace")'
    BY <1>1, KeepDue
  <1>8. \A t \in Sockets : \A u \in shows[t] : ~(Vouched(t, u) /\ ~Active(OwnerOf[t])')
    BY <1>1 DEF Vouched, Active
  <1>9. QED BY TypingKept, <1>1, <1>4, <1>5, <1>6, <1>7, <1>8

LEMMA CloseKeepsTyping ==
  ASSUME IInv, TypingInv, NEW S \in SUBSET Sockets, Close(S),
         UNCHANGED <<access, typing, ghosts, member>>,
         \A q \in Requests : CheckOK(q)',
         \A t \in Sockets \ S : Open(t) /\ RevocationDue(OwnerOf[t], "workspace") =>
           RevocationDue(OwnerOf[t], "workspace")'
  PROVE  TypingInv'
  <1>1. /\ conn' = [s \in Sockets |-> IF s \in S THEN "closed" ELSE conn[s]]
        /\ shows' = [t \in Sockets |-> IF t \in S THEN {} ELSE Cleared(S)[t]]
        /\ shows \in [Sockets -> SUBSET Users]
    BY DEF Close, TypingInv, TypingShapes
  <1>2. \A t \in Sockets : shows'[t] \subseteq shows[t]
    BY <1>1 DEF Cleared
  <1>3. TypingShapes'
    <2>1. shows' \in [Sockets -> SUBSET Users]
      BY <1>1, <1>2
    <2>2. QED BY <2>1 DEF TypingInv, TypingShapes
  <1>4. /\ \A t \in Sockets \ S : Open(t) => Open(t)'
        /\ \A t \in Sockets : ~Open(t)' => t \in S \/ ~Open(t)
    BY <1>1 DEF Open
  <1>5. ClosedShowsNothing'
    <2>1. SUFFICES ASSUME NEW t \in Sockets, ~Open(t)' PROVE shows'[t] = {}
      BY DEF ClosedShowsNothing
    <2>2. QED BY <1>1, <1>2, <1>4, <2>1 DEF TypingInv, ClosedShowsNothing
  <1>6. TypingAccounted'
    <2>1. SUFFICES ASSUME NEW t \in Sockets, NEW u \in shows'[t]
                   PROVE  Vouched(t, u)' \/ Excused(t, u)'
      BY DEF TypingAccounted
    <2>2. t \notin S /\ u \in Cleared(S)[t] /\ u \in shows[t] /\ u \in Users
      BY <1>1, <1>2, <2>1
    <2>3. Open(t)
      BY <2>2 DEF TypingInv, ClosedShowsNothing
    <2>4. CASE Excused(t, u)
      BY <2>2, <2>3, <2>4 DEF Excused, SocketsOf
    <2>5. CASE Vouched(t, u)
      <3>1. PICK q \in SocketsOf(u) : typing[q] /\ Open(q) /\ OwnerOf[t] \in access[q].peers
        BY <2>5 DEF Vouched
      <3>2. q \notin S
        BY <2>2, <3>1 DEF Cleared, SocketsOf
      <3>3. Open(q)'
        BY <1>4, <3>1, <3>2 DEF SocketsOf
      <3>4. QED BY <2>5, <3>1, <3>3 DEF Vouched, Active, SocketsOf
    <2>6. QED BY <2>2, <2>4, <2>5 DEF TypingInv, TypingAccounted
  <1>7. QED BY <1>3, <1>5, <1>6 DEF TypingInv

LEMMA DisconnectKeepsTyping ==
  ASSUME IInv, TypingInv, NEW s \in Sockets, Disconnect(s)
  PROVE  TypingInv'
  <1>1. Close({s}) /\ UNCHANGED <<access, typing, ghosts, member, req>>
    BY DEF Disconnect, db
  <1>2. \A q \in Requests : CheckOK(q)'
    BY <1>1 DEF TypingInv, TypingShapes, CheckOK, At
  <1>3. \A v : RevocationDue(v, "workspace") => RevocationDue(v, "workspace")'
    BY <1>1, KeepDue
  <1>4. QED BY CloseKeepsTyping, <1>1, <1>2, <1>3

LEMMA DeliverKeepsTyping ==
  ASSUME IInv, TypingInv, NEW r \in Requests, Deliver(r)
  PROVE  TypingInv'
  <1>1. At(r, "due") /\ Goto(r, Done) /\ UNCHANGED <<member, access, typing, ghosts>>
    BY DEF Deliver, db
  <1>2. \A q \in Requests : CheckOK(q)'
    BY ChecksOK, <1>1 DEF IInv, TypingInv, Done
  <1>3. PICK e : e = req[r].event
    OBVIOUS
  <1>4. CASE Kick(e)
    <2>1. PICK S : S = {s \in SocketsOf(e.user) : Open(s)}
      OBVIOUS
    <2>2. Close(S) /\ S \in SUBSET Sockets
      BY <1>4, <2>1 DEF Kick, SocketsOf
    <2>3. \A t \in Sockets \ S : Open(t) => OwnerOf[t] # e.user
      BY <2>1 DEF SocketsOf
    <2>4. \A t \in Sockets \ S : Open(t) /\ RevocationDue(OwnerOf[t], "workspace") =>
            RevocationDue(OwnerOf[t], "workspace")'
      BY DeliverReq, <1>1, <1>3, <2>3
    <2>5. QED BY CloseKeepsTyping, <1>1, <1>2, <2>2, <2>4
  <1>5. CASE e.revokes \in {"project", "nothing"} /\ UNCHANGED conn
             /\ shows' \in [Sockets -> SUBSET Users]
             /\ \A t \in Sockets : shows'[t] \subseteq shows[t]
    <2>1. TypingShapes'
      BY <1>1, <1>2, <1>5 DEF TypingInv, TypingShapes
    <2>2. \A v : RevocationDue(v, "workspace") => RevocationDue(v, "workspace")'
      BY DeliverReq, <1>1, <1>3, <1>5
    <2>3. \A t \in Sockets : \A u \in shows[t] : ~(Vouched(t, u) /\ ~Active(OwnerOf[t])')
      BY <1>1 DEF Vouched, Active
    <2>4. QED BY TypingKept, <1>1, <1>5, <2>1, <2>2, <2>3 DEF Open
  <1>6. shows \in [Sockets -> SUBSET Users]
    BY DEF TypingInv, TypingShapes
  <1>7. CASE e.revokes = "project" /\ Empty(e)
    BY <1>5, <1>6, <1>7 DEF Empty
  <1>8. CASE e.revokes = "nothing" /\ shows' = Shown(e.user, e.peers, FALSE) /\ UNCHANGED conn
    <2>1. \A t \in Sockets : shows'[t] \subseteq shows[t]
      BY <1>8 DEF Shown
    <2>2. shows' \in [Sockets -> SUBSET Users]
      BY <1>6, <1>8, <2>1 DEF Shown
    <2>3. QED BY <1>5, <1>8, <2>1, <2>2
  <1>9. QED BY <1>3, <1>4, <1>7, <1>8 DEF Deliver

-----------------------------------------------------------------------------
LEMMA TypingInit == Init => TypingInv
  <1> SUFFICES ASSUME Init PROVE TypingInv
    OBVIOUS
  <1>1. NoPeers \in Access
    BY DEF Access, NoPeers
  <1>2. \A r \in Requests : CheckOK(r)
    BY DEF Init, CheckOK, At, NoReq
  <1>3. TypingShapes
    BY <1>1, <1>2 DEF Init, TypingShapes
  <1>4. ClosedShowsNothing /\ TypingAccounted
    BY DEF Init, ClosedShowsNothing, TypingAccounted
  <1>5. QED BY <1>3, <1>4 DEF TypingInv

LEMMA TypingNext == IInv /\ TypingInv /\ [Next]_vars => TypingInv'
  <1> SUFFICES ASSUME IInv, TypingInv, [Next]_vars PROVE TypingInv'
    OBVIOUS
  <1>1. ASSUME NEW s \in Sockets, Connect(s) \/ Disconnect(s) \/ Expire(s)
        PROVE  TypingInv'
    BY SocketsKeepTyping, DisconnectKeepsTyping, <1>1
  <1>2. ASSUME NEW s \in Sockets, NEW room \in Room, Unsubscribe(s, room)
        PROVE  TypingInv'
    BY SocketsKeepTyping, <1>2
  <1>3. ASSUME NEW r \in Requests, Free(r), NEW c \in Calls, Start(r, c)
        PROVE  TypingInv'
    <2>1. At(r, "new")
      BY <1>3 DEF Free
    <2>2. CASE RemoveMember(r, c)
      BY RemoveMemberKeepsTyping, <2>1, <2>2
    <2>3. CASE Typing(r, c)
      BY TypingStep, <2>1, <2>3
    <2>4. QED BY OthersKeepTyping, <1>3, <2>1, <2>2, <2>3 DEF Start
  <1>4. ASSUME NEW r \in Requests, Proceed(r)
        PROVE  TypingInv'
    BY SecondStepsKeepTyping, UpdateMemberKeepsTyping, ReadPeersStep, ForwardCheckedStep, <1>4
    DEF Proceed
  <1>5. ASSUME NEW r \in Requests, Deliver(r)
        PROVE  TypingInv'
    BY DeliverKeepsTyping, <1>5
  <1>6. CASE UNCHANGED vars
    <2>1. UNCHANGED <<member, req, conn, access, typing, shows, ghosts>>
      BY <1>6 DEF vars
    <2>2. TypingShapes'
      BY <2>1 DEF TypingInv, TypingShapes, CheckOK, At
    <2>3. ClosedShowsNothing'
      BY <2>1 DEF TypingInv, ClosedShowsNothing, Open
    <2>4. \A v : RevocationDue(v, "workspace") => RevocationDue(v, "workspace")'
      BY <2>1, KeepDue
    <2>5. \A t \in Sockets : \A u \in shows[t] : ~(Vouched(t, u) /\ ~Active(OwnerOf[t])')
      BY <2>1 DEF Vouched, Active
    <2>6. QED BY TypingKept, <2>1, <2>2, <2>4, <2>5 DEF Open
  <1>7. QED BY <1>1, <1>2, <1>3, <1>4, <1>5, <1>6 DEF Next

(* Nobody is shown as typing for good (handleDisconnect, emitTyping),       *)
(* whatever the number of users, connections and checks under way, unless  *)
(* ghosts records that the server had left the viewer out.                 *)
THEOREM TypingCorrect == Spec => []TypingRetracted
  <1>1. TypingInv => TypingRetracted
    <2>1. SUFFICES ASSUME TypingInv, NEW t \in Sockets, NEW u \in shows[t]
                   PROVE  \/ \E s \in SocketsOf(u) : (typing[s] /\ Open(s)) \/ s \in ghosts
                          \/ RevocationDue(OwnerOf[t], "workspace")
      BY DEF TypingRetracted
    <2>2. QED BY <2>1 DEF TypingInv, TypingAccounted, Vouched, Excused
  <1>2. Spec => []TypingInv
    <2>1. IInv /\ TypingInv /\ [Next]_vars => TypingInv'
      BY TypingNext
    <2>2. QED BY TypingInit, <2>1, InvariantHolds, PTL DEF Spec
  <1>3. QED BY <1>1, <1>2, PTL
=============================================================================
