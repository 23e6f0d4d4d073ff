------------------------------ MODULE Realtime ------------------------------
(***************************************************************************)
(* Live subscriptions of one process: src/src/realtime/realtime.gateway.ts *)
(* with the access checks it makes (project-access.service.ts and          *)
(* workspace-access.service.ts) and the writes whose events change who may *)
(* listen.  A client that holds a subscription is told of every change of  *)
(* its workspace or project and fetches again; whoever loses access must   *)
(* lose the subscription.                                                  *)
(*                                                                         *)
(* There is one workspace with one project and one group conversation that *)
(* every user is in; none of them is deleted.  A membership is reduced to  *)
(* what visibility depends on.  Each request makes one call and publishes  *)
(* at most one event; a listener runs some time after the event's write has *)
(* committed, and the listeners of different requests in any order.        *)
(***************************************************************************)
EXTENDS Naturals, FiniteSets

CONSTANTS
  Users,
  Sockets,     \* connections; one that has closed is never used again
  OwnerOf,     \* whose token a socket presents
  Requests,    \* slots, used in their order: each makes one of the Calls
  Calls,
  Members0,    \* what the memberships may be in the beginning,
  OnProject0,  \* who has a row in the project's members then,
  MaxExpiries  \* and how often Expire may happen (a bound)

VARIABLES
  member,     \* membership in the workspace, by user
  onProject,  \* users with a row in project_members
  conn,       \* connection state of each socket
  rooms,      \* rooms a socket has joined, besides its user's
  req,        \* what each request is doing
  access,     \* socket.data.chat.access: the cached peers of the conversation
  typing,     \* socket.data.chat.typingSentAt has the conversation
  told,       \* client: the rooms its subscriptions were acknowledged for
  stale,      \* client: rooms with a change it has not fetched
  shows,      \* client: the users shown as typing
  expiries,   \* how often a cached check has expired (a bound's counter)
  emptied,    \* history: sockets taken out of the project's room
  missed,     \* history: the rooms of a socket that a revocation has missed
  ghosts      \* history: sockets whose typing the server will not take back

vars == <<member, onProject, conn, rooms, req, access, typing, told, stale, shows,
          expiries, emptied, missed, ghosts>>
db == <<member, onProject>>
chat == <<access, typing, shows, expiries, ghosts>>
client == <<told, stale>>
history == <<emptied, missed>>

-----------------------------------------------------------------------------
Room == {"workspace", "project"}
(* A role is reduced to the projects it reads: all, or only those with a    *)
(* member row.  Every role may read the workspace.  The id is the request   *)
(* the membership comes from; one that is removed and joins again has      *)
(* another.                                                                *)
Role == {"all", "some"}
Status == {"active", "suspended"}
NoMember == [id |-> 0, role |-> "none", status |-> "none"]
Membership == [id : Requests \cup {0}, role : Role, status : Status] \cup {NoMember}
Connection == {"new", "open", "closed"}

SocketsOf(u) == {s \in Sockets : OwnerOf[s] = u}
Open(s) == conn[s] = "open"
Active(u) == member[u].status = "active"
ReadsAll(u) == Active(u) /\ member[u].role = "all"
Hears(m, u, room) ==
  m.status = "active" /\ (room = "workspace" \/ m.role = "all" \/ u \in onProject)
MayHear(u, room) == Hears(member[u], u, room)

(* What an update sends of a member's role and status; "" is left out. *)
Dto == [role : Role \cup {""}, status : Status \cup {""}]

(* The calls: a subscription, an invitation accepted, a member changed or   *)
(* removed, one of the project's members, any other change, a typing       *)
(* signal, and a message.                                                  *)
Call ==
  [op : {"subscribe"}, sock : Sockets, room : Room]
  \cup [op : {"accept"}, user : Users, role : Role]
  \cup [op : {"update"}, user : Users, dto : Dto]
  \cup [op : {"remove", "add", "drop"}, user : Users]
  \cup [op : {"change"}, room : Room]
  \cup [op : {"typing"}, sock : Sockets, on : BOOLEAN]
  \cup [op : {"message"}, user : Users]

ASSUME RealtimeAssumption ==
  /\ OwnerOf \in [Sockets -> Users]
  /\ MaxExpiries \in Nat
  /\ Requests \subseteq Nat \ {0}
  /\ Calls \subseteq Call
  /\ Members0 \subseteq [Users -> Membership]
  /\ OnProject0 \subseteq Users

(* An event as its listeners see it: the room broadcast tells, the user     *)
(* whose access it reduces and how, the users whose display it clears.     *)
Event == [room : Room \cup {"none"}, user : Users,
          revokes : {"nothing", "sockets", "project"}, peers : SUBSET Users]

NoPeers == [known |-> FALSE, fresh |-> FALSE, peers |-> {}]
Access == [known : BOOLEAN, fresh : BOOLEAN, peers : SUBSET Users]

NoReq == [pc |-> "new"]
Done == [pc |-> "done"]
Working(pc, c) == [pc |-> pc, call |-> c]
Due(e) == [pc |-> "due", event |-> e]

At(r, pc) == req[r].pc = pc
Goto(r, state) == req' = [req EXCEPT ![r] = state]

TypeOK ==
  /\ member \in [Users -> Membership]
  /\ onProject \subseteq Users
  /\ conn \in [Sockets -> Connection]
  /\ rooms \in [Sockets -> SUBSET Room]
  /\ req \in [Requests ->
       {NoReq, Done}
       \cup [pc : {"row", "join", "insert", "peers"}, call : Calls]
       \cup [pc : {"write"}, call : Calls, target : Membership]
       \cup [pc : {"emit"}, call : Calls, peers : SUBSET Users]
       \cup [pc : {"due"}, event : Event]]
  /\ access \in [Sockets -> Access]
  /\ typing \in [Sockets -> BOOLEAN]
  /\ told \in [Sockets -> SUBSET Room]
  /\ stale \in [Sockets -> SUBSET Room]
  /\ shows \in [Sockets -> SUBSET Users]
  /\ expiries \in 0..MaxExpiries
  /\ emptied \subseteq Sockets /\ ghosts \subseteq Sockets
  /\ missed \in [Sockets -> SUBSET Room]

Init ==
  /\ member \in Members0
  /\ onProject = OnProject0
  /\ conn = [s \in Sockets |-> "new"]
  /\ rooms = [s \in Sockets |-> {}]
  /\ req = [r \in Requests |-> NoReq]
  /\ access = [s \in Sockets |-> NoPeers]
  /\ typing = [s \in Sockets |-> FALSE]
  /\ told = [s \in Sockets |-> {}]
  /\ stale = [s \in Sockets |-> {}]
  /\ shows = [s \in Sockets |-> {}]
  /\ expiries = 0
  /\ emptied = {} /\ ghosts = {}
  /\ missed = [s \in Sockets |-> {}]

-----------------------------------------------------------------------------
(* Connections. *)

(* emitTyping, as the peers' clients take it. *)
Shown(u, peers, on) ==
  [s \in Sockets |->
     IF ~Open(s) \/ OwnerOf[s] \notin peers THEN shows[s]
     ELSE IF on THEN shows[s] \cup {u} ELSE shows[s] \ {u}]

(* handleConnection, with a token that verifies: it joins the user's room.  *)
Connect(s) ==
  /\ conn[s] = "new"
  /\ conn' = [conn EXCEPT ![s] = "open"]
  /\ UNCHANGED <<db, rooms, req, chat, client, history>>

(* The slip of telling only those a check still vouches for. *)
MutCleared(S) ==
  [t \in Sockets |->
     shows[t] \ {u \in Users : \E s \in S :
                    /\ u = OwnerOf[s] /\ typing[s]
                    /\ access[s].fresh /\ OwnerOf[t] \in access[s].peers}]

(* Socket.IO takes a socket that closes out of its rooms; handleDisconnect  *)
(* tells the peers it knows of that typing is over.  A client that has lost *)
(* its connection has no subscriptions and shows nobody as typing.         *)
Cleared(S) ==
  [t \in Sockets |->
     shows[t] \ {u \in Users : \E s \in S :
                    u = OwnerOf[s] /\ typing[s] /\ OwnerOf[t] \in access[s].peers}]

Close(S) ==
  /\ conn' = [s \in Sockets |-> IF s \in S THEN "closed" ELSE conn[s]]
  /\ rooms' = [s \in Sockets |-> IF s \in S THEN {} ELSE rooms[s]]
  /\ shows' = [t \in Sockets |-> IF t \in S THEN {} ELSE Cleared(S)[t]]
  /\ emptied' = emptied \ S
  /\ missed' = [s \in Sockets |-> IF s \in S THEN {} ELSE missed[s]]

Disconnect(s) ==
  /\ Open(s)
  /\ Close({s})
  /\ told' = [told EXCEPT ![s] = {}]
  /\ stale' = [stale EXCEPT ![s] = {}]
  /\ UNCHANGED <<db, req, access, typing, expiries, ghosts>>

(* The rooms a socket is about to join, its check having passed. *)
Joining(s) ==
  {room \in Room : \E r \in Requests :
     At(r, "join") /\ req[r].call.sock = s /\ req[r].call.room = room}

(* Those, and the ones it is still to read the project's member row for. *)
Asking(s) ==
  {room \in Room : \E r \in Requests :
     (At(r, "row") \/ At(r, "join")) /\ req[r].call.sock = s /\ req[r].call.room = room}

(* unsubscribe. *)
Unsubscribe(s, room) ==
  /\ Open(s)
  /\ room \in told[s]
  /\ rooms' = [rooms EXCEPT ![s] = @ \ {room}]
  /\ told' = [told EXCEPT ![s] = @ \ {room}]
  /\ stale' = [stale EXCEPT ![s] = @ \ {room}]
  /\ emptied' = IF room = "project" THEN emptied \ {s} ELSE emptied
  /\ missed' = [missed EXCEPT ![s] = @ \ ({room} \ Asking(s))]
  /\ UNCHANGED <<db, conn, req, chat>>

-----------------------------------------------------------------------------
(* subscribe: the membership is read, then, for a role that does not read   *)
(* every project, the project's member row, and only then the room joined. *)

Granted(u, room) == Active(u) /\ (room = "workspace" \/ ReadsAll(u))

ReadMembership(r, c) ==
  /\ c.op = "subscribe"
  /\ Open(c.sock)
  /\ Goto(r, IF ~Active(OwnerOf[c.sock]) THEN Done
             ELSE IF Granted(OwnerOf[c.sock], c.room) THEN Working("join", c)
             ELSE Working("row", c))
  /\ UNCHANGED <<db, conn, rooms, chat, client, history>>

ReadProjectRow(r) ==
  /\ At(r, "row")
  /\ LET c == req[r].call IN
       Goto(r, IF OwnerOf[c.sock] \in onProject THEN Working("join", c) ELSE Done)
  /\ UNCHANGED <<db, conn, rooms, chat, client, history>>

(* join does nothing on a socket that has closed meanwhile.  The client     *)
(* fetches once the subscription is acknowledged.                          *)
Join(r) ==
  /\ At(r, "join")
  /\ LET c == req[r].call
         s == c.sock
         Takes(f) == IF Open(s) THEN [f EXCEPT ![s] = @ \cup {c.room}] ELSE f
     IN /\ rooms' = Takes(rooms)
        /\ told' = Takes(told)
        /\ stale' = [stale EXCEPT ![s] = @ \ {c.room}]
        /\ emptied' = IF c.room = "project" THEN emptied \ {s} ELSE emptied
  /\ Goto(r, Done)
  /\ UNCHANGED <<db, conn, chat, missed>>

-----------------------------------------------------------------------------
(* Writes, each with the event it publishes.  Whoever holds a subscription  *)
(* has not seen the change before it fetches again.                        *)

Publish(r, e) ==
  /\ Goto(r, Due(e))
  /\ stale' = [s \in Sockets |-> stale[s] \cup ({e.room} \cap told[s])]

About(room, u, revokes) == [room |-> room, user |-> u, revokes |-> revokes, peers |-> {}]

(* accept, whose event nobody revokes anything for. *)
Accept(r, c) ==
  /\ c.op = "accept"
  /\ member[c.user] = NoMember
  /\ member' = [member EXCEPT ![c.user] = [id |-> r, role |-> c.role, status |-> "active"]]
  /\ Publish(r, About("workspace", c.user, "nothing"))
  /\ UNCHANGED <<onProject, conn, rooms, chat, told, history>>

(* WorkspaceMembersService.update reads the member, checks the caller's     *)
(* rank, and writes what it was sent.                                      *)
ReadTarget(r, c) ==
  /\ c.op = "update"
  /\ member[c.user] # NoMember
  /\ Goto(r, [pc |-> "write", call |-> c, target |-> member[c.user]])
  /\ UNCHANGED <<db, conn, rooms, chat, client, history>>

Sent(new, old) == IF new = "" THEN old ELSE new

Updated(m, dto, target) ==
  IF m = NoMember \/ m.id # target.id THEN m
  ELSE [m EXCEPT !.role = Sent(dto.role, @), !.status = Sent(dto.status, @)]

(* The slip of announcing a change of role only. *)
MutAnnounced(dto, target) == dto.role \notin {"", target.role}

(* The events compare what was sent with what was read, not with what the   *)
(* write has replaced.                                                     *)
Announced(dto, target) ==
  dto.role \notin {"", target.role} \/ dto.status \notin {"", target.status}

UpdateMember(r) ==
  /\ At(r, "write")
  /\ LET c == req[r].call
         u == c.user
         target == req[r].target
         m == Updated(member[u], c.dto, target)
     IN /\ member' = [member EXCEPT ![u] = m]
        /\ \/ /\ Announced(c.dto, target)
              /\ Publish(r, About("workspace", u, "sockets"))
              /\ UNCHANGED missed
           \/ /\ ~Announced(c.dto, target)
              /\ Goto(r, Done)
              /\ missed' = [s \in Sockets |->
                   missed[s] \cup {room \in rooms[s] \cup Asking(s) :
                                     /\ OwnerOf[s] = u /\ member[u] \notin {target, m}
                                     /\ ~Hears(m, u, room)}]
              /\ UNCHANGED stale
        /\ ghosts' = IF Active(u) /\ m.status # "active" /\ ~Announced(c.dto, target)
                     THEN ghosts \cup {s \in Sockets : typing[s] /\ u \in access[s].peers}
                     ELSE ghosts
  /\ UNCHANGED <<onProject, conn, rooms, access, typing, shows, expiries, told, emptied>>

(* A member leaves or is removed, and the project memberships go with it. *)
RemoveMember(r, c) ==
  /\ c.op = "remove"
  /\ member[c.user] # NoMember
  /\ member' = [member EXCEPT ![c.user] = NoMember]
  /\ onProject' = onProject \ {c.user}
  /\ Publish(r, About("workspace", c.user, "sockets"))
  /\ UNCHANGED <<conn, rooms, chat, told, history>>

(* ProjectMembersService.add looks whether the user is an active member,    *)
(* and inserts after that.                                                 *)
CheckAdded(r, c) ==
  /\ c.op = "add"
  /\ Goto(r, IF Active(c.user) THEN Working("insert", c) ELSE Done)
  /\ UNCHANGED <<db, conn, rooms, chat, client, history>>

AddToProject(r) ==
  /\ At(r, "insert")
  /\ LET u == req[r].call.user IN
       IF u \in onProject
       THEN Goto(r, Done) /\ UNCHANGED <<onProject, stale>>
       ELSE /\ onProject' = onProject \cup {u}
            /\ Publish(r, About("project", u, "nothing"))
  /\ UNCHANGED <<member, conn, rooms, chat, told, history>>

DropFromProject(r, c) ==
  /\ c.op = "drop"
  /\ c.user \in onProject
  /\ onProject' = onProject \ {c.user}
  /\ Publish(r, About("project", c.user, "project"))
  /\ UNCHANGED <<member, conn, rooms, chat, told, history>>

(* Any other domain event, such as task.updated. *)
Change(r, c) ==
  /\ c.op = "change"
  /\ \E u \in Users : Publish(r, About(c.room, u, "nothing"))
  /\ UNCHANGED <<db, conn, rooms, chat, told, history>>

-----------------------------------------------------------------------------
(* Listeners. *)

(* broadcast. *)
Broadcast(room) == [s \in Sockets |-> IF room \in rooms[s] THEN stale[s] \ {room} ELSE stale[s]]

(* The slip of taking the sockets out of their rooms, which no client sees. *)
MutKick(e) ==
  /\ rooms' = [s \in Sockets |-> IF OwnerOf[s] = e.user THEN {} ELSE rooms[s]]
  /\ stale' = Broadcast(e.room)
  /\ UNCHANGED <<conn, told, shows, history>>

(* onMembershipChanged: the user's sockets are closed. *)
Kick(e) ==
  LET S == {s \in SocketsOf(e.user) : Open(s)} IN
  /\ Close(S)
  /\ told' = [s \in Sockets |-> IF s \in S THEN {} ELSE told[s]]
  /\ stale' = [s \in Sockets |-> IF s \in S THEN {} ELSE Broadcast(e.room)[s]]

(* The slip of emptying the room of the workspace. *)
MutEmpty(e) ==
  /\ rooms' = [s \in Sockets |-> IF OwnerOf[s] = e.user THEN rooms[s] \ {"workspace"} ELSE rooms[s]]
  /\ stale' = Broadcast(e.room)
  /\ UNCHANGED <<conn, told, shows, history>>

(* onProjectMemberRemoved: the user's sockets leave the project's room, but *)
(* their clients are not told, and one that is about to join still does.   *)
Empty(e) ==
  LET S == {s \in SocketsOf(e.user) : Open(s)} IN
  /\ rooms' = [s \in Sockets |-> IF s \in S THEN rooms[s] \ {"project"} ELSE rooms[s]]
  /\ stale' = Broadcast(e.room)
  /\ emptied' = emptied \cup {s \in S : "project" \in told[s]}
  /\ missed' = [s \in Sockets |-> IF s \in S THEN missed[s] \cup ({"project"} \cap Joining(s))
                                  ELSE missed[s]]
  /\ UNCHANGED <<conn, told, shows>>

(* broadcast, then the listener that revokes; pushChatMessage for a message. *)
Deliver(r) ==
  /\ At(r, "due")
  /\ LET e == req[r].event IN
       \/ /\ e.revokes = "sockets"
          /\ Kick(e)
       \/ /\ e.revokes = "project"
          /\ Empty(e)
       \/ /\ e.revokes = "nothing"
          /\ stale' = Broadcast(e.room)
          /\ shows' = Shown(e.user, e.peers, FALSE)
          /\ UNCHANGED <<conn, rooms, told, history>>
  /\ Goto(r, Done)
  /\ UNCHANGED <<db, access, typing, expiries, ghosts>>

-----------------------------------------------------------------------------
(* Typing. *)

Audience(u) == {v \in Users : Active(v)} \ {u}

(* The cached check is used for 30 s. *)
Expire(s) ==
  /\ access[s].fresh
  /\ expiries < MaxExpiries
  /\ expiries' = expiries + 1
  /\ access' = [access EXCEPT ![s].fresh = FALSE]
  /\ UNCHANGED <<db, conn, rooms, req, typing, shows, client, history, ghosts>>

(* An answer that is older than the one it replaces leaves out who became a *)
(* member in between, and has seen the typing.                             *)
LeftOut(s, peers) ==
  IF typing[s] /\ \E v \in access[s].peers \ peers : Active(v) THEN {s} ELSE {}

(* What follows the check.  A repeated "typing" is dropped if the last one  *)
(* was forwarded less than two seconds ago, which any may have been.       *)
Forward(s, on, peers) ==
  \/ /\ on = typing[s]
     /\ ghosts' = ghosts \cup LeftOut(s, peers)
     /\ UNCHANGED <<typing, shows>>
  \/ /\ on \/ typing[s]
     /\ typing' = [typing EXCEPT ![s] = on]
     /\ shows' = Shown(OwnerOf[s], peers, on)
     /\ ghosts' = ghosts \cup IF on /\ ~(Open(s) /\ \A v \in peers : Active(v)) THEN {s}
                             ELSE LeftOut(s, peers)

Typing(r, c) ==
  /\ c.op = "typing"
  /\ Open(c.sock)
  /\ IF access[c.sock].known /\ access[c.sock].fresh
     THEN Forward(c.sock, c.on, access[c.sock].peers) /\ Goto(r, Done)
     ELSE Goto(r, Working("peers", c)) /\ UNCHANGED <<typing, shows, ghosts>>
  /\ UNCHANGED <<db, conn, rooms, access, expiries, client, history>>

(* ChatService.peersOf; not found for one who is not an active member. *)
ReadPeers(r) ==
  /\ At(r, "peers")
  /\ LET c == req[r].call
         u == OwnerOf[c.sock]
     IN \/ /\ Active(u)
           /\ Goto(r, [pc |-> "emit", call |-> c, peers |-> Audience(u)])
           /\ UNCHANGED <<access, ghosts>>
        \/ /\ ~Active(u)
           /\ Goto(r, Done)
           /\ access' = [access EXCEPT ![c.sock] = NoPeers]
           /\ ghosts' = IF typing[c.sock] THEN ghosts \cup {c.sock} ELSE ghosts
  /\ UNCHANGED <<db, conn, rooms, typing, shows, expiries, client, history>>

ForwardChecked(r) ==
  /\ At(r, "emit")
  /\ LET c == req[r].call IN
       /\ access' = [access EXCEPT ![c.sock] =
                       [known |-> TRUE, fresh |-> TRUE, peers |-> req[r].peers]]
       /\ Forward(c.sock, c.on, req[r].peers)
  /\ Goto(r, Done)
  /\ UNCHANGED <<db, conn, rooms, expiries, client, history>>

(* A message sent: its event clears the sender at everybody it goes to. *)
Message(r, c) ==
  /\ c.op = "message"
  /\ Active(c.user)
  /\ Goto(r, Due([About("none", c.user, "nothing") EXCEPT !.peers = Audience(c.user)]))
  /\ UNCHANGED <<db, conn, rooms, chat, client, history>>

-----------------------------------------------------------------------------
Start(r, c) ==
  \/ ReadMembership(r, c) \/ Accept(r, c) \/ ReadTarget(r, c) \/ RemoveMember(r, c)
  \/ CheckAdded(r, c) \/ DropFromProject(r, c) \/ Change(r, c) \/ Typing(r, c) \/ Message(r, c)

Free(r) == At(r, "new") /\ \A q \in Requests : q < r => ~At(q, "new")

Proceed(r) ==
  \/ ReadProjectRow(r) \/ Join(r) \/ UpdateMember(r) \/ AddToProject(r)
  \/ ReadPeers(r) \/ ForwardChecked(r)

Next ==
  \/ \E s \in Sockets : Connect(s) \/ Disconnect(s) \/ Expire(s)
  \/ \E s \in Sockets, room \in Room : Unsubscribe(s, room)
  \/ \E r \in Requests :
       \/ Free(r) /\ \E c \in Calls : Start(r, c)
       \/ Proceed(r)
       \/ Deliver(r)

(* Listeners run in the process that published, as soon as its event loop   *)
(* gets to them.                                                           *)
Fairness == \A r \in Requests : WF_vars(Deliver(r))

Spec == Init /\ [][Next]_vars /\ Fairness

-----------------------------------------------------------------------------
(* What must hold. *)

Pending == {req[r].event : r \in {q \in Requests : At(q, "due")}}
RevocationDue(u, room) ==
  \E e \in Pending : e.user = u /\ e.revokes \in {"sockets", room}

(* A socket in a room belongs to a user who may hear what is told there, or *)
(* the listener that closes the socket or empties the room has still to     *)
(* run ("revoked or reduced access must also revoke live subscriptions").   *)
(* missed holds the two exceptions: a subscribe that had passed its check   *)
(* when the project's room was emptied for its user, and an update that was *)
(* not announced because another came between its read and its write.      *)
Illicit(s, room) == room \in rooms[s] /\ ~MayHear(OwnerOf[s], room)

RoomsFollowAccess ==
  \A s \in Sockets : \A room \in Room :
    Illicit(s, room) => RevocationDue(OwnerOf[s], room) \/ room \in missed[s]

(* A client with a subscription that was acknowledged and not lost has      *)
(* fetched every change or is about to be told: no reconnection, change of  *)
(* role or crossing subscription makes it deaf.  A client taken out of the  *)
(* project's room is not told so, and stays deaf even if its user still     *)
(* sees the project by its role.                                           *)
InformedOfChanges ==
  \A s \in Sockets : \A room \in told[s] \cap stale[s] :
    \/ \E e \in Pending : e.room = room
    \/ room = "project" /\ s \in emptied

(* A client shows nobody as typing for good: somebody shown has a connected *)
(* socket that still counts as typing, or the viewer is about to be         *)
(* disconnected.  The server leaves it to the client's own timer (ghosts)   *)
(* when the check was under way as the socket closed, or has failed since,  *)
(* or named somebody who was no longer a member; when an older check's      *)
(* answer replaced a newer one; and when the viewer lost the membership     *)
(* without an announcement.                                                *)
TypingRetracted ==
  \A t \in Sockets : \A u \in shows[t] :
    \/ \E s \in SocketsOf(u) : (typing[s] /\ Open(s)) \/ s \in ghosts
    \/ RevocationDue(OwnerOf[t], "workspace")

(* Whoever has lost access leaves the room in the end, or gets access back. *)
RevokedLeaves ==
  \A s \in Sockets : \A room \in Room :
    []<>(~Illicit(s, room) \/ room \in missed[s])
=============================================================================
