------------------------------- MODULE Presence -------------------------------
(***************************************************************************)
(* Who is online: src/src/chat/presence.service.ts and the connections of  *)
(* src/src/realtime/realtime.gateway.ts.  Several API processes hold       *)
(* sockets and keep one row of presence_sessions for each.  A process      *)
(* vouches for the rows of its sockets by a heartbeat; rows nobody vouches *)
(* for go stale and are swept, by any process.  Every change is announced  *)
(* to the clients of the process that noticed it, and to no others: there  *)
(* is no Socket.IO adapter.                                                *)
(*                                                                         *)
(* Time is reduced to whether a row is fresh (younger than 90 s) or stale. *)
(* A process has a random instanceId, so one that restarts is another      *)
(* member of Instances, and a socket id is never used again.               *)
(***************************************************************************)
EXTENDS Naturals, FiniteSets

CONSTANTS
  Instances,   \* API processes
  Users,
  Sockets,     \* socket ids
  Owner,       \* whose token a socket presents
  Home,        \* the process a socket connects to
  Nowhere,     \* where a slot is that does nothing
  Handlers,    \* slots for handlers in flight, besides each process's sweep
  Closers,     \* bound: the sockets that close; others stay for good
  Watchers,    \* bound: the processes whose clients are looked at
  Faulty       \* bound: the processes that fail, stop or crash

ASSUME PresenceAssumption ==
  /\ Owner \in [Sockets -> Users]
  /\ Home \in [Sockets -> Instances]
  /\ Nowhere \notin Instances
  /\ Closers \subseteq Sockets
  /\ Watchers \subseteq Instances
  /\ Handlers \cap Instances = {}
  /\ Faulty \subseteq Instances

VARIABLES
  up,      \* processes that run
  opened,  \* sockets that have connected
  open,    \* those that are connected
  local,   \* localSockets of all processes
  rows,    \* presence_sessions, by socketId
  hidden,  \* users whose availability is OFFLINE
  job,     \* what each request, and each process's sweep, is doing
  shown,   \* who is online according to the clients of a process
  behind,  \* history: whom the clients of a process may be wrong about
  lapsed   \* history: open sockets that a failure may have cost their row

vars == <<up, opened, open, local, rows, hidden, job, shown, behind, lapsed>>

-----------------------------------------------------------------------------
Row == {"none", "fresh", "stale"}

JobPc == {"idle", "connect:upsert", "disconnect:delete", "disconnect:check",
          "announce:read", "announce:push",
          "sweep:delete", "sweep:check"}

Slots == Handlers \cup Instances

(* sockets: the socket of a connect or disconnect, the stale ones of a      *)
(* sweep.  users: whom a request is about, or whom a sweep has still to     *)
(* check.  telling: the user announced at the moment.  online: what announce *)
(* has found out.                                                           *)
Job == [pc        : JobPc,
        at        : Instances \cup {Nowhere},
        sockets   : SUBSET Sockets,
        users     : SUBSET Users,
        telling   : SUBSET Users,
        online    : BOOLEAN]

NoJob == [pc |-> "idle", at |-> Nowhere, sockets |-> {}, users |-> {},
          telling |-> {}, online |-> FALSE]

Idle(r) == job[r].pc = "idle"
JobAt(r, pc) == r \in Slots /\ job[r].pc = pc

SocketsOf(u) == {s \in Sockets : Owner[s] = u}

OwnersOf(ss) == {Owner[s] : s \in ss}
HomedAt(i) == {s \in Sockets : Home[s] = i}

(* isConnected: a fresh row, whosever socket it is. *)
Connected(u) == \E s \in SocketsOf(u) : rows[s] = "fresh"

(* onlineUserIds. *)
Online(u) == Connected(u) /\ u \notin hidden

-----------------------------------------------------------------------------
(* History.  About(r) are the users a job is busy with.  An announcement is *)
(* overtaken when what it says about somebody changes after it has looked:  *)
(* nothing orders its push against that of the change.                      *)
About(r) == job[r].users \cup job[r].telling \cup OwnersOf(job[r].sockets)

Looked(u) == {r \in Slots : JobAt(r, "announce:push") /\ u \in job[r].telling}

Everywhere(us) == [j \in Watchers |-> behind[j] \cup us]

(* Process i changes what is stored about us, and will tell its own clients. *)
ChangedAt(i, us) ==
  behind' = [j \in Watchers |->
               behind[j] \cup IF j = i THEN {u \in us : Looked(u) # {}} ELSE us]

-----------------------------------------------------------------------------
(* Announcements. *)

(* The rest of a job: a sweep goes on to the next user, a request is done. *)
Continue(r, us) ==
  IF us # {}
  THEN [NoJob EXCEPT !.pc = "sweep:check", !.at = job[r].at, !.users = us]
  ELSE NoJob

Announcing(i, u, rest) ==
  [NoJob EXCEPT !.pc = "announce:read", !.at = i, !.users = rest, !.telling = {u}]

Announce(r, u, rest) == job' = [job EXCEPT ![r] = Announcing(job[r].at, u, rest)]

(* isOnline.  Its two parallel lookups are one step: a change that comes    *)
(* between them overtakes the announcement, whichever it has missed.        *)
Look(r) ==
  /\ JobAt(r, "announce:read")
  /\ \E u \in job[r].telling :
       job' = [job EXCEPT ![r].pc = "announce:push", ![r].online = Online(u)]
  /\ UNCHANGED <<up, opened, open, local, rows, hidden, shown, behind, lapsed>>

(* pushPresence, to the clients of this process, once it has looked up      *)
(* whose rooms they are in.  A sweep does not wait for this listener; that  *)
(* its slot does leaves out only a push slower than the next sweep, as the  *)
(* users of one sweep are all different.                                    *)
Push(r) ==
  /\ JobAt(r, "announce:push")
  /\ LET i == job[r].at
         us == job[r].telling
     IN shown' = IF i \notin Watchers THEN shown
                 ELSE [shown EXCEPT ![i] = IF job[r].online THEN @ \cup us ELSE @ \ us]
  /\ job' = [job EXCEPT ![r] = Continue(r, job[r].users)]
  /\ UNCHANGED <<up, opened, open, local, rows, hidden, behind, lapsed>>

-----------------------------------------------------------------------------
(* Sockets. *)

(* handleConnection, up to the upsert. *)
Connect(r, s) ==
  /\ Idle(r) /\ Home[s] \in up /\ s \notin opened
  /\ opened' = opened \cup {s}
  /\ open' = open \cup {s}
  /\ local' = local \cup {s}
  /\ job' = [job EXCEPT ![r] = [NoJob EXCEPT !.pc = "connect:upsert", !.at = Home[s],
                                             !.sockets = {s}, !.users = {Owner[s]}]]
  /\ UNCHANGED <<up, rows, hidden, shown, behind, lapsed>>

(* The socket may have been closed by now, and its row deleted before it is *)
(* inserted.                                                                *)
ConnectUpsert(r) ==
  /\ JobAt(r, "connect:upsert")
  /\ \E s \in job[r].sockets :
       /\ rows' = [rows EXCEPT ![s] = "fresh"]
       /\ Announce(r, Owner[s], {})
       /\ ChangedAt(job[r].at, {Owner[s]})
  /\ UNCHANGED <<up, opened, open, local, hidden, shown, lapsed>>

(* handleDisconnect, up to deleteOne. *)
Close(r, s) ==
  /\ Idle(r) /\ s \in open \cap Closers
  /\ open' = open \ {s}
  /\ local' = local \ {s}
  /\ job' = [job EXCEPT ![r] = [NoJob EXCEPT !.pc = "disconnect:delete", !.at = Home[s],
                                             !.sockets = {s}, !.users = {Owner[s]}]]
  /\ lapsed' = lapsed \ {s}
  /\ UNCHANGED <<up, opened, rows, hidden, shown, behind>>

DisconnectDelete(r) ==
  /\ JobAt(r, "disconnect:delete")
  /\ rows' = [s \in Sockets |-> IF s \in job[r].sockets THEN "none" ELSE rows[s]]
  /\ job' = [job EXCEPT ![r].pc = "disconnect:check"]
  /\ ChangedAt(job[r].at, job[r].users)
  /\ UNCHANGED <<up, opened, open, local, hidden, shown, lapsed>>

(* The slip of telling others exactly when there is nothing to tell. *)
MutDisconnectCheck(r) ==
  /\ JobAt(r, "disconnect:check")
  /\ \E u \in job[r].users :
       IF Connected(u)
       THEN Announce(r, u, {})
       ELSE job' = [job EXCEPT ![r] = NoJob]
  /\ UNCHANGED <<up, opened, open, local, rows, hidden, shown, behind, lapsed>>

(* Another device keeps the user online, and nothing is announced. *)
DisconnectCheck(r) ==
  /\ JobAt(r, "disconnect:check")
  /\ \E u \in job[r].users :
       IF Connected(u)
       THEN job' = [job EXCEPT ![r] = NoJob]
       ELSE Announce(r, u, {})
  /\ UNCHANGED <<up, opened, open, local, rows, hidden, shown, behind, lapsed>>

(* setAvailability: PATCH /chat/presence at some process. *)
SetAvailability(r, i, u, hides) ==
  /\ Idle(r) /\ i \in up
  /\ hidden' = IF hides THEN hidden \cup {u} ELSE hidden \ {u}
  /\ job' = [job EXCEPT ![r] = Announcing(i, u, {})]
  /\ ChangedAt(i, {u})
  /\ UNCHANGED <<up, opened, open, local, rows, shown, lapsed>>

-----------------------------------------------------------------------------
(* Heartbeat and sweep. *)

(* The slip of vouching by instanceId, as if localSockets were not there. *)
MutByInstance(s) == Home[s] \in up /\ s \in opened

(* The rows the process that holds the socket keeps fresh. *)
Vouched(s) == s \in local

(* It refreshes rows and never inserts one. *)
Heartbeat(i) ==
  LET kept == {s \in HomedAt(i) : Vouched(s) /\ rows[s] = "stale"}
  IN /\ i \in up /\ kept # {}
     /\ rows' = [s \in Sockets |-> IF s \in kept THEN "fresh" ELSE rows[s]]
     /\ behind' = Everywhere(OwnersOf(kept))
     /\ UNCHANGED <<up, opened, open, local, hidden, job, shown, lapsed>>

(* 90 s without a heartbeat: the rule for a row nobody vouches for.  For    *)
(* the others it takes three failures in a row.                             *)
Age(s) ==
  /\ rows[s] = "fresh"
  /\ ~Vouched(s)
  /\ rows' = [rows EXCEPT ![s] = "stale"]
  /\ behind' = [j \in Watchers |->
                  behind[j] \cup {u \in {Owner[s]} : Looked(u) # {}}]
  /\ UNCHANGED <<up, opened, open, local, hidden, job, shown, lapsed>>

AgeUnexpectedly(s) ==
  /\ Home[s] \in Faulty
  /\ rows[s] = "fresh" /\ Vouched(s)
  /\ rows' = [rows EXCEPT ![s] = "stale"]
  /\ behind' = Everywhere({Owner[s]})
  /\ lapsed' = lapsed \cup {s}
  /\ UNCHANGED <<up, opened, open, local, hidden, job, shown>>

(* The slip of sweeping without asking how old a row is. *)
MutAnyRow == {s \in Sockets : rows[s] # "none"}

StaleRows == {s \in Sockets : rows[s] = "stale"}

SweepFind(i) ==
  /\ i \in up /\ Idle(i) /\ StaleRows # {}
  /\ job' = [job EXCEPT ![i] = [NoJob EXCEPT !.pc = "sweep:delete", !.at = i,
                                             !.sockets = StaleRows]]
  /\ UNCHANGED <<up, opened, open, local, rows, hidden, shown, behind, lapsed>>

(* By socketId: a row refreshed since it was found is deleted as well. *)
SweepDelete(i) ==
  /\ JobAt(i, "sweep:delete")
  /\ LET swept == job[i].sockets
     IN /\ rows' = [s \in Sockets |-> IF s \in swept THEN "none" ELSE rows[s]]
        /\ job' = [job EXCEPT ![i] = [NoJob EXCEPT !.pc = "sweep:check", !.at = i,
                                                   !.users = OwnersOf(swept)]]
        /\ ChangedAt(i, OwnersOf(swept))
  /\ UNCHANGED <<up, opened, open, local, hidden, shown, lapsed>>

SweepCheck(i) ==
  /\ JobAt(i, "sweep:check")
  /\ \E u \in job[i].users :
       IF Connected(u)
       THEN job' = [job EXCEPT ![i] = Continue(i, job[i].users \ {u})]
       ELSE Announce(i, u, job[i].users \ {u})
  /\ UNCHANGED <<up, opened, open, local, rows, hidden, shown, behind, lapsed>>

(* MongoDB's TTL index, an hour later. *)
Expire(s) ==
  /\ rows[s] = "stale"
  /\ rows' = [rows EXCEPT ![s] = "none"]
  /\ behind' = Everywhere({Owner[s]})
  /\ UNCHANGED <<up, opened, open, local, hidden, job, shown, lapsed>>

-----------------------------------------------------------------------------
(* Failures. *)

(* A database call is refused: the handler logs it and gives up.  A push is *)
(* a listener of its own, whose failure does not stop the sweep.            *)
Fail(r) ==
  /\ job[r].at \in Faulty
  /\ job' = [job EXCEPT ![r] = Continue(r, IF job[r].pc = "announce:push"
                                            THEN job[r].users ELSE {})]
  /\ behind' = Everywhere(About(r))
  /\ lapsed' = IF job[r].pc = "connect:upsert" THEN lapsed \cup (job[r].sockets \cap open) ELSE lapsed
  /\ UNCHANGED <<up, opened, open, local, rows, hidden, shown>>

(* onModuleDestroy, while the sockets are still open. *)
ModuleDestroy(i) ==
  LET mine == HomedAt(i)
  IN /\ i \in up \cap Faulty /\ local \cap mine # {}
     /\ rows' = [s \in Sockets |-> IF s \in mine THEN "none" ELSE rows[s]]
     /\ behind' = Everywhere(OwnersOf(mine))
     /\ lapsed' = lapsed \cup (mine \cap open)
     /\ UNCHANGED <<up, opened, open, local, hidden, job, shown>>

(* The process ends, with everything it was doing. *)
Crash(i) ==
  /\ i \in up \cap Faulty
  /\ up' = up \ {i}
  /\ open' = open \ HomedAt(i)
  /\ local' = local \ HomedAt(i)
  /\ lapsed' = lapsed \ HomedAt(i)
  /\ job' = [r \in Slots |-> IF job[r].at = i THEN NoJob ELSE job[r]]
  /\ shown' = [j \in Watchers |-> IF j = i THEN {} ELSE shown[j]]
  /\ behind' = [j \in Watchers |-> IF j = i THEN {} ELSE behind[j]]
  /\ UNCHANGED <<opened, rows, hidden>>

(* Clients of process i load the inbox, which says who is online, at a      *)
(* moment when nothing is being announced.                                  *)
Settled(u) == /\ \A r \in Slots : u \notin About(r)
              /\ \A s \in SocketsOf(u) : rows[s] # "stale"

Load(i, u) ==
  /\ i \in up /\ u \in behind[i] /\ Settled(u)
  /\ shown' = [shown EXCEPT ![i] = IF Online(u) THEN @ \cup {u} ELSE @ \ {u}]
  /\ behind' = [behind EXCEPT ![i] = @ \ {u}]
  /\ UNCHANGED <<up, opened, open, local, rows, hidden, job, lapsed>>

-----------------------------------------------------------------------------
Init ==
  /\ up = Instances
  /\ opened = {} /\ open = {} /\ local = {}
  /\ rows = [s \in Sockets |-> "none"]
  /\ hidden = {}
  /\ job = [r \in Slots |-> NoJob]
  /\ shown = [i \in Watchers |-> {}]
  /\ behind = [i \in Watchers |-> {}]
  /\ lapsed = {}

(* What goes on by itself once it has begun. *)
Proceed(r) ==
  \/ ConnectUpsert(r)
  \/ DisconnectDelete(r) \/ DisconnectCheck(r)
  \/ Look(r) \/ Push(r)

Next ==
  \/ \E r \in Slots : Proceed(r) \/ Fail(r)
  \/ \E r \in Handlers, s \in Sockets : Connect(r, s) \/ Close(r, s)
  \/ \E r \in Handlers, i \in Instances, u \in Users, hides \in BOOLEAN :
       SetAvailability(r, i, u, hides)
  \/ \E i \in Instances : Heartbeat(i) \/ SweepFind(i) \/ SweepDelete(i) \/ SweepCheck(i)
                            \/ ModuleDestroy(i) \/ Crash(i)
  \/ \E s \in Sockets : Age(s) \/ AgeUnexpectedly(s) \/ Expire(s)
  \/ \E i \in Watchers, u \in Users : Load(i, u)

(* A handler that has begun goes on as long as its process lives, the       *)
(* intervals fire for ever, time passes, and the database is not down at    *)
(* every single sweep.                                                      *)
Fairness ==
  /\ \A r \in Slots : WF_vars(Proceed(r))
  /\ \A i \in Instances : /\ WF_vars(Heartbeat(i)) /\ WF_vars(SweepFind(i))
                          /\ SF_vars(SweepDelete(i)) /\ WF_vars(SweepCheck(i))
  /\ \A s \in Sockets : WF_vars(Age(s))

Spec == Init /\ [][Next]_vars /\ Fairness

-----------------------------------------------------------------------------
(* The state of every variable, and that nobody is told about two people at *)
(* once.                                                                    *)
TypeOK ==
  /\ up \subseteq Instances
  /\ opened \subseteq Sockets
  /\ open \subseteq opened
  /\ local \subseteq Sockets
  /\ rows \in [Sockets -> Row]
  /\ hidden \subseteq Users
  /\ job \in [Slots -> Job]
  /\ shown \in [Watchers -> SUBSET Users]
  /\ behind \in [Watchers -> SUBSET Users]
  /\ lapsed \subseteq Sockets
  /\ \A r \in Slots : JobAt(r, "announce:read") \/ JobAt(r, "announce:push")
                        => \E u \in Users : job[r].telling = {u}

(* A device that stays connected keeps its row fresh, whatever other        *)
(* devices, processes and sweeps do, from the end of its connected() on,    *)
(* unless a failure has cost it the row: docs/API_GUIDE.md says of the rows *)
(* that several devices and several processes are counted correctly.        *)
Registering(s) == \E r \in Slots : JobAt(r, "connect:upsert") /\ s \in job[r].sockets

OpenHasRow ==
  \A s \in open : Registering(s) \/ s \in lapsed \/ rows[s] = "fresh"

(* Clients show who is online as it is, once nothing is on its way: every   *)
(* change is announced by the connect, the disconnect, the availability or  *)
(* the sweep that brings it about.  It takes that no announcement has been  *)
(* overtaken by another change and that nothing happened at other processes *)
(* since the clients last loaded their contacts.                            *)
ShownIsRight ==
  \A i \in up \cap Watchers, u \in Users :
    u \notin behind[i] /\ Settled(u) => (u \in shown[i] <=> Online(u))

(* However a connection ends, closed at any moment of its connect or cut    *)
(* off by a crash, its row goes in the end and stays away, as long as some  *)
(* process is left to sweep: nobody stays online as a ghost.  A socket that *)
(* has ended never comes back, and there are finitely many.                 *)
Ended(s) == s \in opened \ open

RowsGo == <>[](up = {} \/ \A s \in Sockets : Ended(s) => rows[s] = "none")
=============================================================================
