------------------------------- MODULE Inbox --------------------------------
(***************************************************************************)
(* How users are told: notifications.service.ts, notification-rules.       *)
(* listener.ts, push/push.service.ts with its listener, and the notes whose *)
(* reminders end in the same inbox (src/src/notifications, src/src/notes). *)
(* Module Content, which EXTENDS this one, has the requests whose events   *)
(* are told here.                                                          *)
(*                                                                         *)
(* There is one project.  Requests are slots that each make one call; what *)
(* a request creates is named after it.  A listener works for the request  *)
(* whose event it listens to.  A request, a listener or a scheduler may die *)
(* at any step, by a crash or a failing database.                          *)
(***************************************************************************)
EXTENDS Naturals, FiniteSets, Sequences

CONSTANTS
  Users,
  Tokens,    \* FCM tokens: one per device
  Requests,  \* slots, used in their order: each makes one call
  Earlier,   \* the slot whatever was there before was created by
  None,
  Plans,     \* bounds: which calls a behaviour is made of, what the note is like
             \* in the beginning and when that is
  Access0,   \* who sees the project in the beginning
  NoteOf,    \* the user who keeps the note
  MaxTime,   \* (a bound) until when time runs,
  Late,      \* after how long a reminder is skipped (MAX_LATENESS),
  MaxDeaths  \* how many requests die (a bound)

Made == Requests \cup {Earlier}

VARIABLES
  plan,      \* the bounds of this behaviour
  req,       \* what each request, or its listener, is doing
  deaths,    \* how many have died (a bound's counter)
  access,    \* users who see the project
  had,       \* history: who has seen it since a request's event
  inbox,     \* stored notifications
  pushes,    \* deliveries of the push listener under way
  devices,   \* rows of device_tokens
  signedIn,  \* who has signed in on a device last, unless signed out
  gone,      \* tokens whose app was uninstalled
  now,       \* time, in minutes
  note,      \* the note; at is None without a reminder
  claimed,   \* settings of the note whose reminder a scheduler has claimed
  reminded,  \* history: how often a setting was reminded of, or lost,
  crossed    \* and settings that two updates made at the same time

inboxVars == <<plan, req, deaths, access, had, inbox, pushes, devices, signedIn, gone,
               now, note, claimed, reminded, crossed>>
telling == <<inbox, pushes>>
phones == <<devices, signedIn, gone>>
notes == <<now, note, claimed, reminded, crossed>>
people == <<access, had>>

-----------------------------------------------------------------------------
Time == 0..MaxTime
Note == [live : BOOLEAN, at : Time \cup {None}, sent : BOOLEAN, by : Made]
Kind == {"ASSIGNED", "STATUS", "MEMBER", "MENTIONED", "COMMENT", "NOTE"}
Notification == [user : Users, from : Made, kind : Kind, read : BOOLEAN]

(* A delivery: to be looked up, or to be sent to the tokens found. *)
Push == [user : Users, from : Made, kind : Kind, pc : {"find", "send"}, tokens : SUBSET Tokens]

InboxCall ==
  [op : {"access"}, user : Users]
  \cup [op : {"created", "joined"}, user : Users, added : SUBSET Users]
  \cup [op : {"task"}, user : Users, added : SUBSET Users, watchers : SUBSET Users]
  \cup [op : {"read", "clear", "clearRead"}, user : Users, all : BOOLEAN]
  \cup [op : {"register", "unregister"}, user : Users, token : Tokens]
  \cup [op : {"note"}, at : Time \cup {None}]
  \cup [op : {"removeNote"}]

ASSUME InboxAssumption ==
  /\ Requests \subseteq Nat
  /\ Earlier \notin Requests /\ None \notin Made \cup Users
  /\ Access0 \subseteq Users /\ NoteOf \in Users
  /\ MaxTime \in Nat /\ Late \in Nat /\ MaxDeaths \in Nat
  /\ \A p \in Plans : p.note \in Note /\ p.note.by = Earlier /\ p.now \in Time

NewReq == [pc |-> "new"]
Done == [pc |-> "done"]
At(r, pc) == req[r].pc = pc
Goto(r, state) == req' = [req EXCEPT ![r] = state]
Free(r) == At(r, "new") /\ \A q \in Requests : q < r => ~At(q, "new")

(* What the rules make of an event: notify is called once for each of these, *)
(* one after the other.                                                    *)
Telling(r, actor, rules) == [pc |-> "rule", actor |-> actor, rules |-> rules]
Rule(kind, to) == [kind |-> kind, to |-> to]

RuleSet == [kind : Kind, to : SUBSET Users]
RuleReq == [pc : {"rule"}, actor : Users, rules : Seq(RuleSet)]
StoreReq == [pc : {"store"}, actor : Users, rules : Seq(RuleSet), kind : Kind, to : SUBSET Users]
NoteReq == [pc : {"note"}, at : Time \cup {None}, was : Time \cup {None}]

InboxTypeOK ==
  /\ access \subseteq Users
  /\ had \in [Requests -> SUBSET Users]
  /\ inbox \subseteq Notification
  /\ pushes \subseteq Push
  /\ devices \subseteq Users \X Tokens
  /\ signedIn \in [Tokens -> Users \cup {None}]
  /\ gone \subseteq Tokens
  /\ now \in Time /\ note \in Note
  /\ claimed \subseteq Made /\ crossed \subseteq Made
  /\ reminded \in [Made -> Nat]
  /\ deaths \in 0..MaxDeaths

InboxInit ==
  /\ plan \in Plans
  /\ req = [r \in Requests |-> NewReq]
  /\ deaths = 0
  /\ access = Access0
  /\ had = [r \in Requests |-> {}]
  /\ inbox = {} /\ pushes = {}
  /\ devices = {} /\ signedIn = [d \in Tokens |-> None] /\ gone = {}
  /\ now = plan.now /\ note = plan.note
  /\ claimed = {} /\ reminded = [s \in Made |-> 0] /\ crossed = {}

-----------------------------------------------------------------------------
(* Access to the project is given and taken by others; listeners that have  *)
(* yet to tell an event see what it is when they look.                     *)
GrantOrRevoke(r, c) ==
  /\ c.op = "access"
  /\ access' = IF c.user \in access THEN access \ {c.user} ELSE access \cup {c.user}
  /\ had' = [q \in Requests |-> IF At(q, "rule") \/ At(q, "store") THEN had[q] \cup access' ELSE had[q]]
  /\ Goto(r, Done)
  /\ UNCHANGED <<plan, deaths, telling, phones, notes>>

Published(r) == had' = [had EXCEPT ![r] = access]

(* task.created, task.updated and project.member.added: those newly         *)
(* assigned or added are told so, and the creator and all assignees of a    *)
(* change of status.                                                       *)
EventRules(c) ==
  CASE c.op = "created" -> <<Rule("ASSIGNED", c.added)>>
    [] c.op = "joined"  -> <<Rule("MEMBER", c.added)>>
    [] c.op = "task"    -> <<Rule("ASSIGNED", c.added), Rule("STATUS", c.watchers)>>

Write(r, c) ==
  /\ c.op \in {"created", "joined", "task"}
  /\ c.user \in access
  /\ Published(r)
  /\ Goto(r, Telling(r, c.user, EventRules(c)))
  /\ UNCHANGED <<plan, deaths, access, telling, phones, notes>>

-----------------------------------------------------------------------------
(* notify. *)

(* The slip of telling whoever an event names. *)
MutRecipients(actor, to) == to \ {actor}

(* The actor is left out, and so is who does not see the project now. *)
Recipients(actor, to) == (to \ {actor}) \cap access

CheckRecipients(r) ==
  /\ At(r, "rule")
  /\ LET e == req[r]
         to == Recipients(e.actor, Head(e.rules).to)
         left == Tail(e.rules)
     IN Goto(r, IF to # {} THEN [pc |-> "store", actor |-> e.actor, rules |-> left,
                                 kind |-> Head(e.rules).kind, to |-> to]
                ELSE IF left = <<>> THEN Done
                ELSE [e EXCEPT !.rules = left])
  /\ UNCHANGED <<plan, deaths, people, telling, phones, notes>>

(* The rows are inserted, and a push listener runs for each. *)
Stored(to, from, kind) ==
  /\ inbox' = inbox \cup [user : to, from : {from}, kind : {kind}, read : {FALSE}]
  /\ pushes' = pushes \cup [user : to, from : {from}, kind : {kind}, pc : {"find"}, tokens : {{}}]

StoreNotifications(r) ==
  /\ At(r, "store")
  /\ LET e == req[r] IN
       /\ Stored(e.to, r, e.kind)
       /\ Goto(r, IF e.rules = <<>> THEN Done ELSE Telling(r, e.actor, e.rules))
  /\ UNCHANGED <<plan, deaths, people, phones, notes>>

(* markRead, markAllRead, remove and removeAll, each for the user's own. *)
ReadOrClear(r, c) ==
  /\ c.op \in {"read", "clear", "clearRead"}
  /\ LET mine == {n \in inbox : n.user = c.user}
         some == IF c.all THEN {mine} ELSE {{n} : n \in mine}
     IN \E chosen \in some :
          inbox' = CASE c.op = "read" ->
                          (inbox \ chosen) \cup {[n EXCEPT !.read = TRUE] : n \in chosen}
                     [] c.op = "clear" -> inbox \ chosen
                     [] c.op = "clearRead" -> inbox \ {n \in chosen : n.read}
  /\ Goto(r, Done)
  /\ UNCHANGED <<plan, deaths, people, pushes, phones, notes>>

-----------------------------------------------------------------------------
(* Push. *)

(* A device that signs in to another account moves to it. *)
Register(r, c) ==
  /\ c.op = "register"
  /\ c.token \notin gone
  /\ devices' = {d \in devices : d[2] # c.token} \cup {<<c.user, c.token>>}
  /\ signedIn' = [signedIn EXCEPT ![c.token] = c.user]
  /\ Goto(r, Done)
  /\ UNCHANGED <<plan, deaths, people, telling, gone, notes>>

(* The slip of deleting by the token alone. *)
MutUnregistered(user, token) == {d \in devices : d[2] # token}

Unregistered(user, token) == devices \ {<<user, token>>}

(* Sent as one signs out, but it may arrive after the next one signed in. *)
Unregister(r, c) ==
  /\ c.op = "unregister"
  /\ devices' = Unregistered(c.user, c.token)
  /\ signedIn' = IF signedIn[c.token] = c.user THEN [signedIn EXCEPT ![c.token] = None]
                 ELSE signedIn
  /\ Goto(r, Done)
  /\ UNCHANGED <<plan, deaths, people, telling, gone, notes>>

Uninstall(d) ==
  /\ signedIn[d] # None
  /\ gone' = gone \cup {d}
  /\ signedIn' = [signedIn EXCEPT ![d] = None]
  /\ UNCHANGED <<plan, req, deaths, people, telling, devices, notes>>

FindTokens(p) ==
  /\ p.pc = "find"
  /\ LET found == {d \in Tokens : <<p.user, d>> \in devices} IN
       pushes' = (pushes \ {p}) \cup
                 IF found = {} THEN {} ELSE {[p EXCEPT !.pc = "send", !.tokens = found]}
  /\ UNCHANGED <<plan, req, deaths, people, inbox, phones, notes>>

(* FCM reports the tokens that will never work again; they are pruned,      *)
(* whosever they are by then.                                              *)
Dead(tokens) == tokens \cap gone

SendPush(p) ==
  /\ p.pc = "send"
  /\ devices' = {d \in devices : d[2] \notin Dead(p.tokens)}
  /\ pushes' = pushes \ {p}
  /\ UNCHANGED <<plan, req, deaths, people, inbox, signedIn, gone, notes>>

-----------------------------------------------------------------------------
(* Notes and their reminders. *)

Tick ==
  /\ now < MaxTime
  /\ now' = now + 1
  /\ UNCHANGED <<plan, req, deaths, people, telling, phones, note, claimed, reminded, crossed>>

(* The slip of a new reminder for every update. *)
MutChanges(new, old) == TRUE

Changes(new, old) == new # old

(* assertFuture, with a minute's grace. *)
InFuture(at) == IF at = None THEN TRUE ELSE at + 1 >= now

ReadNote(r, c) ==
  /\ c.op = "note"
  /\ note.live
  /\ Changes(c.at, note.at) => InFuture(c.at)
  /\ Goto(r, [pc |-> "note", at |-> c.at, was |-> note.at])
  /\ UNCHANGED <<plan, deaths, people, telling, phones, notes>>

(* The slip of a patch that leaves reminderSentAt alone. *)
MutPatched(r) == [note EXCEPT !.at = req[r].at, !.by = IF note.at = req[r].at THEN @ ELSE r]

Patched(r) ==
  [note EXCEPT !.at = req[r].at, !.sent = FALSE, !.by = IF note.at = req[r].at THEN @ ELSE r]

(* A time that is the one read is left out of the patch. *)
WriteNote(r) ==
  /\ At(r, "note")
  /\ note' = IF note.live /\ Changes(req[r].at, req[r].was) THEN Patched(r) ELSE note
  /\ crossed' = IF req[r].was # req[r].at /\ note.at = req[r].at
                THEN crossed \cup {note.by} ELSE crossed
  /\ Goto(r, Done)
  /\ UNCHANGED <<plan, deaths, people, telling, phones, now, claimed, reminded>>

RemoveNote(r, c) ==
  /\ c.op = "removeNote"
  /\ note' = [note EXCEPT !.live = FALSE]
  /\ Goto(r, Done)
  /\ UNCHANGED <<plan, deaths, people, telling, phones, now, claimed, reminded, crossed>>

Remindable == note.live /\ ~note.sent /\ note.at # None /\ note.at <= now /\ now < note.at + Late

(* The claim of a scheduler, of which there is one in each process. *)
ClaimReminder ==
  /\ Remindable
  /\ note' = [note EXCEPT !.sent = TRUE]
  /\ claimed' = claimed \cup {note.by}
  /\ UNCHANGED <<plan, req, deaths, people, telling, phones, now, reminded, crossed>>

Remind(s) ==
  /\ s \in claimed
  /\ claimed' = claimed \ {s}
  /\ reminded' = [reminded EXCEPT ![s] = @ + 1]
  /\ Stored({NoteOf}, s, "NOTE")
  /\ UNCHANGED <<plan, req, deaths, people, phones, now, note, crossed>>

-----------------------------------------------------------------------------
(* A request, its listener or a delivery dies. *)
Die(r) ==
  /\ ~At(r, "new") /\ ~At(r, "done")
  /\ deaths < MaxDeaths
  /\ deaths' = deaths + 1
  /\ Goto(r, Done)
  /\ UNCHANGED <<plan, people, telling, phones, notes>>

(* A scheduler dies between the claim and the notification. *)
LoseReminder(s) ==
  /\ s \in claimed
  /\ deaths < MaxDeaths
  /\ deaths' = deaths + 1
  /\ claimed' = claimed \ {s}
  /\ reminded' = [reminded EXCEPT ![s] = @ + 1]
  /\ UNCHANGED <<plan, req, people, telling, phones, now, note, crossed>>

InboxStart(r, c) ==
  \/ GrantOrRevoke(r, c) \/ Write(r, c) \/ ReadOrClear(r, c)
  \/ Register(r, c) \/ Unregister(r, c) \/ ReadNote(r, c) \/ RemoveNote(r, c)

InboxNext ==
  \/ \E r \in Requests : CheckRecipients(r) \/ StoreNotifications(r) \/ WriteNote(r)
  \/ \E p \in pushes : FindTokens(p) \/ SendPush(p)
  \/ \E d \in Tokens : Uninstall(d)
  \/ \E s \in Made : Remind(s) \/ LoseReminder(s)
  \/ Tick \/ ClaimReminder
=============================================================================
