# Taskify, specified

Taskify is a NestJS backend for task management: people, workspaces, projects, tasks and chat,
kept in MongoDB and announced over Socket.IO. Several instances of it may run side by side, and
every handler is a chain of awaited database calls between which other handlers run. These
TLA+ modules say what that code does to its data, TLC checks them on small instances, and TLAPS
proves the main results for any number of users, tasks and requests.

    tlc -workers 2 -config MCMembership.cfg MCMembership      # one run of those below
    tlapm MembershipProofs.tla                                # one of the proof modules

`PROJECT.json` lists the components, the runs, the hazards, the theorems, and for every
definition that models code the lines it stands for.

## 1. The system

| Component | State | Operations | Talks to |
|---|---|---|---|
| Permissions (`common/authorization`) | none | role matrix, ranks, `canManageRole` | everybody asks it |
| Workspaces and members | `workspaces`, `workspace_members` | create, lazy personal workspace, delete; update, remove, leave | removal writes project members and tasks in one transaction |
| Invitations | `workspace_invitations` | create, list, cancel, accept, decline, expiry | accepting inserts a membership in the same transaction |
| Projects and project members | `projects`, `project_members` | create, update, delete; add, remove | `usersWithAccess` is asked by tasks, comments and notifications |
| Tasks | `tasks` | create, update, delete with subtasks | reads labels, project access; deletes dependencies |
| Dependencies | `task_dependencies` | add, remove | reads tasks |
| Labels | `labels` | create, rename, delete | deletion pulls the label from every task |
| Reminders (tasks, notes) | `dueReminderSentAt`, `reminderSentAt` | cron jobs in every instance | claim, then notify |
| Chat | `conversations`, `chat_messages` | open, send, mark read, delete, clear | presence, push, gateway by events |
| Presence | `presence_sessions`, sockets of the process | connect, disconnect, heartbeat, sweep, announce | gateway by events |
| Realtime gateway | Socket.IO rooms, the typing cache of a socket | connect, subscribe, typing, broadcast, revoke | listens to all events |
| Accounts and sessions | `users`, `user_identities` | sign up, codes, login, refresh, social login, phone, close, moderate | creates the personal workspace |
| Comments, attachments, avatars | their collections, files | create, edit, delete; upload, download, remove | task access; comments are told to people by events |
| Notifications inbox and rules | `notifications` | notify, read, clear; rules that listen to events | push, gateway |
| Push | `device_tokens` | register, unregister, deliver, prune | an outside service |
| Notes | `notes` | create, update, remove, reminder | inbox |
| Activity log | `activity_logs` | record every event; feeds | domain events, project access |
| Search, dashboard, my tasks | none | lists and figures, read in several queries | project access |
| Migrations, integrity checks | every collection, a ledger | three migrations run before a deploy; `db:check` | all collections |
| AI planner, health, email, landing page, seeds, guards | none | | |

Components interact in four ways: by direct calls in one request; by **transactions**
(`TransactionRunner.run`), which see a snapshot and are repeated by the driver after a conflict
of writes; by **domain events**, in-process and after the write, which nothing waits for; and by
**shared documents**, where nearly everything hard happens.

What is hard is the same everywhere. A handler *reads, decides and writes* in different awaits,
and most decisions are not protected by anything: no version numbers, no conditions in the
filter of the write. What does protect is of three kinds, and each has its own reach: a unique
index (one membership, one pending invitation, one message per key), one atomic update
(`findOneAndUpdate` with the condition in its filter, `$max`, `$inc`), or a transaction, which
only conflicts on documents it *writes*. The properties ask which promises survive on that,
and which hold only as long as nobody else writes.

What makes each component correct:

- **Workspaces**: one OWNER row, the owner's, for ever; a personal workspace is private;
  nobody manages their equals; a removal hits the membership it was decided about.
- **Invitations**: an answer is final; a membership comes from using up exactly one offer, with
  the offered role, and the two happen together or not at all.
- **Tasks and dependencies**: one level of subtasks, one project, no cycles, nothing live under
  or linked to something deleted; `completedAt` follows the status.
- **Labels, assignees, project members**: no reference outlives what it refers to; who leaves
  keeps no open work; who is assigned can see the project.
- **Reminders**: once per time that was set, whatever the number of instances, and not never.
- **Chat**: numbers are unique, retries make no duplicates, markers never go back, what is
  sent shows up and what is cleared does not come back.
- **Presence**: a device that stays connected keeps its row; however a connection ends, its row
  goes; what others see is right once nothing is on its way.
- **Gateway**: who may no longer hear of something leaves its room, who may hears of every
  change, and nobody is shown as typing for good.
- **Accounts**: a refresh token or a code is used once; a phone number that replaces the one from
  sign-up was proven; a social account finds its user again; a closed account refuses nobody a
  sign-up, with a password or through Firebase, and starts no session.
- **Comments, files**: threads stay whole; a listed file can be downloaded and no file is
  forgotten.
- **Inbox, push**: told once, only who may see it; a device belongs to who signed in on it.
- **Views**: the four ways to say who sees a project agree; nothing is shown that was not
  visible; the figures of a page agree with each other and with the lists behind them.
- **Migrations**: whatever run dies wherever, nothing is lost; what is recorded as done is done
  for good, and passes `db:check`.

## 2. Modules

| Module | Models | Its state |
|---|---|---|
| `Permissions` | the matrix and the ranks of `permissions.ts` | none |
| `Roster` | *abstract*: what membership promises, without requests or races | founder, closed, roster, offer |
| `Membership` | workspaces, members, invitations, request by request; implements `Roster` | ws, member, inv, req |
| `TaskGraph` | creating, nesting, linking and deleting tasks | task, edges, req |
| `TaskFields` | status, dates, assignees, labels, reminders, project members, and leaving | member, onProject, label, task, reminders, req |
| `Chat` | one conversation | conv, msgs, active, req, lost |
| `Presence` | sockets, their rows, heartbeat, sweep, announcements, failing processes | up, opened, open, local, rows, hidden, job, shown |
| `Realtime` | rooms, subscriptions, revocation, broadcasts and typing of one process | member, onProject, conn, rooms, access, typing, req; clients: told, stale, shows |
| `Accounts` | sign-up, sessions, codes, social links, phones, closing, moderation | user, link, req |
| `Inbox` | notify and its rules, push deliveries, device tokens, a note with its reminder | inbox, pushes, devices, note, access, req |
| `Content` | comments, attachments, avatars; EXTENDS `Inbox`, which tells people of a comment | comments, files, rows, avatar |
| `Integrity` | the checks of `db:check`, as sets of offending documents | none |
| `Migrations` | the three migrations, their ledger, dying runs, a live application; EXTENDS `Integrity` | db, ledger, run |
| `Calendar` | days, weeks and date keys of `common/utils/query.ts`, and MongoDB's | none |
| `Views` | who sees a project, and the views that read across projects; EXTENDS `Permissions`, `Calendar` | live, member, project, rows, task, log, req |
| `MembershipProofs`, `TaskFieldsProofs`, `RealtimeProofs`, `ChatProofs`, `ContentProofs`, `ViewsProofs` | theorems about the module of that name | |
| `PeopleProofs` | theorems about `Accounts` and `Presence`, which share no state | |
| `DatabaseProofs` | theorems about `TaskGraph` and `Migrations`, which share no state | |
| `MC...` | instances for TLC | |

### How code becomes actions

A request occupies a slot of `req`. Its fields are the local variables of the handler that are
used after an await, and `pc` names the call it is about to make. **One action is one database
call with the code up to the next one**; guards are the early returns and the conditions in
filters, and the actions of other slots run in between. Two consecutive reads are merged into
one step when nothing is kept from the first but the right to go on; each module says so where
it does. A handler with one write whose condition is in its filter (decline, markRead's `$max`,
the reminder's claim) is one action from the read its answer rests on.

Transactions are modelled by what MongoDB makes of them. `accept` reads a workspace it does not
write and so sees it as of its snapshot; a task's removal, a member's removal and a label's
removal write exactly the documents their snapshot had, unless somebody has written one of
them since, when they start again from a new snapshot (`conflict`, `Again`). A document inserted
after the snapshot is not seen. A transaction whose outcome depends on nothing but the documents
it writes is one atomic step.

A request that publishes an event stays in its slot with the event due (`pc = "due"`, `"rule"`
or `"store"`), and its listener is a later action of that slot: it runs after the write, in any
order with the listeners of other requests, and not at all if the process dies first.

**Variables without a counterpart in the code.** `clean` in `TaskGraph`, `TaskFields` and
`Accounts` says that no other request has written since this one's first read (or since its
transaction's snapshot); properties of the form *undisturbed requests keep X* speak of it, and
`calm` in `Views` is its like. The other history variables record which of the weak points
listed in section 3 has struck, so that a property can be stated exactly: it holds, except for
what they name. They are `lost` (Chat), `behind` and `lapsed` (Presence), `missed`, `emptied`
and `ghosts` (Realtime), `dropped` (Accounts), `crossed` (Inbox), `orphans` and `strays`
(Content), `removed` and `cut` (Migrations), `strays` (Views). `given` (Accounts) is the phone number
an account signed up with.

What the data is reduced to: a document has only the fields a property reads. A date is set or
not, or one of a few; an email address is its account; a message is its number; what a request
makes up at random (an `_id`, a token, a code) is named after the request; titles, texts,
positions and everything displayed are left out, and so are list endpoints unless they write
(listing invitations expires them) or are what `Views` is about.

### Where each part of the code went

- `Membership`: `ensurePersonalWorkspace` is `EnsurePersonalFind`/`Insert`; `create` of an
  invitation is `InviteAuthorize`, `InviteMembership`, `InviteExpire`, `InviteInsert`, one per
  call; `cancel`, `accept`, `update` and `remove` are likewise split, ending in the write.
  `Lapse` is time passing an invitation's `expiresAt`. Membership rows have an `id`, because
  `update` and `remove` write by `_id` and a person may have left and come back meanwhile.
- `TaskGraph`: `add` makes four reads and an insert, and its cycle search is
  `WouldCreateCycle` over everything downstream; `remove` is a snapshot and a commit.
- `TaskFields`: `update` decides a patch on the document it read (`UpdatePatch`), checks
  assignees and labels, and writes only the given fields of whatever the task has become
  (`Patched`). `member` is what project access sees of a workspace membership: none, suspended,
  or active in a role that reads every project or not; how it comes about is `Membership`'s.
  The four reads of `usersWithAccess` are one. The clock is left out: any due date may be the
  one that is near. What happens after a task's reminder is claimed is not modelled here; the
  note's reminder, which has the same form, is followed to the inbox in `Inbox`.
- `Chat`: `send` takes a number, inserts, updates the summary and the sender's marker, one
  await each, and may die at any of them (`lost`); `markRead`, `deleteMessages`, `clear` write
  what they decided on the conversation they had read.
- `Presence`: a connect, a disconnect and a change of availability occupy a slot of `Handlers`;
  each process has one more slot for its sweep. `instanceId` is random, so a process that
  restarts is another member of `Instances`, and a socket id is never used again. The clock is
  reduced to fresh or stale: `Age` is 90 s without a heartbeat and cannot happen to a row a
  process vouches for, except by `AgeUnexpectedly`, three failed heartbeats in a row. The two
  parallel lookups of `announce` are one step. `Push` reaches the clients of one process only,
  since there is no Socket.IO adapter (`src/docs/WORKFLOW.md:370`), and `Load` is a client that
  fetches its chats or contacts.
- `Realtime`: a subscription reads the membership, perhaps the project's row, and joins, a step
  each; `typing` checks the conversation (or trusts a check of up to 30 s, which `Expire` ends)
  and forwards; `add`, `drop`, `remove`, `update` and `accept` are the writes whose events the
  gateway hears, and `Deliver` is the listener: broadcast, emptying the project's room of a user
  (`Empty`), or closing the user's sockets (`Kick`). A client fetches as soon as it is told or
  its subscription is acknowledged, so `stale` is the rooms with a change it has not been told.
- `Accounts`: every request makes one call; a read and the decision on it are one step, and the
  write by `_id` another. `social` takes a step for the link, the user, forgetting a dead link, the
  user by email, the name and the creation, and starts again when an insert collides. `register`
  stores the phone number of its body, for which no code is sent. An administrator's update may
  switch an account off and keep its sessions (`adminOff`); its avatar is in `Content`. Expiry and
  cooldown of a code are a request that is refused. Names are taken or free, `Base` is the one made
  from an email address.
- `Inbox`, `Content`: one project and one task. `access` is who sees the project; a comment is
  looked up, its mentions checked, and inserted; removing one removes its replies with it; a file
  and its row, an avatar and its old file are written one after the other and a request may die in
  between; an administrator's change of an avatar to a URL is one write that looks at no file
  (`ReplaceAvatar`). The rules are lists of recipients (`rules`), told one after the other by
  `CheckRecipients` (who has access now) and `StoreNotifications`. A push delivery looks up the
  tokens and then sends, and prunes those that are dead.
- `Integrity`, `Migrations`: a database is a function from names of collections to documents
  that are functions from the fields they *have*, so that a missing field, a null and a value
  differ as they do in MongoDB. Each action of a migration is one operation or one round of its
  loop, `Crash` is a run that dies anywhere, `Record` the ledger, and `AppStep` a call the new
  release answers meanwhile, whose boot creates the indexes and the collections.
- `Views`: `Resolves` is `WorkspaceAccessService.resolve`; `Authorized`, `UsersWithAccess`,
  `VisibleProjects` and `AccessibleProjectIds` are the four checks of
  `project-access.service.ts`. A view reads memberships, live workspaces, rows, projects and
  then its queries in any order (`Promise.all`), a step each; the writes of other modules are
  one step each, except for adding a project member, whose insert is a step after its check.
  `strays` are projects and rows that came into being while their user had no access.

## 3. What TLC checks

| Run | Question | Instance | Result |
|---|---|---|---|
| `membership` | ownership, private personal workspaces, stale rows, refinement of `Roster` | 2 people, 1 organization, 1 id for a personal workspace, 2 invitations, 2 requests (457,080 states) | holds |
| `chat` | one message per key, the inbox catches up | DM, 2 devices, 2 messages, one retried key, crashes | holds |
| `chat_group` | what is cleared stays gone | group of 3, one leaves and rejoins, one hides messages, 1 message | holds |
| `task_graph` | tree, projects, cycles, dangling edges | 3 tasks, 2 projects, 2 requests | holds |
| `dependency_cycle` | cycles without the hypothesis that nobody else writes | 3 tasks, 1 project | **violated** |
| `task_fields` | completion, reminders, labels, leavers, assignees | 1 task, 1 person, 1 label, 1 date, 2 requests, schedulers | holds |
| `presence` | rows of open sockets, what clients show, rows of ended connections (liveness) | 1 person, 2 devices, 2 processes, 2 requests, 2 sweeps | holds |
| `realtime` | rooms follow access, nobody with a subscription is deaf, typing is taken back, who is revoked leaves in the end (liveness) | 2 people, 1 socket each, 3 calls, 1 expired check (368,341 states) | holds |
| `accounts` | secrets used once, phones proven after sign-up, social links, no sign-up refused over a deleted account but for a social one's name, sessions | 3 calls out of 26, 2 addresses, 2 names, 2 phones, 1 Firebase account, four situations to start from (426,532 states) | holds |
| `content` | threads, files and rows, who is told and how often, devices, reminders (with liveness) | 3 users, 2 devices, 3 calls out of one of six sets, 1 death (190,150 states) | holds |
| `migrations` | what is recorded is converted for good and passes `db:check`, nothing is lost, it gets done (liveness) | two databases, 1 run that dies anywhere, 2 calls of the application (552,173 states) | holds |
| `views` | four ways to say who sees a project, nothing shown that was not visible, figures add up | 2 people, 2 workspaces, 3 projects, 4 tasks, 1 view and 2 writes, 3 timezones (315,924 states) | holds |

Every property of a passing run is violated by at least one plausible slip, defined beside the
operator it replaces as `Mut...` (a dropped check, a filter that forgets a field, an order
swapped); `PROJECT.json` pairs them.

**Why the bounds are enough.** Every conflict in this code is between one request that has read
and another that writes, so two slots show it; a third request runs after one of the two has
ended, or, where each slot makes one call only (`Realtime`, `Accounts`, `Content`, `Views`), is
the third slot. Two people are the least that can invite and remove each other. Two messages
are the least that can arrive out of order. Three tasks make a chain longer than an edge and a
parent with a subtask and a stranger. In `TaskFields` nothing relates two tasks or two labels,
so one of each is enough, with one person who is added, assigned, removed and comes back; the
bodies are a click that changes one field, a form that sends back several, and one that clears
the date while it assigns and tags. In `Presence` nothing relates two people; the device of the
watched process comes and goes while the other one stays at a process that may fail in every
way (`Closers`, `Watchers`, `Faulty`), so both sweep, a sweep meets a heartbeat, and a crash
meets an announcement.

In `Realtime` one of the two people reads every project and the other only those she is in;
everything that is revoked or granted is hers, but for a suspension of the other while they
type; in the beginning she is active, or suspended, so that one of two crossing updates may give
her access back while she subscribes, or no member but still in the conversation, so that she may
come back while he types. In `Accounts` the situations are an account that came
through Firebase, one that has not verified its address and came with a phone number, and two that a moderator has deleted
and that still hold an address, a name or a link; the secrets presented are old ones or what the
first call has made, since those of the others are like it. The calls of `Content` are drawn
from one of six sets (threads; who is told; reading and clearing; devices with a reminder; a
note's reminder; files and avatars), between which there is nothing to collide. `Migrations`
starts from a database from before workspaces, with names that differ in case, a task without a
project, comments on tasks that are gone and labels that are the same but for case; or from one
of the previous release under the old names. A second crash starts from a state the first may
have started from, since a run keeps nothing. In `Views` the day has two ticks, which is enough
for a due date at its beginning, its end and the tick before, and the due dates and completions
are at the ends of today, of the seven days ahead and behind, and of the week, in three
timezones; the access plans have somebody with a row, with a role that reads everything, and
suspended.

`MaxSeq`, `MaxInvites`, `InviteRoles`, `UpdateBodies`, `SendKeys`, `Clients`, `Movers`, `Hiders`,
`Bodies`, `Calls`, `Seeds`, `Plans`, `Legacy`, `MaxExpiries`, `MaxTime`, `MaxDeaths`, `MaxCrashes`
and `MaxApp` are the bounds, all of them constants of the module they are used in. `MaxTries`,
`Late` and `ListLimit` are the code's own. Symmetry is used for users, requests, projects,
tasks and personal ids where the properties treat them alike; the runs that check liveness
(`presence`, `realtime`, `content`, `migrations`) use none.

**Fairness.**

- `Presence`: a handler that has begun goes on as long as its process lives (weak, on
  `Proceed`): nothing it waits for can block it, and a refused database call ends it by `Fail`.
  The intervals fire for ever, since `heartbeat` and `sweep` catch every error (weak, on
  `Heartbeat`, `SweepFind`, `SweepCheck`), and time passes (weak, on `Age`). A sweep may fail
  between its find and its delete and starts again at the next interval; that the database is
  not down at every single one is strong fairness of `SweepDelete`. No fairness is given to
  clients, failures or shutdown, nor to the TTL index, which the sweep must not need.
- `Realtime`: a listener whose event was published runs (weak, on `Deliver`): it is in the same
  process, and the event loop gets to it. None for requests or clients.
- `Content`: the reminder's cron fires and what it has claimed it goes on to tell (weak, on
  `ClaimReminder` and `Remind`); a scheduler may still die over it (`LoseReminder`).
- `Migrations`: deploys are tried again and a run that does not die goes on (weak, on `Start`,
  `Record` and `MigrationStep`). The application owes nothing.

The other modules have safety properties only and assume none.

`CHECK_DEADLOCK FALSE` is given where the system may stop: every id or every call may have been
used up and nobody needs to ask for anything more, the migrations may be done, and in `presence`
every process may have died.

### The violated run

`dependency_cycle`: two adds search before either inserts, and close a cycle together, although
`docs/WORKFLOW.md:339` says that there are none. They need to overlap within milliseconds, and
nothing prevents it.

### Weak points

The hypotheses and history variables of the passing runs are the weak points of the code. What
follows can happen; it is what each property excuses, or what the models showed before the
property was given its hypothesis.

*Membership and access*

- `workspace-members.service.ts:182`: `update` compares ranks as read and writes by `_id` alone.
  An admin whose request read a MEMBER suspends somebody who has been made ADMIN in between.
- `workspace-members.service.ts:187`: the event of an update is decided by the member read. Of
  two updates that cross, one may write a change it does not announce, and the user's
  subscriptions stay, those it is still checking the project of included (`missed`).
- `realtime.gateway.ts:285`: a subscribe that has passed its check joins the project's room
  after `onProjectMemberRemoved` has emptied it of its user (`missed`). A client taken out of a
  project's room is not told, and stays deaf if its user still sees the project by its role
  (`emptied`).
- Deleting a workspace publishes no event, so subscriptions to it end with the connection.
- A view that has read a membership joins it with projects and rows created later, when the
  membership may be gone (`strays` of `Views`).

*Chat and presence*

- `chat.service.ts:539`: `markRead` is capped at `lastSeq`, which counts numbers handed out, not
  messages stored. A message still being inserted arrives already read; a number whose insert
  failed leaves the marker past the last real message.
- `chat.service.ts:645`: `clear` hides the chat as of the conversation it read; a message sent
  between its read and its write stays hidden although it is newer than what was cleared.
- `chat.service.ts:483`: a process that dies between the insert and the summary leaves the inbox
  without the message, and the retry finds it by its key and updates nothing (`lost`).
- `chat.service.ts:398`: messages commit out of the order of their numbers, and a client that
  catches up with `after` passes over one inserted later.
- An announcement of presence that has looked and is overtaken by another change leaves clients
  wrong until they load again (`behind`). An open socket whose upsert failed, or whose process
  was silent for 90 s while another one swept, is offline for good, because a heartbeat refreshes
  rows and never inserts one (`lapsed`). Clients of other processes are never told. And
  `onModuleDestroy` runs when the application is closed by itself: `main.ts` never calls
  `enableShutdownHooks`, so a process stopped by a signal is a `Crash`, and its rows wait for
  somebody's sweep.
- Typing is not taken back (`ghosts`) if its check is under way as the socket closes or as a peer
  is suspended, if a check fails while it stands (`realtime.gateway.ts:175`), if a peer who sees
  it is suspended by an update that is not announced, or if two checks of one socket are answered
  in the other order (`realtime.gateway.ts:172`): the older answer leaves out who became a peer in
  between.

*Tasks and projects*

- `tasks.service.ts:190`: `update` decides about `completedAt` on the status it read, but writes
  the status it was given even when that is the one it read. Sent along with another change, it
  undoes a status changed meanwhile and leaves `completedAt` behind.
- `projects.service.ts:137`, `tasks.service.ts:159`: two updates that each check one date against
  the other as read leave a start after the due date.
- `due-date-reminder.scheduler.ts:40`, and the notes' like it: a reminder is claimed before anybody
  is told, and a death in between loses it.
- `search.service.ts:132`: a search finds comments of deleted tasks, although
  `docs/WORKFLOW.md:178` says of it "only things I can see".

*Accounts*

- `auth.service.ts:203` and the codes: a secret is read and taken away in two steps, so two
  requests that overlap may both use it.
- `auth.service.ts:293`: verifying an address starts a session even if the account was
  deactivated.
- `auth.service.ts:507`: `findLinkedUser` forgets the link of a closed account by its uid,
  although another sign-in may have just made it anew (`dropped`).
- `auth.service.ts:519`: social sign-up releases a deleted account's address but not its name, and
  `availableUserName` (line 561) passes over deleted accounts. Somebody whose address makes the name
  of an account a moderator has deleted is given that name at every attempt, and the third ends in
  an error although nobody alive has it (`NameHeld`); `register` releases both. The third attempt
  also ends so if the random names it tried were taken.
- `auth.service.ts:112`: sign-up stores a phone number without a code, so a number that an account
  came with says nothing; `PhoneProven` is about those put in its place.

*Files and comments*

- A reply is inserted under a comment removed since it was looked up (`orphans`).
- A death between a file and its row, or two changes of an avatar that cross, leave a file that
  nothing refers to (`strays` of `Content`), and so does an administrator who replaces an uploaded
  avatar by a URL (`users.controller.ts:177`), crossed by nobody: `updateProfile` deletes the old
  file, `updateUser` does not. An insert that took place although its answer was
  lost has its file deleted.

*Migrations*

- `003-canonical-names.ts:25`: a row that was copied before a crash, and removed by the
  application since, is copied again by the next run (`removed`); `003-canonical-names.ts:69`
  writes `deletedAt` from the old flag and opens an account that was closed meanwhile.
- `001`: a run that dies between moving a project and adding its owner's row leaves it without
  (`cut`), because the next run skips projects that have a workspace. Line 231 keeps an assignee
  who is the task's creator, but the personal workspace is that of the project's owner, in which
  the creator may be a stranger.
- `run-migrations.ts:21`: nothing keeps two deploys from migrating side by side.

## 4. What is proved

TLAPS checks every step; the constants are any sets with the assumptions the modules name
(`MembershipAssumption`, `TaskGraphAssumption`, `TaskFieldsAssumption`, `PresenceAssumption`,
`RealtimeAssumption`, `ChatAssumption`, `AccountsAssumption`, `InboxAssumption`,
`ContentAssumption`, `ViewsAssumption`, `MigrationsAssumption`): the "no such thing" values are
not members, clients send bodies and calls of the right shape, a socket has one user and one
process, and in the beginning memberships have their types, and rows and tasks the workspace of
their project; of accounts, that no two keep the same secret and that a live one made by social
sign-in is linked; of comments, that they are at the top level; of files, that each has its row;
of views, that there are finitely many projects and tasks; of a legacy database, that its ids are
older than those to come, that its ledger records migrations from the first on, whose old shapes
it no longer has, and that a comment with the old flag has no workspace yet. TLC evaluates every
one of them on the instances.

**Membership.** `TypeCorrect`, `OwnerCorrect`, `PersonalCorrect`, `ActsCorrect`. `OwnerMembership`
is not inductive: an update in flight could be about to write an owner's row or grant the role
OWNER. `IInv` adds that pending invitations lead into organizations with an invitable role
(`InvitesLeadIn`) and, for every `pc`, what the request has established for good (`RequestsOK`):
its workspace is an existing organization, its target is not the owner, the role it grants is not
OWNER. Ownership never changes, so these survive other people's steps, and `NobodyManagesOwner`,
about `CanManageRole`, establishes them. `ActsOnTheRowRead`, an action property, follows from what
`RequestsOK` keeps of the row that was read until the step that writes it.
`MembershipImplementsRoster` maps every step to a step of `Roster` or a stutter under the same
invariant.

**TaskGraph** (in `DatabaseProofs`). `TypeCorrect`, `TreeCorrect` (one level, one project) and `AloneCorrect`.
What a request knows about a task is of two kinds: a task's project and parent never change
once it exists, and this stays true in any interleaving; that it is live, has no path back or
has exactly these subtasks is true only while `clean`. `IInv` states both, per `pc`. The graph
part is `CheckedEdgeClosesNoCycle`: if nothing downstream of *b* reaches *a* in a finite search
that follows every edge, adding *a → b* to an acyclic set of edges leaves it acyclic. Acyclic
is said without paths ("every non-empty set of tasks has one that blocks none of the others"),
which makes it first-order and needs no induction.

**TaskFields.** `TypeCorrect`, `CompletionCorrect`, `ReminderCorrect`, `LabelsCorrect`,
`LeaversCorrect`, `AssigneesCorrect`. The invariant again has what a request `Holds` for good
and what it has `Established` as long as it is clean: the patch is right for the task
(`RightFor`: completion follows, the reminder is due again only for a new date, everybody new
is among those to check), the new assignees can see the project, the labels exist, the
snapshot's hits are still all there are. `UpdateIsRight` shows the first of `UpdatePatch`.
Each writing step is then shown to keep the invariant and, if undisturbed, all five promises
at once (`Promise`).

**Presence** (in `PeopleProofs`). `TypeCorrect`, `OpenRowsCorrect`, `ShownCorrect`. Two parts carry
the invariant. `RowsRight` says, socket by socket, which rows it may have: none before its upsert,
a fresh one while its process vouches for it, and never the target of a sweep or a delete while it
is open and has not lapsed. `EveryoneTold` says for every watched process and every user that the
clients are right, or the user is excused by `behind`, or something is on its way that will put
them right: a job that is about to look, one that has looked and holds the present truth, or a
check or a stale row that leads to one. `ShownIsRight` is the case in which nothing is on its way.

**Realtime.** `RoomsCorrect`, `InformedCorrect` and `TypingCorrect`, for any users, sockets and
requests.
`RoomsFollowAccess` is not inductive, because a subscription outlives its check: the invariant
says the same of the rooms a request is about to join (`JoinAccounted`), and of one that has
read the membership but not yet the project's row, that its user is still active or its sockets
are due to be closed (`RowAccounted`). Every write that takes access away publishes the event
that makes up for it (`LossesAccounted`), except an update that is not announced; and one that
finds the member it read changes nothing then (`UnannouncedChangesNothing`). This is where
`missed` had to grow from the rooms joined to those asked for. `InformedOfChanges` needs that a
client believes in no subscription that the server does not have (`ToldHolds`). For
`TypingRetracted` the invariant says who vouches for what a client shows (`Vouched`): an open
socket of the one who types, whose last forwarded word was "typing" and whose cached peers include
the viewer, who is still a member; all three are what its next word, or its disconnect, is sent by.
Where nobody vouches, the user's own revocation is still due or one of her sockets is in `ghosts`.

**Chat.** `SentOnceCorrect`, `SummaryCorrect`, `GoneCorrect`, for any participants, keys and
numbers. `SentOnce` counts messages, so it is proved from `KeysOK`, which says the same of two
of them. `NumbersOK` is the base: a number belongs to the one request that holds it, and until
that one inserts there is no message under it, so that an insert only has the index to fear.
`SummariesOK` needs to know which of a send's three updates are through (`UpdatesOK`), in
whatever order they run beside those of other sends; each is atomic and never goes back.
`GoneStaysGone` follows from every step being `Forward`: markers and hidden messages only grow,
and what is erased stays erased.

**Accounts** (in `PeopleProofs`). `AccountTypesCorrect`, `SecretsCorrect`, `PhonesCorrect`,
`LinksCorrect`, `SignUpCorrect`, `SessionsCorrect`. None of the five properties is inductive: they
speak of the end of a request, or of the step to it, and the invariant says what leads there of
every `pc` on the way. `Carry` is the base: what a request carries where it is, and that an
account a request works on exists. A secret is kept by one account, was made by a request that has
ended (`Past`), and once taken away it is nowhere, so nobody can find it again (`SecretInv`); who
still presents it had found it before, and has been overlapped by the one who took it. A number
about to be saved has been proven, or is the one the account came with, although the code may be replaced meanwhile
(`PhoneInv`, `MayHave`). What an undisturbed request has seen is still so (`SessionOK`, `SignUpOK`,
`LinkOK`): an undisturbed sign-up that inserts has found nobody alive with its address and name, and
has released those of deleted accounts, or, through Firebase, the address; so what a step may refuse
it over (`NotRefused`) is what `SignUpSucceeds` allows. That one is an action property, and every
step of an undisturbed sign-up is `SignUpRight`. The 32 kinds of
step are not taken one by one for each part: `EveryStep` shows once what any of them comes to,
`Effect` (how documents and other requests may change) and `Right` (what it owes the invariants),
and the parts are then kept by every step of that form.

**Content and the inbox.** `DevicesCorrect`, `RemindersCorrect`, `RepliesCorrect`, `HeardCorrect`,
`ToldCorrect`, `FilesCorrect`, `NoneForgotten`, over the types (`Base`). Only
`DevicesFollowSignIn` is inductive with no more than these. `ReminderInv` follows a setting of the
note: it waits for a scheduler, or one has claimed it and not yet told, or its reminder is in the
inbox, and of these only one. `ThreadInv` knows of a reply about to be inserted that its parent was
listed and at the top level. `TellingInv` adds to `HeardOnce`, for the request that tells of a
comment, that those whose turn it is, those of the rules to come, those already told and the author
are apart from each other; and to `ToldWhoSees`, that whom a listener has found to see the project
is among those who have seen it since. `FileInv` says whose a file is: an avatar or an attachment
and never both, worn by one user at most (`OneWearer`), and for every file that exists who refers
to it or is about to store, replace or delete it, unless `strays`
names it (`Remembered`, `Owes`).

**Views.** `VisibilityCorrect`, `ShownCorrect` and `FiguresCorrect`. The four ways to say who sees a project agree
because of two facts that every write keeps (`Database`): rows and tasks carry the workspace of
their project, and a project that exists keeps its workspace. That nothing is shown which was
not visible needs an invariant of what a running view *may still come to show*: `Coming(v, p)`
says, for every read it has behind it, which projects the reads to come can lead to as the
database is now, and `ViewsOK` that each of them is `Near`, which is visible now, or was at some
step since the view began, or is a stray. A view's own read only narrows `Coming`. A step of
somebody else can only widen it by a project or a row that comes into being, and such a one is
visible at once or a stray (`Drift`); and what it hides was visible in the state before, which
`Watch` has recorded. `FiguresAddUp` speaks of an undisturbed view, whose queries all read one
database, so it is a statement about that database: sets that are counted one by one are a
partition of what they are to add up to, and the total of a function over a finite set is the
cardinality of the union (`TotalOfParts`). A sum is the value of a function defined by recursion
over the subsets; that two such functions agree is proved from the least set on which they do not
(`SumsAgree`, by `LeastNumber`). The calendar is arithmetic: `ChartDays` and `ThisWeek` show that the
seven days of the chart, as MongoDB keys them by timezone, are the seven days the code enumerates
by offsets.

**Migrations** (in `DatabaseProofs`). `NothingIsLost` and `ConvertedForGood`, for any legacy
databases, any number of runs that die and of calls the application answers. Neither property is
inductive, since both are silent about a run at work. `MigrationInv` says, for every place of a
run, which documents are still to do: the loop over the projects has exactly those without a
workspace before it, save the ownerless ones (`ProjectsOK`), that over the tasks all that lack one
(`TasksOK`), a comment that still has its flag is waiting to be scoped (`ContentOK`), and of a
collection that is being merged every row is either still to be copied or already under the new
name, where a project member is the very document it was (`MembersOK`). That is why the old
collection can be dropped, and why the next run may start from the beginning. `Passed` is the
one way a part becomes true for good: its migration is recorded, or about to be, or past the step
that does it. Steps are compared collection by collection (`QuietBut`, and `KeepUsers`,
`KeepProjects` and so on for what a write may not disturb); the application needs to keep the same.

**Only model-checked.** Of the safety properties, `RecordedIsIntact` of `Migrations`: that a
migrated database passes all of `db:check` depends on all of it having been consistent before, in
each of the shapes of the three releases, and an assumption that says so would repeat the checks
it is to imply. Its part about old shapes, `RecordedIsConverted`, is proved. Of the
liveness properties, all: `RowsGo`, `RevokedLeaves`, `RemindedInTheEnd`, `MigratesInTheEnd`.
Liveness under fairness and `ENABLED` are out of this prover's reach and stay with TLC.

## 5. Not modelled, and the plan

Not modelled because nothing can go wrong between steps: read-only endpoints, wiring,
validation (what it refuses is left out of the inputs), outside services (email, the AI
planner), guards that look at nothing but a token and a role, the landing page, and seeds that
fill or empty a database nobody else uses. Renaming things is left out where no property reads
the name. `PROJECT.json` gives a reason for every component.

Left out of what is modelled: the driver's limits on a transaction (one that gives up is a
request that never commits, which the models allow); several projects and workspaces in
`TaskFields`, `Realtime` and `Content`; the unique name of a label; updates of a project; renaming
a group; chat pushes, which skip whoever is connected; notifications about invitations, which go
to one person unchecked; pages after the first and the order within a page; the renaming of the
reset code's fields and the dropped indexes in the migrations; two migrations at the same time.

Next, in this order:

1. An abstract specification of a conversation (a log with markers) that `Chat` implements.
2. Labels with their unique names, and project updates, in `TaskFields`.
3. `RecordedIsIntact`, check by check: which of them each migration needs of the release before it.
