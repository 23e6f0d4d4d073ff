---------------------------- MODULE MCContent ------------------------------
(* Three calls drawn from one of six sets. *)
EXTENDS Content

CONSTANTS u1, u2, u3, d1, d2

Comment0 == [live |-> TRUE, author |-> u1, parent |-> None, mentions |-> {}]
MCComments0 == [m \in {Earlier} |-> Comment0]
MCAvatar0 == [u \in Users |-> None]

NoNote == [live |-> FALSE, at |-> None, sent |-> FALSE, by |-> Earlier]
DueNote == [live |-> TRUE, at |-> 1, sent |-> FALSE, by |-> Earlier]
Calls(set) == [calls |-> set, note |-> NoNote, now |-> MaxTime]

Access(u) == [op |-> "access", user |-> u]
Say(u, parent, mentions) ==
  [op |-> "comment", user |-> u, parent |-> parent, mentions |-> mentions]
Token(op, u, d) == [op |-> op, user |-> u, token |-> d]
Set(at) == [op |-> "note", at |-> at]
Avatar(to) == [op |-> "avatar", user |-> u2, to |-> to]
Upload1 == [op |-> "upload", user |-> u1]
Detach(u, file, uploader) == [op |-> "detach", user |-> u, file |-> file, uploader |-> uploader]

Threads == Calls(
  {Say(u2, p, {}) : p \in {None, Earlier, 1}}
  \cup {[op |-> "uncomment", user |-> u1, comment |-> m] : m \in {Earlier, 1}}
  \cup {[op |-> "edit", user |-> u1, comment |-> Earlier, mentions |-> {u2, u3}],
        [op |-> "edit", user |-> u2, comment |-> 1, mentions |-> {u3}], Access(u2)})

Talk == Calls(
  {Say(u2, None, {u1, u3}), Access(u3), Access(u2),
   [op |-> "task", user |-> u1, added |-> {u3}, watchers |-> {u1, u2}],
   [op |-> "created", user |-> u1, added |-> {u1, u2}],
   [op |-> "joined", user |-> u1, added |-> {u3}]})

Clearing == Calls(
  {Say(u2, None, {u1}), Say(u1, Earlier, {u2})}
  \cup {[op |-> op, user |-> u1, all |-> TRUE] : op \in {"read", "clear", "clearRead"}}
  \cup {[op |-> op, user |-> u1, all |-> FALSE] : op \in {"read", "clear"}})

Devices == [Calls(
  {Token("register", u1, d1), Token("register", u1, d2), Token("register", u2, d1),
   Token("unregister", u1, d1), Token("unregister", u2, d1)})
  EXCEPT !.note = DueNote, !.now = 1]

Reminders == [calls |-> {Set(None), Set(1), Set(2), [op |-> "removeNote"]},
              note |-> DueNote, now |-> 0]

Stored0 == Calls(
  {Upload1, Detach(u1, Earlier, u1), Detach(u2, Earlier, u1), Detach(u1, 1, u1),
   Avatar("file"), Avatar(None), Avatar(Url), [op |-> "replace", user |-> u2], Access(u1)})

MCPlans == {Threads, Talk, Clearing, Devices, Reminders, Stored0}
=============================================================================
