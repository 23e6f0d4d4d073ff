----------------------------- MODULE MCRealtime -----------------------------
(***************************************************************************)
(* An instance of Realtime for TLC: the user ann, whose role reads only    *)
(* the projects she is a member of, and bob, who reads every project.      *)
(***************************************************************************)
EXTENDS Realtime

CONSTANTS ann, bob, a1, b1

MCOwnerOf == [s \in Sockets |-> IF s = b1 THEN bob ELSE ann]

Seed(m) == [u \in Users |-> IF u = ann THEN m
                            ELSE [id |-> 0, role |-> "all", status |-> "active"]]

(* A suspended ann can be reactivated by one of two crossing updates; one    *)
(* who is no member, but still in the conversation, can come back.          *)
MCMembers0 ==
  {Seed([id |-> 0, role |-> "some", status |-> st]) : st \in Status} \cup {Seed(NoMember)}

Update(u, role, status) == [op |-> "update", user |-> u, dto |-> [role |-> role, status |-> status]]

MCCalls ==
  [op : {"subscribe"}, sock : {a1}, room : Room]
  \cup [op : {"accept"}, user : {ann}, role : {"all"}]
  \cup {Update(ann, role, "") : role \in Role} \cup {Update(ann, "", st) : st \in Status}
  \cup {Update(bob, "", "suspended")}
  \cup [op : {"remove", "add", "drop"}, user : {ann}]
  \cup [op : {"message"}, user : {bob}]
  \cup [op : {"change"}, room : {"project"}]
  \cup [op : {"typing"}, sock : {b1}, on : BOOLEAN]
=============================================================================
