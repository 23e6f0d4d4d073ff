------------------------------- MODULE Roster -------------------------------
(***************************************************************************)
(* What workspace membership promises, without requests, reads or races:   *)
(* who belongs to which workspace, with which role, and on whose offer.    *)
(* Module Membership implements it.                                        *)
(*                                                                         *)
(*   - a workspace has the one owner who founded it, for ever;             *)
(*   - anybody else gets in by taking up an offer addressed to them, which *)
(*     is used up by that and, once closed in any way, never opens again;  *)
(*   - nobody but the founder enters a personal workspace; closing a       *)
(*     workspace keeps its roster, and somebody already taking up an offer *)
(*     is not stopped by it;                                               *)
(*   - no change of role makes or unmakes an owner.                        *)
(***************************************************************************)
EXTENDS Permissions

CONSTANTS Users, NoUser, Workspaces, PersonalIds, OfferIds

VARIABLES
  founder,   \* who founded each workspace, NoUser before that
  closed,    \* the workspaces closed for good
  roster,    \* role of each user in each workspace, NoRole when not in it
  offer      \* every offer: [state, ws, user, role]

rosterVars == <<founder, closed, roster, offer>>

NoOffer == [state |-> "unused", ws |-> NoUser, user |-> NoUser, role |-> NoRole]

Init ==
  /\ founder = [w \in Workspaces |-> NoUser]
  /\ closed = {}
  /\ roster = [w \in Workspaces |-> [u \in Users |-> NoRole]]
  /\ offer = [o \in OfferIds |-> NoOffer]

Found(w, u) ==
  /\ founder[w] = NoUser
  /\ founder' = [founder EXCEPT ![w] = u]
  /\ roster' = [roster EXCEPT ![w][u] = "OWNER"]
  /\ UNCHANGED <<closed, offer>>

Close(w) ==
  /\ founder[w] # NoUser
  /\ w \notin PersonalIds
  /\ closed' = closed \cup {w}
  /\ UNCHANGED <<founder, roster, offer>>

MakeOffer(o, w, u, role) ==
  /\ offer[o].state = "unused"
  /\ founder[w] # NoUser
  /\ w \notin PersonalIds
  /\ role # "OWNER"
  /\ offer' = [offer EXCEPT ![o] = [state |-> "open", ws |-> w, user |-> u, role |-> role]]
  /\ UNCHANGED <<founder, closed, roster>>

(* Declined, cancelled or expired, several at once in the last case. *)
Withdraw(S) ==
  /\ \A o \in S : offer[o].state = "open"
  /\ offer' = [o \in OfferIds |->
                 IF o \in S THEN [offer[o] EXCEPT !.state = "withdrawn"] ELSE offer[o]]
  /\ UNCHANGED <<founder, closed, roster>>

TakeUp(o) ==
  /\ offer[o].state = "open"
  /\ roster[offer[o].ws][offer[o].user] = NoRole
  /\ offer' = [offer EXCEPT ![o].state = "taken"]
  /\ roster' = [roster EXCEPT ![offer[o].ws][offer[o].user] = offer[o].role]
  /\ UNCHANGED <<founder, closed>>

Change(w, u, role) ==
  /\ roster[w][u] \notin {NoRole, "OWNER"}
  /\ role \notin {NoRole, "OWNER"}
  /\ roster' = [roster EXCEPT ![w][u] = role]
  /\ UNCHANGED <<founder, closed, offer>>

Leave(w, u) ==
  /\ roster[w][u] \notin {NoRole, "OWNER"}
  /\ roster' = [roster EXCEPT ![w][u] = NoRole]
  /\ UNCHANGED <<founder, closed, offer>>

Next ==
  \/ \E w \in Workspaces :
       \/ Close(w)
       \/ \E u \in Users :
            \/ Found(w, u)
            \/ Leave(w, u)
            \/ \E role \in WorkspaceRole :
                 \/ Change(w, u, role)
                 \/ \E o \in OfferIds : MakeOffer(o, w, u, role)
  \/ \E o \in OfferIds : TakeUp(o)
  \/ \E S \in SUBSET OfferIds : Withdraw(S)

Spec == Init /\ [][Next]_rosterVars
=============================================================================
