----------------------------- MODULE MCAccounts -----------------------------
(***************************************************************************)
(* Instances of Accounts for TLC: every combination and interleaving of    *)
(* three calls.  Before them there is either one account, signed in and    *)
(* with a code for its password, that came through Firebase; or one that    *)
(* has not verified its address and signed up with a phone number; or one a  *)
(* moderator has deleted, which still holds its name, its link and the      *)
(* address that is asked for, or another address that makes the same name.   *)
(***************************************************************************)
EXTENDS Accounts, TLC

CONSTANTS e1, e2, n1, n2, p1, p2, g1, r1, r2, r3, old, closed

MCRequests == {r1, r2, r3}
MCEmails == {e1, e2}
MCNames == {n1, n2}
MCPhones == {p1, p2}
MCUids == {g1}
MCEmailOf == [g \in MCUids |-> e1]
MCBase == [e \in MCEmails |-> n1]

MCUserIds == MCRequests \cup {old, closed}

Account(via) ==
  [NoUser EXCEPT !.state = "live", !.email = e1, !.name = n1, !.active = TRUE,
                 !.verified = TRUE, !.password = old, !.tokens = {old},
                 !.resetOtp = old, !.via = via]
Unverified == [Account(None) EXCEPT !.verified = FALSE, !.tokens = {}, !.emailOtp = old,
                                     !.phone = p2, !.given = p2]
Deleted == [Account(g1) EXCEPT !.state = "deleted", !.active = FALSE, !.tokens = {}]

Seed(doc, gone, g) ==
  [user |-> [u \in MCUserIds |-> IF u = old THEN doc ELSE IF u = closed THEN gone ELSE NoUser],
   link |-> [x \in MCUids |-> g]]

MCSeeds == {Seed(Account(g1), NoUser, old), Seed(Unverified, NoUser, None),
            Seed(NoUser, Deleted, closed),
            Seed(NoUser, [Deleted EXCEPT !.email = e2, !.via = None], None)}

Op(op) == [NoCall EXCEPT !.op = op]
ByEmail(op) == [Op(op) EXCEPT !.email = e1]
Presenting(c, secrets) == {[c EXCEPT !.secret = s] : s \in secrets}
By(op, u) == [Op(op) EXCEPT !.user = u]

MCCalls ==
  {[ByEmail("register") EXCEPT !.name = n1, !.phone = p1]}
  \cup UNION {Presenting(ByEmail(op), {old, r1}) : op \in {"verify", "reset"}}
  \cup Presenting(Op("refresh"), {old, r1})
  \cup {ByEmail("resend"), ByEmail("forgot"), [Op("social") EXCEPT !.uid = g1]}
  \cup Presenting(Op("logout"), {old}) \cup Presenting(ByEmail("login"), {old, r1})
  \cup Presenting(By("change", old), {old})
  \cup {[By("phoneOtp", old) EXCEPT !.phone = p] : p \in MCPhones}
  \cup {[By("profile", old) EXCEPT !.phone = p1, !.secret = s] : s \in {None, r1}}
  \cup {By("profile", old)}
  \cup {By(op, old) : op \in {"delete", "activate", "deactivate", "adminDelete", "adminOff"}}
  \cup {[By("adminUpdate", u) EXCEPT !.email = e1, !.name = n2] : u \in {old, closed}}

(* Codes and tokens that are presented are old or made by r1. *)
Symmetric == Permutations({r2, r3})
=============================================================================
