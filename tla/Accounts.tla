------------------------------- MODULE Accounts -------------------------------
(***************************************************************************)
(* Accounts and sessions: src/src/auth/auth.service.ts over                *)
(* src/src/users/users.service.ts, with the moderation endpoints of        *)
(* src/src/users/users.controller.ts.  The collections are users and       *)
(* user_identities; a request reads, decides and writes by _id.            *)
(*                                                                         *)
(* Every request makes one call.  What it makes up at random (an account's *)
(* _id, a token's jwtid, an emailed code, a password) is named after it.   *)
(***************************************************************************)
EXTENDS Naturals, FiniteSets

CONSTANTS
  Requests,
  Emails, Names, Phones,
  Uids,        \* Firebase accounts
  EmailOf,     \* the verified email of a Firebase account
  Base,        \* usernameBase
  Earlier,     \* what was made up before the requests; also an account's _id
  Closed0,     \* an account deleted before the requests
  None,
  MaxTries,    \* MAX_SOCIAL_SIGNUP_ATTEMPTS
  Calls,       \* bound: what is asked for
  Seeds        \* bound: the users there are before

UserIds == Requests \cup {Earlier, Closed0}
Made == Requests \cup {Earlier}

VARIABLES
  user,     \* users
  link,     \* user_identities, by firebaseUid
  req,      \* the requests
  dropped   \* history: links forgotten although they had been made anew

accountsVars == <<user, link, req, dropped>>

-----------------------------------------------------------------------------
User == [state    : {"none", "live", "deleted"},   \* deletedAt
         email    : Emails \cup {None},            \* None: a placeholder
         name     : Names \cup {None},
         active   : BOOLEAN,
         verified : BOOLEAN,
         password : Made \cup {None},              \* None: one nobody knows
         tokens   : SUBSET Made,
         emailOtp : Made \cup {None},
         resetOtp : Made \cup {None},
         phone    : Phones \cup {None},
         pending  : Phones \cup {None},
         phoneOtp : Made \cup {None},
         given    : Phones \cup {None},           \* history: the number it came with
         via      : Uids \cup {None}]              \* history: created by social sign-in

NoUser == [state |-> "none", email |-> None, name |-> None, active |-> FALSE,
           verified |-> FALSE, password |-> None, tokens |-> {}, emailOtp |-> None,
           resetOtp |-> None, phone |-> None, pending |-> None, phoneOtp |-> None,
           given |-> None, via |-> None]

Ops == {"register", "login", "social", "refresh", "logout", "forgot", "reset", "change",
        "delete", "verify", "resend", "phoneOtp", "profile",
        "activate", "deactivate", "adminDelete", "adminUpdate", "adminOff"}

(* secret: the password, token or code that is presented. *)
Call == [op     : Ops,
         user   : UserIds \cup {None},
         email  : Emails \cup {None},
         name   : Names \cup {None},
         uid    : Uids \cup {None},
         secret : Made \cup {None},
         phone  : Phones \cup {None}]

NoCall == [op |-> "login", user |-> None, email |-> None, name |-> None, uid |-> None,
           secret |-> None, phone |-> None]

Pc == {"new", "done", "issue", "register:check", "register:insert", "remove", "password",
       "unlink", "mark", "resend", "phoneOtp", "profile", "social:user", "social:forget",
       "social:email", "social:again", "social:name", "social:create"}

(* user, name: what has been found.  again: linkedOrAccountExists is asked.  *)
(* clean, history: no other request has written since this one first read.   *)
Req == [pc : Pc, call : Call, user : UserIds \cup {None}, name : Names \cup {None},
        tries : 0..MaxTries, again : BOOLEAN, clean : BOOLEAN,
        out : {"none", "ok", "taken", "conflict", "exists", "gaveUp", "failed"}]

Fresh == [pc |-> "new", call |-> NoCall, user |-> None, name |-> None, tries |-> 0,
          again |-> FALSE, clean |-> TRUE, out |-> "none"]

(* What an account will accept, by what it is presented for. *)
SecretKinds == {"refresh", "reset", "verify", "profile"}

Kept(doc, kind) ==
  CASE kind = "refresh" -> doc.tokens
    [] kind = "reset"   -> {doc.resetOtp} \ {None}
    [] kind = "verify"  -> {doc.emailOtp} \ {None}
    [] kind = "profile" -> {doc.phoneOtp} \ {None}

ASSUME AccountsAssumption ==
  /\ EmailOf \in [Uids -> Emails]
  /\ Base \in [Emails -> Names]
  /\ Earlier \notin Requests /\ Closed0 \notin Requests \cup {Earlier}
  /\ None \notin UserIds \cup Emails \cup Names \cup Phones \cup Uids
  /\ MaxTries \in Nat \ {0}
  /\ Calls \subseteq Call
  /\ \A c \in Calls : /\ c.op = "register" => c.email # None /\ c.name # None
                      /\ c.op = "social" => c.uid # None
  /\ \A s \in Seeds :
       /\ s.user \in [UserIds -> User]
       /\ s.link \in [Uids -> UserIds \cup {None}]
       /\ \A r \in Requests : s.user[r] = NoUser
       /\ \A u \in UserIds : s.user[u].state = "none" => s.user[u] = NoUser
       /\ \A k \in SecretKinds, u \in UserIds : Kept(s.user[u], k) \subseteq {Earlier}
       /\ \A k \in SecretKinds, u, v \in UserIds :
            u # v => Kept(s.user[u], k) \cap Kept(s.user[v], k) = {}
       /\ \A u \in UserIds :
            /\ s.user[u].phone \in {None, s.user[u].given}
            /\ s.user[u].pending = None
            /\ s.user[u].via # None /\ s.user[u].state = "live" =>
                 s.link[s.user[u].via] = u
       /\ \A g \in Uids : s.link[g] # None => s.user[s.link[g]].via = g

-----------------------------------------------------------------------------
At(r, pc) == req[r].pc = pc
InFlight(r) == req[r].pc \notin {"new", "done"}

Live(u) == user[u].state = "live"
LiveAt(e) == {u \in UserIds : Live(u) /\ user[u].email = e}
LiveNamed(n) == {u \in UserIds : Live(u) /\ user[u].name = n}

(* The unique indexes do not care whether an account is deleted. *)
EmailFree(e) == \A u \in UserIds : user[u].email # e
NameFree(n) == \A u \in UserIds : user[u].name # n

(* The request goes on from a read. *)
Goes(r, j) == /\ req' = [req EXCEPT ![r] = j]
              /\ UNCHANGED <<user, link, dropped>>

Begin(r, c, pc, u) ==
  Goes(r, [Fresh EXCEPT !.pc = pc, !.call = c, !.user = u])

(* It goes on from a write, which the others in flight have not seen. *)
Wrote(r, j) ==
  req' = [q \in Requests |-> IF q = r THEN j
                             ELSE IF InFlight(q) THEN [req[q] EXCEPT !.clean = FALSE]
                             ELSE req[q]]

Done(j, out) == [j EXCEPT !.pc = "done", !.out = out]

Set(u, doc) == user' = [user EXCEPT ![u] = doc]

(* closeAccount. *)
Closed(doc) ==
  [doc EXCEPT !.state = "deleted", !.active = FALSE, !.email = None, !.name = None,
              !.phone = None, !.pending = None, !.tokens = {}, !.resetOtp = None,
              !.emailOtp = None, !.phoneOtp = None]

(* The slip of releasing whoever is in the way. *)
MutReleased(e, n) == {}

(* releaseClosedAccounts finds them.  They stay deleted, so closing them     *)
(* belongs to the same step.                                                *)
Released(e, n) == {u \in UserIds : /\ user[u].state = "deleted"
                                   /\ \/ e # None /\ user[u].email = e
                                      \/ n # None /\ user[u].name = n}

Release(e, n) ==
  user' = [u \in UserIds |-> IF u \in Released(e, n) THEN Closed(user[u]) ELSE user[u]]

-----------------------------------------------------------------------------
(* Signing up with a password. *)
Register(r, c) ==
  /\ c.op = "register"
  /\ Release(c.email, c.name)
  /\ Wrote(r, [Fresh EXCEPT !.pc = "register:check", !.call = c])
  /\ UNCHANGED <<link, dropped>>

RegisterCheck(r) ==
  LET c == req[r].call
  IN /\ At(r, "register:check")
     /\ Goes(r, IF LiveAt(c.email) \cup LiveNamed(c.name) = {}
                THEN [req[r] EXCEPT !.pc = "register:insert"]
                ELSE Done(req[r], "taken"))

(* A phone number is taken as it is given. *)
RegisterInsert(r) ==
  LET c == req[r].call
  IN /\ At(r, "register:insert")
     /\ IF EmailFree(c.email) /\ NameFree(c.name)
        THEN /\ Set(r, [NoUser EXCEPT !.state = "live", !.email = c.email, !.name = c.name,
                                      !.active = TRUE, !.password = r, !.emailOtp = r,
                                      !.phone = c.phone, !.given = c.phone])
             /\ Wrote(r, Done(req[r], "ok"))
             /\ UNCHANGED <<link, dropped>>
        ELSE Goes(r, Done(req[r], "conflict"))

(* A code may have expired: then nothing happens. *)
Verify(r, c) ==
  /\ c.op = "verify" /\ c.secret # None
  /\ \E u \in LiveAt(c.email) : user[u].emailOtp = c.secret /\ Begin(r, c, "mark", u)

MarkVerified(r) ==
  LET u == req[r].user
  IN /\ At(r, "mark")
     /\ Set(u, [user[u] EXCEPT !.verified = TRUE, !.emailOtp = None])
     /\ Wrote(r, [req[r] EXCEPT !.pc = "issue"])
     /\ UNCHANGED <<link, dropped>>

Resend(r, c) ==
  /\ c.op = "resend"
  /\ \E u \in LiveAt(c.email) : ~user[u].verified /\ Begin(r, c, "resend", u)

ResendWrite(r) ==
  LET u == req[r].user
  IN /\ At(r, "resend")
     /\ Set(u, [user[u] EXCEPT !.emailOtp = r])
     /\ Wrote(r, Done(req[r], "ok"))
     /\ UNCHANGED <<link, dropped>>

-----------------------------------------------------------------------------
(* Sessions. *)
Login(r, c) ==
  /\ c.op = "login" /\ c.secret # None
  /\ \E u \in LiveAt(c.email) :
       /\ user[u].verified /\ user[u].password = c.secret /\ user[u].active
       /\ Begin(r, c, "issue", u)

(* The slip of a token without a jwtid, the same within a second. *)
MutToken(r) == IF req[r].call.op = "refresh" THEN req[r].call.secret ELSE r

Token(r) == r

(* issueTokens, at the end of every way in. *)
IssueTokens(r) ==
  LET u == req[r].user
  IN /\ At(r, "issue")
     /\ Set(u, [user[u] EXCEPT !.tokens = @ \cup {Token(r)}])
     /\ Wrote(r, Done(req[r], "ok"))
     /\ UNCHANGED <<link, dropped>>

(* The slip of looking a token up as a guard does that trusts its signature. *)
MutMayRefresh(u) == Live(u)

MayRefresh(u) == Live(u) /\ user[u].active

Refresh(r, c) ==
  /\ c.op = "refresh" /\ c.secret # None
  /\ \E u \in UserIds : /\ c.secret \in user[u].tokens /\ MayRefresh(u)
                        /\ Begin(r, c, "remove", u)

Logout(r, c) ==
  /\ c.op = "logout" /\ c.secret # None
  /\ \E u \in UserIds : Live(u) /\ c.secret \in user[u].tokens /\ Begin(r, c, "remove", u)

RemoveRefreshToken(r) ==
  LET u == req[r].user
      c == req[r].call
  IN /\ At(r, "remove")
     /\ Set(u, [user[u] EXCEPT !.tokens = @ \ {c.secret}])
     /\ Wrote(r, IF c.op = "refresh" THEN [req[r] EXCEPT !.pc = "issue"]
                 ELSE Done(req[r], "ok"))
     /\ UNCHANGED <<link, dropped>>

-----------------------------------------------------------------------------
(* Passwords.  The lookup before the write has the same filter as the write. *)
ForgotPassword(r, c) ==
  /\ c.op = "forgot"
  /\ \E u \in LiveAt(c.email) : Set(u, [user[u] EXCEPT !.resetOtp = r])
  /\ Wrote(r, Done([Fresh EXCEPT !.call = c], "ok"))
  /\ UNCHANGED <<link, dropped>>

ResetPassword(r, c) ==
  /\ c.op = "reset" /\ c.secret # None
  /\ \E u \in LiveAt(c.email) : user[u].resetOtp = c.secret /\ Begin(r, c, "password", u)

ChangePassword(r, c) ==
  /\ c.op = "change" /\ c.secret # None
  /\ \E u \in UserIds : /\ u = c.user /\ Live(u) /\ user[u].password = c.secret
                        /\ Begin(r, c, "password", u)

SetPassword(r) ==
  LET u == req[r].user
  IN /\ At(r, "password")
     /\ Set(u, [user[u] EXCEPT !.password = r, !.resetOtp = None])
     /\ Wrote(r, Done(req[r], "ok"))
     /\ UNCHANGED <<link, dropped>>

-----------------------------------------------------------------------------
(* Changing the phone number. *)
RequestPhoneOtp(r, c) ==
  /\ c.op = "phoneOtp"
  /\ \E u \in UserIds : /\ u = c.user /\ Live(u) /\ user[u].phone # c.phone
                        /\ Begin(r, c, "phoneOtp", u)

PhoneOtpWrite(r) ==
  LET u == req[r].user
  IN /\ At(r, "phoneOtp")
     /\ Set(u, [user[u] EXCEPT !.pending = req[r].call.phone, !.phoneOtp = r])
     /\ Wrote(r, Done(req[r], "ok"))
     /\ UNCHANGED <<link, dropped>>

Changing(u, c) == c.phone \notin {None, user[u].phone}

(* The slip of asking for the code but not which number it was sent for. *)
MutPhoneOtpRight(u, c) == c.secret # None /\ user[u].phoneOtp = c.secret

PhoneOtpRight(u, c) ==
  c.secret # None /\ user[u].phoneOtp = c.secret /\ user[u].pending = c.phone

(* checkPhoneOtp: a new number needs its code; sending the number back that  *)
(* is there, or clearing it, does not.                                      *)
UpdateProfile(r, c) ==
  /\ c.op = "profile"
  /\ \E u \in UserIds : /\ u = c.user /\ Live(u)
                        /\ Changing(u, c) => PhoneOtpRight(u, c)
                        /\ Goes(r, [Fresh EXCEPT !.pc = "profile", !.call = c, !.user = u,
                                                 !.again = Changing(u, c)])

(* again: phoneVerified, as decided on what was read. *)
ProfileWrite(r) ==
  LET u == req[r].user
      set == [user[u] EXCEPT !.phone = req[r].call.phone]
  IN /\ At(r, "profile")
     /\ Set(u, IF req[r].again THEN [set EXCEPT !.pending = None, !.phoneOtp = None] ELSE set)
     /\ Wrote(r, Done(req[r], "ok"))
     /\ UNCHANGED <<link, dropped>>

-----------------------------------------------------------------------------
(* Closing an account, and moderation. *)
DeleteAccount(r, c) ==
  /\ c.op = "delete"
  /\ \E u \in UserIds : /\ u = c.user /\ Live(u)
                        /\ Set(u, Closed(user[u]))
                        /\ Wrote(r, [Fresh EXCEPT !.pc = "unlink", !.call = c, !.user = u])
  /\ UNCHANGED <<link, dropped>>

Unlink(r) ==
  /\ At(r, "unlink")
  /\ link' = [g \in Uids |-> IF link[g] = req[r].user THEN None ELSE link[g]]
  /\ Wrote(r, Done(req[r], "ok"))
  /\ UNCHANGED <<user, dropped>>

(* What a change of a profile by an administrator leaves out stays. *)
OrElse(new, old) == IF new = None THEN old ELSE new

(* updateUser by _id, whether or not the account is deleted.  Only           *)
(* /deactivate and /delete end the sessions; the avatar is in Content.      *)
Moderated(u, c) ==
  CASE c.op = "activate"    -> [user[u] EXCEPT !.active = TRUE]
    [] c.op = "deactivate"  -> [user[u] EXCEPT !.active = FALSE, !.tokens = {}]
    [] c.op = "adminDelete" -> [user[u] EXCEPT !.state = "deleted", !.active = FALSE,
                                               !.tokens = {}]
    [] c.op = "adminUpdate" -> [user[u] EXCEPT !.email = OrElse(c.email, @),
                                               !.name = OrElse(c.name, @)]
    [] c.op = "adminOff"    -> [user[u] EXCEPT !.active = FALSE]

Moderate(r, c) ==
  /\ c.op \in {"activate", "deactivate", "adminDelete", "adminUpdate", "adminOff"}
  /\ \E u \in UserIds :
       /\ u = c.user /\ user[u].state # "none"
       /\ c.op = "adminUpdate" => /\ c.email \in {None, user[u].email} \/ EmailFree(c.email)
                                  /\ c.name \in {None, user[u].name} \/ NameFree(c.name)
       /\ Set(u, Moderated(u, c))
  /\ Wrote(r, Done([Fresh EXCEPT !.call = c], "ok"))
  /\ UNCHANGED <<link, dropped>>

-----------------------------------------------------------------------------
(* Signing in through Firebase.  findLinkedUser is a lookup of the link, one *)
(* of the user, and the deletion of a link to an account that is closed.    *)
Social(r, c) ==
  /\ c.op = "social"
  /\ Begin(r, c, IF link[c.uid] = None THEN "social:email" ELSE "social:user", link[c.uid])

Unlinked(j) == IF j.again THEN Done(j, "exists") ELSE [j EXCEPT !.pc = "social:email"]

SocialUser(r) ==
  LET u == req[r].user
  IN /\ At(r, "social:user")
     /\ Goes(r, IF ~Live(u) THEN [req[r] EXCEPT !.pc = "social:forget"]
                ELSE IF user[u].active THEN [req[r] EXCEPT !.pc = "issue"]
                ELSE Done(req[r], "failed"))

SocialForget(r) ==
  LET g == req[r].call.uid
  IN /\ At(r, "social:forget")
     /\ link' = [link EXCEPT ![g] = None]
     /\ dropped' = dropped \cup IF req[r].clean THEN {} ELSE {g}
     /\ Wrote(r, Unlinked(req[r]))
     /\ UNCHANGED user

SocialEmail(r) ==
  /\ At(r, "social:email")
  /\ Goes(r, [req[r] EXCEPT !.pc = IF LiveAt(EmailOf[req[r].call.uid]) = {}
                                   THEN "social:name" ELSE "social:again"])

SocialAgain(r) ==
  LET u == link[req[r].call.uid]
      j == [req[r] EXCEPT !.again = TRUE]
  IN /\ At(r, "social:again")
     /\ Goes(r, IF u = None THEN Unlinked(j)
                ELSE [j EXCEPT !.pc = "social:user", !.user = u])

(* createSocialUser up to its transaction: releases the email, and takes a   *)
(* name nobody alive has, with a random suffix if it must.                  *)
SocialName(r) ==
  LET e == EmailOf[req[r].call.uid]
      free == IF LiveNamed(Base[e]) = {} THEN {Base[e]}
              ELSE Names \ {Base[f] : f \in Emails}
  IN /\ At(r, "social:name")
     /\ Release(e, None)
     /\ \E n \in free :
          Wrote(r, [req[r] EXCEPT !.pc = "social:create", !.name = n, !.tries = @ + 1])
     /\ UNCHANGED <<link, dropped>>

(* The slip of a transaction that leaves the link for later. *)
MutLinked(r) == [link EXCEPT ![req[r].call.uid] = None]

Linked(r) == [link EXCEPT ![req[r].call.uid] = r]

(* The transaction: user, link and workspace, or none of them. *)
SocialCreate(r) ==
  LET g == req[r].call.uid
      n == req[r].name
      e == EmailOf[g]
  IN /\ At(r, "social:create")
     /\ EmailFree(e) /\ NameFree(n) /\ link[g] = None
     /\ Set(r, [NoUser EXCEPT !.state = "live", !.email = e, !.name = n, !.active = TRUE,
                              !.verified = TRUE, !.via = g])
     /\ link' = Linked(r)
     /\ Wrote(r, [req[r] EXCEPT !.pc = "issue", !.user = r])
     /\ UNCHANGED dropped

TriesAgain(r) == req[r].tries < MaxTries

(* A duplicate key, reported of one of the indexes. *)
SocialDuplicate(r) ==
  LET g == req[r].call.uid
  IN /\ At(r, "social:create")
     /\ \/ /\ ~EmailFree(EmailOf[g]) \/ link[g] # None
           /\ Goes(r, [req[r] EXCEPT !.pc = "social:again"])
        \/ /\ ~NameFree(req[r].name)
           /\ Goes(r, IF TriesAgain(r) THEN [req[r] EXCEPT !.pc = "social:name"]
                      ELSE Done(req[r], "gaveUp"))

-----------------------------------------------------------------------------
(* The process dies, or a call to the database fails. *)
Dies(r) == InFlight(r) /\ Goes(r, Done(req[r], "failed"))

AccountsInit ==
  /\ \E s \in Seeds : user = s.user /\ link = s.link
  /\ req = [r \in Requests |-> Fresh]
  /\ dropped = {}

Asks(r, c) ==
  \/ Register(r, c) \/ Verify(r, c) \/ Resend(r, c)
  \/ Login(r, c) \/ Refresh(r, c) \/ Logout(r, c)
  \/ ForgotPassword(r, c) \/ ResetPassword(r, c) \/ ChangePassword(r, c)
  \/ RequestPhoneOtp(r, c) \/ UpdateProfile(r, c)
  \/ DeleteAccount(r, c) \/ Moderate(r, c) \/ Social(r, c)

GoesOn(r) ==
  \/ RegisterCheck(r) \/ RegisterInsert(r) \/ MarkVerified(r) \/ ResendWrite(r)
  \/ IssueTokens(r) \/ RemoveRefreshToken(r) \/ SetPassword(r)
  \/ PhoneOtpWrite(r) \/ ProfileWrite(r) \/ Unlink(r)
  \/ SocialUser(r) \/ SocialForget(r) \/ SocialEmail(r) \/ SocialAgain(r)
  \/ SocialName(r) \/ SocialCreate(r) \/ SocialDuplicate(r)
  \/ Dies(r)

AccountsNext == \E r \in Requests :
  \/ GoesOn(r)
  \/ At(r, "new") /\ \E c \in Calls : Asks(r, c)

AccountsSpec == AccountsInit /\ [][AccountsNext]_accountsVars

-----------------------------------------------------------------------------
(* The shape of the collections and of the requests; what is there before    *)
(* somebody signs up is not overwritten, and three attempts at a name are    *)
(* all that are made.                                                       *)
AccountsTypeOK ==
  /\ user \in [UserIds -> User]
  /\ link \in [Uids -> UserIds \cup {None}]
  /\ req \in [Requests -> Req]
  /\ dropped \subseteq Uids

(* A refresh token, an emailed code for the address, for the password or for *)
(* the phone is used once: docs/API_GUIDE.md:32 says so of refresh tokens,   *)
(* and comments in the code of codes.  Two requests that overlap may both    *)
(* read it before either takes it away, so one of the two has to be alone.   *)
Uses(r) == /\ req[r].out = "ok"
           /\ \/ req[r].call.op \in {"refresh", "logout", "reset", "verify"}
              \/ req[r].call.op = "profile" /\ req[r].again

Kind(r) == IF req[r].call.op = "logout" THEN "refresh" ELSE req[r].call.op

SecretsOnce ==
  \A r, q \in Requests :
    /\ r # q /\ Uses(r) /\ Uses(q)
    /\ Kind(r) = Kind(q) /\ req[r].call.secret = req[q].call.secret
    => ~(req[r].clean /\ req[q].clean)

(* A phone number that somebody puts in place of the one the account came    *)
(* with (sign-up takes any) is one for which that account has been sent a   *)
(* code, whatever overlaps: codes asked for in between, numbers sent back   *)
(* as they were read, accounts closed and reopened.                         *)
PhoneProven ==
  \A u \in UserIds : user[u].phone \notin {None, user[u].given} =>
    \E c \in Requests : /\ req[c].call.op = "phoneOtp" /\ req[c].out = "ok"
                        /\ req[c].call.user = u /\ req[c].call.phone = user[u].phone

(* Whoever signed up through Firebase finds the account again: its link goes *)
(* with it and not before, unless a sign-in that saw an older, closed        *)
(* account forgets the link another one has just made.                      *)
SocialLinked ==
  \A u \in UserIds : Live(u) /\ user[u].via # None =>
    link[user[u].via] = u \/ user[u].via \in dropped

(* Somebody alive has the address, or the name, that is asked for.          *)
InUse(r) ==
  LET c == req[r].call
  IN IF c.op = "register" THEN LiveAt(c.email) \cup LiveNamed(c.name) # {}
     ELSE LiveAt(EmailOf[c.uid]) # {}

(* The attempts at a name end with the one that the address makes and that a *)
(* deleted account still has; or with random ones that are taken as well.   *)
NameHeld(r) ==
  /\ req'[r].out = "gaveUp"
  /\ req[r].name = Base[EmailOf[req[r].call.uid]] =>
       \E u \in UserIds : user[u].state = "deleted" /\ user[u].name = req[r].name

Refused(r) == /\ req[r].out = "none"
              /\ req'[r].out \in {"taken", "conflict", "exists", "gaveUp"}

(* A deleted account does not keep anybody from signing up, with a password  *)
(* or through Firebase ("release any such email or username before it is    *)
(* reused"): a sign-up that no other request disturbs is refused only over  *)
(* what somebody alive has.  The code leaves one exception: social sign-up  *)
(* releases the address but not the name, and availableUserName passes over *)
(* deleted accounts, so that every attempt meets the same name.             *)
SignUpSucceeds ==
  [][\A r \in Requests :
       Refused(r) /\ req[r].clean => InUse(r) \/ NameHeld(r)]_accountsVars

(* Nobody starts or extends a session in an account that is deleted or       *)
(* deactivated, unless that happens during the request.  Verifying the       *)
(* address is left out here: it does not ask.                               *)
SessionsStart ==
  \A r \in Requests : At(r, "issue") /\ req[r].clean =>
    Live(req[r].user) /\ (user[req[r].user].active \/ req[r].call.op = "verify")

=============================================================================
