---------------------------- MODULE PeopleProofs ----------------------------
(***************************************************************************)
(* What TLAPS proves about people: about Accounts, for any requests,        *)
(* addresses, names, phones and Firebase accounts, any calls and any users  *)
(* in the beginning, and then about Presence, for any processes, users and  *)
(* sockets.  The two share no state.                                       *)
(***************************************************************************)
EXTENDS Accounts, Presence, TLAPS

-----------------------------------------------------------------------------
(* The inductive invariants. *)

Exists(u) == user[u].state # "none"

(* Where nobody has signed up there is nothing; and a request makes an      *)
(* account of its own name, if it does, shortly before it ends.            *)
AccountsOK ==
  /\ \A u \in UserIds : ~Exists(u) => user[u] = NoUser
  /\ \A r \in Requests : Exists(r) => At(r, "done") \/ At(r, "issue")

SocialPcs == {"social:user", "social:forget", "social:email", "social:again", "social:name",
              "social:create"}
UserPcs == {"issue", "remove", "password", "unlink", "mark", "resend", "phoneOtp", "profile"}

(* What a request carries, by where it is. *)
Carries(j) ==
  LET c == j.call IN
  /\ j.pc # "done" => j.out = "none"
  /\ j.pc \in {"register:check", "register:insert"} =>
       c.op = "register" /\ c.email # None /\ c.name # None
  /\ j.pc \in UserPcs => j.user \in UserIds
  /\ j.pc = "issue" => c.op \in {"verify", "login", "refresh", "social"}
  /\ j.pc = "remove" => c.op \in {"refresh", "logout"} /\ c.secret # None
  /\ j.pc = "mark" => c.op = "verify" /\ c.secret # None
  /\ j.pc = "password" => c.op \in {"reset", "change"} /\ c.secret # None
  /\ j.pc = "resend" => c.op = "resend"
  /\ j.pc = "phoneOtp" => c.op = "phoneOtp" /\ c.user = j.user
  /\ j.pc = "profile" => c.op = "profile" /\ c.user = j.user /\ (j.again => c.secret # None)
  /\ j.pc = "unlink" => c.op = "delete"
  /\ j.pc \in SocialPcs => c.op = "social" /\ c.uid \in Uids
  /\ j.pc \in {"social:user", "social:forget"} => j.user \in UserIds
  /\ j.pc = "social:create" => j.name \in Names
  /\ j.pc = "social:email" => ~j.again
  /\ j.pc \in {"social:user", "social:forget", "social:email"} /\ ~j.again => j.tries = 0
  /\ j.pc = "social:name" => j.tries < MaxTries

CarryOK(r) ==
  /\ Carries(req[r])
  /\ req[r].pc \in UserPcs => Exists(req[r].user)
  /\ At(r, "unlink") => user[req[r].user].state = "deleted"

Carry == AccountsTypeOK /\ AccountsOK /\ \A r \in Requests : CarryOK(r)

(* A phone number for which the account has been sent a code. *)
Proven(u, p) ==
  \E c \in Requests : /\ req[c].call.op = "phoneOtp" /\ req[c].out = "ok"
                      /\ req[c].call.user = u /\ req[c].call.phone = p

(* One the account may have: that, or the one it came with. *)
MayHave(u, p) == p = user[u].given \/ Proven(u, p)

PhoneInv ==
  /\ \A u \in UserIds : /\ user[u].phone # None => MayHave(u, user[u].phone)
                        /\ user[u].pending # None => Proven(u, user[u].pending)
  /\ \A r \in Requests : At(r, "profile") /\ req[r].call.phone # None =>
       MayHave(req[r].user, req[r].call.phone)

(* What an undisturbed request has seen is still so. *)
SessionOK(r) ==
  LET u == req[r].user op == req[r].call.op IN
  req[r].clean =>
    /\ At(r, "issue") => Live(u) /\ (user[u].active \/ op = "verify")
    /\ At(r, "remove") /\ op = "refresh" => Live(u) /\ user[u].active
    /\ At(r, "mark") => Live(u)

(* A social sign-in is asking for the second time: the address was in use.  *)
AsksAgain(r) ==
  At(r, "social:again") \/ (req[r].again /\ (At(r, "social:user") \/ At(r, "social:forget")))

SignUpOK(r) ==
  LET c == req[r].call
      e == EmailOf[c.uid]
  IN req[r].clean =>
    /\ At(r, "register:check") => Released(c.email, c.name) = {}
    /\ At(r, "register:insert") => EmailFree(c.email) /\ NameFree(c.name)
    /\ AsksAgain(r) => LiveAt(e) # {}
    /\ At(r, "social:email") \/ At(r, "social:name") \/ At(r, "social:create") =>
         link[c.uid] = None
    /\ At(r, "social:name") => LiveAt(e) = {}
    /\ At(r, "social:create") =>
         EmailFree(e) /\ (req[r].name = Base[e] => LiveNamed(Base[e]) = {})

LinkOK(r) ==
  req[r].clean =>
    /\ At(r, "social:user") \/ At(r, "social:forget") => link[req[r].call.uid] = req[r].user
    /\ At(r, "social:forget") => ~Live(req[r].user)

LinkInv == SocialLinked /\ \A r \in Requests : LinkOK(r)

(* A request that presents a secret: it has found it and is about to take   *)
(* it away, or has done that.                                              *)
Presents(r) ==
  \/ At(r, "remove") \/ At(r, "mark")
  \/ At(r, "password") /\ req[r].call.op = "reset"
  \/ At(r, "profile") /\ req[r].again
Spent(r) ==
  \/ Uses(r)
  \/ At(r, "issue") /\ req[r].call.op \in {"refresh", "verify"}

Secret(r) == req[r].call.secret
Past(s) == s = Earlier \/ (s \in Requests /\ At(s, "done"))

(* A secret is made by one request for one account, and once it has been    *)
(* taken away it is nowhere; who still presents it has been disturbed.     *)
SecretInv ==
  /\ \A k \in SecretKinds, u \in UserIds : \A s \in Kept(user[u], k) : Past(s)
  /\ \A k \in SecretKinds, u, v \in UserIds :
       u # v => Kept(user[u], k) \cap Kept(user[v], k) = {}
  /\ \A r \in Requests : Presents(r) =>
       /\ Past(Secret(r))
       /\ \A u \in UserIds : u # req[r].user => Secret(r) \notin Kept(user[u], Kind(r))
  /\ \A r \in Requests : Spent(r) =>
       /\ Past(Secret(r))
       /\ \A u \in UserIds : Secret(r) \notin Kept(user[u], Kind(r))
  /\ \A r, q \in Requests :
       r # q /\ Spent(r) /\ (Spent(q) \/ Presents(q)) /\ Kind(r) = Kind(q) /\ Secret(r) = Secret(q)
       => ~(req[r].clean /\ req[q].clean)

-----------------------------------------------------------------------------
(* The steps of a request. *)

(* A request that goes on leaves the others alone, but that they have been  *)
(* disturbed if it has written.                                            *)
Apart(r) ==
  \A q \in Requests : q # r =>
    /\ req'[q].pc = req[q].pc /\ req'[q].call = req[q].call /\ req'[q].user = req[q].user
    /\ req'[q].name = req[q].name /\ req'[q].tries = req[q].tries
    /\ req'[q].again = req[q].again /\ req'[q].out = req[q].out
    /\ req'[q].clean => req[q].clean

Hidden(r) == \A q \in Requests : q # r /\ InFlight(q) => ~req'[q].clean

Unseen(r) ==
  \/ UNCHANGED <<user, link, dropped>>
  \/ Hidden(r)

LEMMA GoesReq ==
  ASSUME AccountsTypeOK, NEW r \in Requests, NEW j \in Req, Goes(r, j)
  PROVE  /\ req' \in [Requests -> Req] /\ req'[r] = j /\ Apart(r) /\ Unseen(r)
         /\ UNCHANGED <<user, link, dropped>>
  BY DEF Goes, AccountsTypeOK, Apart, Unseen

LEMMA WroteReq ==
  ASSUME AccountsTypeOK, NEW r \in Requests, NEW j \in Req, Wrote(r, j)
  PROVE  req' \in [Requests -> Req] /\ req'[r] = j /\ Apart(r) /\ Unseen(r) /\ Hidden(r)
  <1>1. \A q \in Requests : req[q] \in Req
    BY DEF AccountsTypeOK
  <1>2. \A x \in Req : /\ [x EXCEPT !.clean = FALSE] \in Req
                       /\ [x EXCEPT !.clean = FALSE].clean = FALSE
                       /\ [x EXCEPT !.clean = FALSE].pc = x.pc
                       /\ [x EXCEPT !.clean = FALSE].call = x.call
                       /\ [x EXCEPT !.clean = FALSE].user = x.user
                       /\ [x EXCEPT !.clean = FALSE].name = x.name
                       /\ [x EXCEPT !.clean = FALSE].tries = x.tries
                       /\ [x EXCEPT !.clean = FALSE].again = x.again
                       /\ [x EXCEPT !.clean = FALSE].out = x.out
    BY DEF Req
  <1>3. req' \in [Requests -> Req] /\ req'[r] = j
    BY <1>1, <1>2 DEF Wrote
  <1>4. \A q \in Requests : q # r =>
          req'[q] = IF InFlight(q) THEN [req[q] EXCEPT !.clean = FALSE] ELSE req[q]
    BY DEF Wrote
  <1>5. Apart(r)
    <2>1. SUFFICES ASSUME NEW q \in Requests, q # r
                   PROVE  /\ req'[q].pc = req[q].pc /\ req'[q].call = req[q].call
                          /\ req'[q].user = req[q].user /\ req'[q].name = req[q].name
                          /\ req'[q].tries = req[q].tries /\ req'[q].again = req[q].again
                          /\ req'[q].out = req[q].out /\ (req'[q].clean => req[q].clean)
      BY DEF Apart
    <2>2. CASE InFlight(q)
      <3>1. PICK x \in Req : x = req[q]
        BY <1>1
      <3>2. PICK y : y = [x EXCEPT !.clean = FALSE]
        OBVIOUS
      <3>3. req'[q] = y
        BY <1>4, <2>1, <2>2, <3>1, <3>2
      <3>4. /\ y.clean = FALSE /\ y.pc = x.pc /\ y.call = x.call /\ y.user = x.user
            /\ y.name = x.name /\ y.tries = x.tries /\ y.again = x.again /\ y.out = x.out
        BY <3>2 DEF Req
      <3>5. QED BY <3>1, <3>3, <3>4
    <2>3. CASE ~InFlight(q)
      BY <1>4, <2>1, <2>3
    <2>4. QED BY <2>2, <2>3
  <1>6. Unseen(r) /\ Hidden(r)
    BY <1>1, <1>2, <1>4 DEF Unseen, Hidden
  <1>7. QED BY <1>3, <1>5, <1>6

(* What a request becomes. *)
To(j, pc) == [j EXCEPT !.pc = pc]

LEMMA ReqGoesOn ==
  ASSUME NEW j \in Req, NEW pc \in Pc
  PROVE  /\ To(j, pc) \in Req /\ To(j, pc).pc = pc
         /\ To(j, pc).call = j.call /\ To(j, pc).user = j.user /\ To(j, pc).name = j.name
         /\ To(j, pc).tries = j.tries /\ To(j, pc).again = j.again
         /\ To(j, pc).clean = j.clean /\ To(j, pc).out = j.out
  BY DEF Req, To

LEMMA ReqEnds ==
  ASSUME NEW j \in Req, NEW out \in {"ok", "taken", "conflict", "exists", "gaveUp", "failed"}
  PROVE  /\ Done(j, out) \in Req
         /\ Done(j, out).pc = "done" /\ Done(j, out).out = out
         /\ Done(j, out).call = j.call /\ Done(j, out).user = j.user
         /\ Done(j, out).again = j.again /\ Done(j, out).clean = j.clean
  BY DEF Req, Done, Pc

LEMMA FreshReq ==
  /\ Fresh \in Req /\ Calls \subseteq Call
  /\ Fresh.out = "none" /\ Fresh.clean /\ ~Fresh.again /\ Fresh.tries = 0
  <1>1. NoCall \in Call
    BY DEF NoCall, Call, Ops
  <1>2. 0 \in 0..MaxTries
    BY AccountsAssumption
  <1>3. QED BY <1>1, <1>2, AccountsAssumption DEF Fresh, Req, Pc

Begun(c, pc, u) == [Fresh EXCEPT !.pc = pc, !.call = c, !.user = u]

LEMMA ReqBegins ==
  ASSUME NEW c \in Calls, NEW pc \in Pc, NEW u \in UserIds \cup {None}
  PROVE  LET j == Begun(c, pc, u) IN
         /\ j \in Req /\ j.pc = pc /\ j.call = c /\ j.user = u /\ j.out = "none"
         /\ j.clean /\ ~j.again /\ j.tries = 0
  BY FreshReq DEF Req, Begun

-----------------------------------------------------------------------------
(* The documents of users. *)

LEMMA KeptIs ==
  ASSUME NEW d
  PROVE  /\ Kept(d, "refresh") = d.tokens /\ Kept(d, "reset") = {d.resetOtp} \ {None}
         /\ Kept(d, "verify") = {d.emailOtp} \ {None} /\ Kept(d, "profile") = {d.phoneOtp} \ {None}
  BY DEF Kept

(* What a step may make of a document. *)
Follows(r, u, d) ==
  LET old == user[u] j == req[r] IN
  /\ old.state # "none" /\ d.state \in {old.state, "deleted"}
  /\ d.via = old.via /\ d.given = old.given
  /\ \/ d.phone \in {None, old.phone}
     \/ At(r, "profile") /\ u = j.user /\ d.phone = j.call.phone
  /\ \/ d.pending \in {None, old.pending}
     \/ At(r, "phoneOtp") /\ u = j.user /\ d.pending = j.call.phone /\ req'[r].out = "ok"

Keeps(r, u, d) ==
  \A k \in SecretKinds :
    \A s \in Kept(d, k) : s \in Kept(user[u], k) \/ (s = r /\ At(r, "done")')

Born(r, d) ==
  /\ At(r, "register:insert") \/ At(r, "social:create")
  /\ At(r, "done")' \/ At(r, "issue")'
  /\ d.state = "live" /\ d.phone \in {None, d.given} /\ d.pending = None
  /\ d.via # None => link'[d.via] = r

Documents(r) ==
  /\ user' \in [UserIds -> User]
  /\ \A u \in UserIds : user'[u] = user[u] \/ Follows(r, u, user'[u]) \/ (u = r /\ Born(r, user'[u]))
  /\ \A u \in UserIds : Keeps(r, u, user'[u])
  /\ \E w \in UserIds : \A u \in UserIds : u = w \/ \A k \in SecretKinds : Kept(user'[u], k) \subseteq Kept(user[u], k)

LEMMA SameDocuments ==
  ASSUME AccountsTypeOK, NEW r \in Requests, UNCHANGED user
  PROVE  Documents(r)
  BY DEF AccountsTypeOK, Documents, Keeps, UserIds

LEMMA SetDocuments ==
  ASSUME AccountsTypeOK, NEW r \in Requests, NEW u \in UserIds, NEW d \in User, Set(u, d),
         Follows(r, u, d) \/ (u = r /\ Born(r, d)), Keeps(r, u, d)
  PROVE  Documents(r)
  <1>1. user' \in [UserIds -> User] /\ user'[u] = d /\ \A v \in UserIds : v # u => user'[v] = user[v]
    BY DEF Set, AccountsTypeOK
  <1>2. \A v \in UserIds : Keeps(r, v, user'[v])
    BY <1>1 DEF Keeps
  <1>3. \A v \in UserIds : v = u \/ \A k \in SecretKinds : Kept(user'[v], k) \subseteq Kept(user[v], k)
    BY <1>1
  <1>4. \A v \in UserIds : user'[v] = user[v] \/ Follows(r, v, user'[v]) \/ (v = r /\ Born(r, user'[v]))
    BY <1>1
  <1>5. QED BY <1>1, <1>2, <1>3, <1>4 DEF Documents

LEMMA ClosedIs ==
  ASSUME NEW d \in User
  PROVE  /\ Closed(d) \in User /\ Closed(d).state = "deleted" /\ Closed(d).via = d.via
         /\ Closed(d).given = d.given
         /\ Closed(d).phone = None /\ Closed(d).pending = None
         /\ Closed(d).email = None /\ Closed(d).name = None
         /\ \A k \in SecretKinds : Kept(Closed(d), k) = {}
  <1>1. /\ Closed(d) \in User /\ Closed(d).state = "deleted" /\ Closed(d).via = d.via
        /\ Closed(d).given = d.given
        /\ Closed(d).phone = None /\ Closed(d).pending = None
        /\ Closed(d).email = None /\ Closed(d).name = None
        /\ Closed(d).tokens = {} /\ Closed(d).resetOtp = None
        /\ Closed(d).emailOtp = None /\ Closed(d).phoneOtp = None
    BY DEF Closed, User
  <1>2. QED BY <1>1, KeptIs DEF SecretKinds

LEMMA ReleaseDocuments ==
  ASSUME AccountsTypeOK, NEW r \in Requests, NEW e, NEW n, Release(e, n)
  PROVE  /\ Documents(r)
         /\ \A u \in UserIds : user'[u] = IF u \in Released(e, n) THEN Closed(user[u]) ELSE user[u]
         /\ \A u \in UserIds : ~Exists(u)' => user'[u] = user[u]
  <1>1. \A u \in UserIds : user'[u] = IF u \in Released(e, n) THEN Closed(user[u]) ELSE user[u]
    BY DEF Release
  <1>2. \A u \in UserIds : user[u] \in User
    BY DEF AccountsTypeOK
  <1>3. user' \in [UserIds -> User]
    BY <1>2, ClosedIs DEF Release
  <1>4. ASSUME NEW u \in Released(e, n)
        PROVE  u \in UserIds /\ Follows(r, u, user'[u]) /\ \A k \in SecretKinds : Kept(user'[u], k) = {}
    <2>1. u \in UserIds /\ user[u].state = "deleted"
      BY DEF Released
    <2>2. user'[u] = Closed(user[u]) /\ user[u] \in User
      BY <1>1, <1>2, <2>1
    <2>3. QED BY <2>1, <2>2, ClosedIs DEF Follows
  <1>5. \A u \in UserIds : u \notin Released(e, n) => user'[u] = user[u]
    BY <1>1
  <1>6. \A u \in UserIds : Keeps(r, u, user'[u])
    BY <1>4, <1>5 DEF Keeps
  <1>7. Earlier \in UserIds
    BY DEF UserIds
  <1>8. \A u \in UserIds, k \in SecretKinds : Kept(user'[u], k) \subseteq Kept(user[u], k)
    BY <1>4, <1>5
  <1>9. Documents(r)
    BY <1>3, <1>4, <1>5, <1>6, <1>7, <1>8 DEF Documents
  <1>10. \A u \in UserIds : ~Exists(u)' => user'[u] = user[u]
    BY <1>4, <1>5, <1>1, <1>2, ClosedIs DEF Exists
  <1>11. QED BY <1>1, <1>9, <1>10

-----------------------------------------------------------------------------
(* What every step comes to. *)
Effect(r) ==
  /\ AccountsTypeOK' /\ Apart(r) /\ Unseen(r) /\ Documents(r) /\ CarryOK(r)'
  /\ ~At(r, "done") /\ (At(r, "issue") => At(r, "done")')
  /\ At(r, "new") \/ (req'[r].call = req[r].call /\ req'[r].clean = req[r].clean)

(* What the invariants ask of it. *)
Finds(r) ==
  /\ At(r, "new") /\ UNCHANGED user /\ req'[r].user \in UserIds
  /\ Secret(r)' \in Kept(user[req'[r].user], Kind(r)')

Spends(r) == Presents(r) /\ Hidden(r) /\ Secret(r) \notin Kept(user'[req[r].user], Kind(r))

Links(r) ==
  /\ dropped \subseteq dropped'
  /\ \A g \in Uids : \/ link'[g] = link[g] \/ link[g] = None \/ ~Live(link[g])
                     \/ g \in dropped'

Justified(r) == Refused(r) /\ req[r].clean => InUse(r) \/ NameHeld(r)

Right(r) ==
  /\ At(r, "profile")' /\ req'[r].call.phone # None =>
       req'[r].call.phone \in {user[req'[r].user].phone, user[req'[r].user].pending}
  /\ Presents(r)' => Finds(r)
  /\ Spent(r)' => Spent(r) \/ Spends(r)
  /\ SessionOK(r) => SessionOK(r)'
  /\ SignUpOK(r) => SignUpOK(r)'
  /\ LinkOK(r) => LinkOK(r)' /\ Links(r)
  /\ SignUpOK(r) => Justified(r)

LEMMA NotRefused ==
  ASSUME NEW r, req'[r].out \in {"none", "ok", "failed"}
  PROVE  Justified(r)
  BY DEF Justified, Refused

(* A request that is where the invariants say little. *)
LEMMA QuietRight ==
  ASSUME Carry, NEW r \in Requests,
         req'[r].pc \in {"done", "unlink", "resend", "phoneOtp"},
         req'[r].out \in {"none", "ok", "failed"},
         Uses(r)' => Spent(r) \/ Spends(r), LinkOK(r) => Links(r)
  PROVE  Right(r)
  <1>1. /\ ~At(r, "profile")' /\ ~Presents(r)' /\ (Spent(r)' => Uses(r)')
    BY DEF At, Presents, Spent
  <1>2. SessionOK(r)' /\ SignUpOK(r)' /\ LinkOK(r)' /\ Justified(r)
    BY NotRefused DEF At, SessionOK, SignUpOK, LinkOK, AsksAgain
  <1>3. QED BY <1>1, <1>2 DEF Right

(* A sign-up on its way, or refused. *)
LEMMA SignUpRight ==
  ASSUME Carry, NEW r \in Requests,
         req'[r].pc \in {"done", "register:check", "register:insert", "social:email",
                        "social:again", "social:name", "social:create"},
         req'[r].out # "ok", LinkOK(r) => Links(r),
         SignUpOK(r) => SignUpOK(r)', SignUpOK(r) => Justified(r)
  PROVE  Right(r)
  <1>1. ~At(r, "profile")' /\ ~Presents(r)' /\ ~Spent(r)' /\ SessionOK(r)' /\ LinkOK(r)'
    BY DEF At, Presents, Spent, Uses, SessionOK, LinkOK
  <1>2. QED BY <1>1 DEF Right

(* A request that is about to issue tokens. *)
LEMMA IssueRight ==
  ASSUME Carry, NEW r \in Requests, req'[r].pc = "issue", req'[r].out = "none",
         SessionOK(r) /\ req'[r].clean =>
           LET d == user'[req'[r].user] IN
           d.state = "live" /\ (d.active \/ req'[r].call.op = "verify"),
         req'[r].call.op \in {"refresh", "verify"} => Spends(r),
         LinkOK(r) => Links(r)
  PROVE  Right(r)
  <1>1. ~At(r, "profile")' /\ ~Presents(r)'
    BY DEF At, Presents
  <1>2. Spent(r)' => Spends(r)
    BY DEF Spent, Uses
  <1>3. SessionOK(r) => SessionOK(r)'
    BY DEF At, SessionOK, Live
  <1>4. SignUpOK(r)' /\ LinkOK(r)' /\ Justified(r)
    BY NotRefused DEF At, SignUpOK, LinkOK, AsksAgain
  <1>5. QED BY <1>1, <1>2, <1>3, <1>4 DEF Right

LEMMA NothingLinked ==
  ASSUME NEW r, UNCHANGED <<link, dropped>>
  PROVE  Links(r)
  BY DEF Links

LEMMA AccountsStay ==
  ASSUME Carry, NEW r \in Requests, Documents(r)
  PROVE  \A u \in UserIds : /\ Exists(u) => Exists(u)' \/ (u = r /\ Born(r, user'[r]))
                            /\ user[u].state = "deleted" => user'[u].state = "deleted"
  <1>1. TAKE u \in UserIds
  <1>2. CASE Follows(r, u, user'[u]) \/ user'[u] = user[u]
    BY <1>2 DEF Follows, Exists, AccountsTypeOK, Carry, User
  <1>3. CASE u = r /\ Born(r, user'[u])
    <2>1. ~Exists(r)
      BY <1>3 DEF Carry, AccountsOK, Born, At
    <2>2. QED BY <1>3, <2>1 DEF Exists
  <1>4. QED BY <1>2, <1>3 DEF Documents

LEMMA GoesEffect ==
  ASSUME Carry, NEW r \in Requests, NEW j \in Req, Goes(r, j),
         ~At(r, "done"), At(r, "issue") => j.pc = "done",
         At(r, "new") \/ (j.call = req[r].call /\ j.clean = req[r].clean),
         Carries(j), j.pc \in UserPcs => Exists(j.user) /\ j.pc # "unlink"
  PROVE  Effect(r) /\ req'[r] = j
  <1>1. /\ req' \in [Requests -> Req] /\ req'[r] = j /\ Apart(r) /\ Unseen(r)
        /\ UNCHANGED <<user, link, dropped>>
    BY GoesReq DEF Carry
  <1>2. AccountsTypeOK'
    BY <1>1 DEF Carry, AccountsTypeOK
  <1>3. Documents(r)
    BY <1>1, SameDocuments DEF Carry
  <1>4. CarryOK(r)'
    BY <1>1 DEF CarryOK, Exists, At, UserPcs
  <1>5. QED BY <1>1, <1>2, <1>3, <1>4 DEF Effect, At

LEMMA WroteEffect ==
  ASSUME Carry, NEW r \in Requests, NEW j \in Req, Wrote(r, j), Documents(r),
         link' \in [Uids -> UserIds \cup {None}], dropped' \subseteq Uids,
         ~At(r, "done"), At(r, "issue") => j.pc = "done",
         At(r, "new") \/ (j.call = req[r].call /\ j.clean = req[r].clean),
         Carries(j),
         j.pc \in UserPcs => user'[j.user].state # "none",
         j.pc = "unlink" => user'[j.user].state = "deleted"
  PROVE  Effect(r) /\ req'[r] = j
  <1>1. req' \in [Requests -> Req] /\ req'[r] = j /\ Apart(r) /\ Unseen(r)
    BY WroteReq DEF Carry
  <1>2. AccountsTypeOK'
    BY <1>1 DEF Documents, AccountsTypeOK
  <1>3. CarryOK(r)'
    BY <1>1 DEF CarryOK, Exists, At, UserPcs
  <1>4. QED BY <1>1, <1>2, <1>3 DEF Effect, At

(* A call that reads and goes on, and what it has found. *)
Found(c, pc, u) ==
  \/ pc = "issue" /\ c.op = "login" /\ Live(u) /\ user[u].active
  \/ /\ pc = "remove" /\ c.op \in {"refresh", "logout"} /\ c.secret \in user[u].tokens
     /\ c.secret # None /\ (c.op = "refresh" => Live(u) /\ user[u].active)
  \/ /\ pc = "mark" /\ c.op = "verify" /\ c.secret # None /\ c.secret = user[u].emailOtp
     /\ Live(u)
  \/ /\ pc = "password" /\ c.op \in {"reset", "change"} /\ c.secret # None
     /\ c.op = "reset" => c.secret = user[u].resetOtp
  \/ pc = "resend" /\ c.op = "resend"
  \/ pc = "phoneOtp" /\ c.op = "phoneOtp" /\ c.user = u

LEMMA FoundRight ==
  ASSUME Carry, NEW r \in Requests, NEW c \in Calls, NEW u \in UserIds, NEW pc, At(r, "new"),
         Found(c, pc, u), UNCHANGED <<user, link, dropped>>,
         req'[r].pc = pc, req'[r].call = c, req'[r].user = u, req'[r].out = "none",
         ~req'[r].again
  PROVE  Right(r)
  <1>1. Presents(r)' => Finds(r)
    <2>1. CASE pc = "remove"
      BY <2>1, KeptIs DEF Found, Finds, Secret, Kind
    <2>2. CASE pc = "mark"
      BY <2>2, KeptIs DEF Found, Finds, Secret, Kind
    <2>3. CASE pc = "password" /\ c.op = "reset"
      BY <2>3, KeptIs DEF Found, Finds, Secret, Kind
    <2>4. QED BY <2>1, <2>2, <2>3 DEF Presents, At
  <1>2. ~Spent(r)' /\ ~At(r, "profile")'
    BY DEF Found, Spent, Uses, At
  <1>3. SessionOK(r)'
    BY DEF Found, SessionOK, At, Live
  <1>4. SignUpOK(r)' /\ LinkOK(r)' /\ Links(r) /\ Justified(r)
    BY NothingLinked, NotRefused DEF Found, SignUpOK, LinkOK, At, AsksAgain
  <1>5. QED BY <1>1, <1>2, <1>3, <1>4 DEF Right

LEMMA AskEffect ==
  ASSUME Carry, NEW r \in Requests, NEW c \in Calls, At(r, "new"),
         \/ Verify(r, c) \/ Resend(r, c) \/ Login(r, c) \/ Refresh(r, c) \/ Logout(r, c)
         \/ ResetPassword(r, c) \/ ChangePassword(r, c) \/ RequestPhoneOtp(r, c)
         \/ UpdateProfile(r, c) \/ Social(r, c)
  PROVE  Effect(r) /\ Right(r)
  <1>1. ~At(r, "done") /\ ~At(r, "issue")
    BY DEF At
  <1>2. \A u \in UserIds : Live(u) => Exists(u)
    BY DEF Live, Exists
  <1>3. ASSUME NEW u \in UserIds, Exists(u), NEW pc, Begin(r, c, pc, u), Found(c, pc, u)
        PROVE  Effect(r) /\ Right(r)
    <2>1. PICK j : j = Begun(c, pc, u)
      OBVIOUS
    <2>2. pc \in UserPcs \ {"unlink"} /\ pc \in Pc
      BY <1>3 DEF Found, UserPcs, Pc
    <2>3. /\ j \in Req /\ j.pc = pc /\ j.call = c /\ j.user = u /\ j.out = "none" /\ ~j.again
      BY <2>1, <2>2, ReqBegins
    <2>4. Carries(j)
      BY <1>3, <2>2, <2>3 DEF Carries, SocialPcs, UserPcs, Found
    <2>5. Goes(r, j)
      BY <1>3, <2>1 DEF Begin, Begun
    <2>6. Effect(r) /\ req'[r] = j
      BY <1>1, <1>3, <2>2, <2>3, <2>4, <2>5, GoesEffect
    <2>7. Right(r)
      BY <1>3, <2>3, <2>5, <2>6, FoundRight DEF Goes
    <2>8. QED BY <2>6, <2>7
  <1>4. CASE Verify(r, c)
    BY <1>2, <1>3, <1>4 DEF Verify, LiveAt, Found
  <1>5. CASE Resend(r, c)
    BY <1>2, <1>3, <1>5 DEF Resend, LiveAt, Found
  <1>6. CASE Login(r, c)
    BY <1>2, <1>3, <1>6 DEF Login, LiveAt, Found
  <1>7. CASE Refresh(r, c)
    BY <1>2, <1>3, <1>7 DEF Refresh, MayRefresh, Found
  <1>8. CASE Logout(r, c)
    BY <1>2, <1>3, <1>8 DEF Logout, Found
  <1>9. CASE ResetPassword(r, c)
    BY <1>2, <1>3, <1>9 DEF ResetPassword, LiveAt, Found
  <1>10. CASE ChangePassword(r, c)
    BY <1>2, <1>3, <1>10 DEF ChangePassword, Found
  <1>11. CASE RequestPhoneOtp(r, c)
    BY <1>2, <1>3, <1>11 DEF RequestPhoneOtp, Found
  <1>12. CASE UpdateProfile(r, c)
    <2>1. PICK u \in UserIds : /\ u = c.user /\ Live(u) /\ (Changing(u, c) => PhoneOtpRight(u, c))
                               /\ Goes(r, [Fresh EXCEPT !.pc = "profile", !.call = c, !.user = u,
                                                        !.again = Changing(u, c)])
      BY <1>12 DEF UpdateProfile
    <2>2. PICK j : j = [Fresh EXCEPT !.pc = "profile", !.call = c, !.user = u,
                                     !.again = Changing(u, c)]
      OBVIOUS
    <2>3. Changing(u, c) \in BOOLEAN
      BY DEF Changing
    <2>4. /\ Fresh \in Req /\ Fresh.out = "none" /\ c \in Call
      BY FreshReq
    <2>5. /\ j \in Req /\ j.pc = "profile" /\ j.call = c /\ j.user = u /\ j.out = "none"
          /\ j.again = Changing(u, c)
      BY <2>2, <2>3, <2>4 DEF Req, Pc
    <2>6. Carries(j)
      BY <1>12, <2>1, <2>5 DEF Carries, SocialPcs, UserPcs, UpdateProfile, PhoneOtpRight
    <2>7. Effect(r) /\ req'[r] = j /\ UNCHANGED <<user, link, dropped>>
      BY <1>1, <1>2, <2>1, <2>2, <2>5, <2>6, GoesEffect DEF Goes, UserPcs
    <2>8. Presents(r)' => Finds(r)
      <3>1. ASSUME Presents(r)'
            PROVE  c.secret \in Kept(user[u], "profile")
        <4>1. PhoneOtpRight(u, c)
          BY <2>1, <2>5, <2>7, <3>1 DEF Presents, At
        <4>2. QED BY <4>1, KeptIs DEF PhoneOtpRight
      <3>2. Secret(r)' = c.secret /\ Kind(r)' = "profile"
        BY <1>12, <2>5, <2>7 DEF Secret, Kind, UpdateProfile
      <3>3. QED BY <2>5, <2>7, <3>1, <3>2 DEF Finds
    <2>9. c.phone # None => c.phone \in {user[u].phone, user[u].pending}
      BY <2>1 DEF Changing, PhoneOtpRight
    <2>10. /\ ~Spent(r)' /\ SessionOK(r)' /\ SignUpOK(r)' /\ LinkOK(r)' /\ Links(r)
           /\ Justified(r)
      BY <2>5, <2>7, NothingLinked, NotRefused
      DEF Spent, Uses, SessionOK, SignUpOK, LinkOK, At, AsksAgain
    <2>11. QED BY <2>5, <2>7, <2>8, <2>9, <2>10 DEF Right
  <1>13. CASE Social(r, c)
    <2>1. PICK pc, u, j : /\ u = link[c.uid]
                          /\ pc = IF link[c.uid] = None THEN "social:email" ELSE "social:user"
                          /\ j = Begun(c, pc, u)
      OBVIOUS
    <2>2. c.uid \in Uids /\ c.op = "social"
      BY <1>13, AccountsAssumption DEF Social, Call
    <2>3. u \in UserIds \cup {None} /\ (pc = "social:user" => u \in UserIds) /\ pc \in SocialPcs /\ pc \in Pc
      BY <2>1, <2>2 DEF Carry, AccountsTypeOK, SocialPcs, Pc
    <2>4. /\ j \in Req /\ j.pc = pc /\ j.call = c /\ j.user = u /\ j.out = "none"
          /\ ~j.again /\ j.tries = 0
      BY <2>1, <2>3, ReqBegins
    <2>5. Carries(j)
      BY <2>1, <2>2, <2>3, <2>4 DEF Carries, SocialPcs, UserPcs
    <2>6. Goes(r, j)
      BY <1>13, <2>1 DEF Social, Begin, Begun
    <2>7. j.pc \notin UserPcs
      BY <2>3, <2>4 DEF SocialPcs, UserPcs
    <2>8. Effect(r) /\ req'[r] = j /\ UNCHANGED <<user, link, dropped>>
      BY <1>1, <2>4, <2>5, <2>6, <2>7, GoesEffect DEF Goes
    <2>9. /\ ~At(r, "profile")' /\ ~Presents(r)' /\ ~Spent(r)'
          /\ SessionOK(r)' /\ Justified(r)
      BY <2>1, <2>4, <2>8, NotRefused DEF At, Presents, Spent, Uses, SessionOK
    <2>10. LinkOK(r)' /\ Links(r)
      BY <2>1, <2>4, <2>8, NothingLinked DEF LinkOK, At
    <2>11. SignUpOK(r)'
      <3>1. pc = "social:email" => link'[req'[r].call.uid] = None
        BY <2>1, <2>4, <2>8
      <3>2. req'[r].pc \in {"social:email", "social:user"} /\ ~req'[r].again /\ req'[r].pc = pc
        BY <2>1, <2>4, <2>8
      <3>3. QED BY <3>1, <3>2 DEF SignUpOK, At, AsksAgain
    <2>12. QED BY <2>8, <2>9, <2>10, <2>11 DEF Right
  <1>14. QED BY <1>4, <1>5, <1>6, <1>7, <1>8, <1>9, <1>10, <1>11, <1>12, <1>13

(* A step that reads and goes on. *)
RegisterConflict(r) ==
  LET c == req[r].call
  IN /\ At(r, "register:insert") /\ ~(EmailFree(c.email) /\ NameFree(c.name))
     /\ Goes(r, Done(req[r], "conflict"))

(* Who undisturbed has released a name and found nobody alive with it finds *)
(* nobody with it.                                                          *)
LEMMA CheckedIsFree ==
  ASSUME Carry, NEW e, NEW n, e # None, n # None,
         Released(e, n) = {}, LiveAt(e) \cup LiveNamed(n) = {}
  PROVE  EmailFree(e) /\ NameFree(n)
  <1>1. SUFFICES ASSUME NEW u \in UserIds
                 PROVE  user[u].email # e /\ user[u].name # n
    BY DEF EmailFree, NameFree
  <1>2. user[u].state \in {"none", "live", "deleted"}
    BY DEF Carry, AccountsTypeOK, User
  <1>3. CASE user[u].state = "none"
    <2>1. user[u] = NoUser
      BY <1>3 DEF Carry, AccountsOK, Exists
    <2>2. QED BY <2>1 DEF NoUser
  <1>4. CASE user[u].state = "live"
    BY <1>4 DEF LiveAt, LiveNamed, Live
  <1>5. CASE user[u].state = "deleted"
    BY <1>5 DEF Released
  <1>6. QED BY <1>2, <1>3, <1>4, <1>5

(* What is taken is taken by somebody alive or deleted. *)
LEMMA NobodyHasNone ==
  ASSUME Carry, NEW u \in UserIds, ~Exists(u)
  PROVE  user[u].email = None /\ user[u].name = None
  BY DEF Carry, AccountsOK, NoUser

LEMMA ReadEffect ==
  ASSUME Carry, NEW r \in Requests,
         \/ RegisterCheck(r) \/ SocialUser(r) \/ SocialEmail(r) \/ SocialAgain(r)
         \/ SocialDuplicate(r) \/ Dies(r)
         \/ RegisterConflict(r)
  PROVE  Effect(r) /\ Right(r)
  <1>1. req[r] \in Req /\ Carries(req[r])
    BY DEF Carry, AccountsTypeOK, CarryOK
  <1>2. ASSUME NEW j \in Req, Goes(r, j), ~At(r, "done"), At(r, "issue") => j.pc = "done",
               j.call = req[r].call, j.clean = req[r].clean, Carries(j),
               j.pc \in UserPcs => Exists(j.user) /\ j.pc # "unlink"
        PROVE  Effect(r) /\ req'[r] = j /\ Links(r) /\ UNCHANGED <<user, link, dropped>>
    BY <1>2, GoesEffect, NothingLinked DEF Goes
  <1>3. ASSUME NEW out \in {"ok", "taken", "conflict", "exists", "gaveUp", "failed"},
               Goes(r, Done(req[r], out)), ~At(r, "done"), out # "ok",
               out = "failed" \/ (SignUpOK(r) /\ req[r].clean => InUse(r)) \/
                 (out = "gaveUp" /\ (SignUpOK(r) /\ req[r].clean =>
                    (req[r].name = Base[EmailOf[req[r].call.uid]] =>
                      \E u \in UserIds : user[u].state = "deleted" /\ user[u].name = req[r].name)))
        PROVE  Effect(r) /\ Right(r)
    <2>1. PICK j : j = Done(req[r], out)
      OBVIOUS
    <2>2. /\ j \in Req /\ j.pc = "done" /\ j.call = req[r].call /\ j.clean = req[r].clean
          /\ j.out = out
      BY <1>1, <2>1, ReqEnds
    <2>3. Carries(j)
      BY <2>2 DEF Carries, UserPcs, SocialPcs
    <2>4. Effect(r) /\ req'[r] = j /\ Links(r)
      BY <1>2, <1>3, <2>1, <2>2, <2>3 DEF UserPcs
    <2>5. SignUpOK(r) => Justified(r)
      <3>1. req'[r].out = out
        BY <2>2, <2>4
      <3>2. QED BY <1>3, <3>1, NotRefused DEF Justified, NameHeld
    <2>6. SignUpOK(r)'
      BY <2>2, <2>4 DEF SignUpOK, At, AsksAgain
    <2>7. QED BY <1>3, <2>2, <2>4, <2>5, <2>6, SignUpRight
  <1>4. ASSUME NEW pc \in Pc, Goes(r, To(req[r], pc)), ~At(r, "done"), ~At(r, "issue"), ~At(r, "new"),
               Carries(To(req[r], pc)), pc \notin UserPcs
        PROVE  /\ Effect(r) /\ req'[r] = To(req[r], pc) /\ Links(r)
               /\ UNCHANGED <<user, link, dropped>>
               /\ (SignUpOK(r) => SignUpOK(r)')
                    /\ pc \in {"social:again", "social:name", "register:insert"} => Right(r)
    <2>1. PICK j : j = To(req[r], pc)
      OBVIOUS
    <2>2. /\ j \in Req /\ j.pc = pc /\ j.call = req[r].call /\ j.clean = req[r].clean
          /\ j.out = req[r].out
      BY <1>1, <2>1, ReqGoesOn
    <2>3. Effect(r) /\ req'[r] = j /\ Links(r) /\ UNCHANGED <<user, link, dropped>>
      BY <1>2, <1>4, <2>1, <2>2
    <2>4. j.out = "none"
      BY <1>1, <1>4, <2>2 DEF Carries, At
    <2>5. ASSUME SignUpOK(r) => SignUpOK(r)',
                 pc \in {"social:again", "social:name", "register:insert"}
          PROVE  Right(r)
      BY <2>2, <2>3, <2>4, <2>5, SignUpRight, NotRefused
    <2>6. QED BY <2>1, <2>2, <2>3, <2>4, <2>5
  <1>5. CASE RegisterCheck(r)
    <2>1. CASE Goes(r, To(req[r], "register:insert"))
      <3>1. Carries(To(req[r], "register:insert"))
        BY <1>1, <1>5, ReqGoesOn DEF RegisterCheck, At, Carries, UserPcs, SocialPcs, Pc
      <3>2. /\ Effect(r) /\ req'[r] = To(req[r], "register:insert") /\ Links(r)
            /\ UNCHANGED <<user, link, dropped>>
        BY <1>4, <1>5, <2>1, <3>1 DEF RegisterCheck, At, UserPcs, Pc
      <3>3. /\ At(r, "register:insert")' /\ req'[r].call = req[r].call
            /\ req'[r].clean = req[r].clean /\ req'[r].out = "none"
        BY <1>1, <1>5, <3>2, ReqGoesOn DEF RegisterCheck, At, Pc, Carries
      <3>4. CASE LiveAt(req[r].call.email) \cup LiveNamed(req[r].call.name) = {}
        <4>1. SignUpOK(r) => SignUpOK(r)'
          <5>1. PICK e, n : e = req[r].call.email /\ n = req[r].call.name
            OBVIOUS
          <5>2. e # None /\ n # None
            BY <1>1, <1>5, <5>1 DEF RegisterCheck, At, Carries
          <5>3. ASSUME SignUpOK(r), req[r].clean
                PROVE  EmailFree(e) /\ NameFree(n)
            BY <1>5, <3>4, <5>1, <5>2, <5>3, CheckedIsFree DEF SignUpOK, RegisterCheck
          <5>4. (EmailFree(e) => EmailFree(e)') /\ (NameFree(n) => NameFree(n)')
            BY <3>2 DEF EmailFree, NameFree
          <5>5. req'[r].call.email = e /\ req'[r].call.name = n
            BY <3>3, <5>1
          <5>6. QED BY <3>3, <5>3, <5>4, <5>5 DEF SignUpOK, At, AsksAgain
        <4>2. QED BY <3>2, <3>3, <4>1, SignUpRight, NotRefused DEF At
      <3>5. CASE LiveAt(req[r].call.email) \cup LiveNamed(req[r].call.name) # {}
        <4>1. req'[r].pc = "done"
          BY <1>1, <1>5, <3>5, GoesReq, ReqEnds DEF RegisterCheck, Carry
        <4>2. QED BY <3>3, <4>1 DEF At
      <3>6. QED BY <3>4, <3>5
    <2>2. CASE /\ LiveAt(req[r].call.email) \cup LiveNamed(req[r].call.name) # {}
               /\ Goes(r, Done(req[r], "taken"))
      <3>1. req[r].call.op = "register" /\ ~At(r, "done")
        BY <1>1, <1>5 DEF RegisterCheck, At, Carries
      <3>2. QED BY <1>3, <2>2, <3>1 DEF InUse
    <2>3. QED BY <1>5, <2>1, <2>2 DEF RegisterCheck, To
  <1>6. CASE SocialUser(r)
    <2>1. CASE Goes(r, To(req[r], "social:forget"))
      <3>1. Carries(To(req[r], "social:forget"))
        BY <1>1, <1>6, ReqGoesOn DEF SocialUser, At, Carries, UserPcs, SocialPcs, Pc
      <3>2. /\ Effect(r) /\ req'[r] = To(req[r], "social:forget") /\ Links(r)
            /\ UNCHANGED <<user, link, dropped>>
        BY <1>4, <1>6, <2>1, <3>1 DEF SocialUser, At, UserPcs, Pc
      <3>3. /\ At(r, "social:forget")' /\ req'[r].call = req[r].call /\ req'[r].user = req[r].user
            /\ req'[r].clean = req[r].clean /\ req'[r].out = "none"
        BY <1>1, <1>6, <3>2, ReqGoesOn DEF SocialUser, At, Pc, Carries
      <3>4. CASE ~Live(req[r].user)
        <4>1. LinkOK(r) => LinkOK(r)'
          BY <1>6, <3>2, <3>3, <3>4 DEF LinkOK, SocialUser, At, Live
        <4>2. ~Presents(r)' /\ ~Spent(r)' /\ SessionOK(r)'
          BY <3>3 DEF Presents, Spent, Uses, SessionOK, At
        <4>3. ~At(r, "profile")' /\ Justified(r)
          BY <3>3, NotRefused DEF At
        <4>4. SignUpOK(r) => SignUpOK(r)'
          <5>1. req'[r].again = req[r].again
            BY <1>1, <3>2, ReqGoesOn DEF Pc
          <5>2. QED BY <1>6, <3>2, <3>3, <5>1 DEF SocialUser, SignUpOK, At, AsksAgain, LiveAt, Live
        <4>5. QED BY <3>2, <4>1, <4>2, <4>3, <4>4 DEF Right
      <3>5. CASE Live(req[r].user)
        <4>1. req'[r].pc \in {"done", "issue"}
          <5>1. PICK j \in {To(req[r], "issue"), Done(req[r], "failed")} : Goes(r, j)
            BY <1>6, <3>5 DEF SocialUser, To
          <5>2. j \in Req /\ j.pc \in {"done", "issue"}
            BY <1>1, ReqEnds, ReqGoesOn DEF Pc
          <5>3. QED BY <5>1, <5>2, GoesReq DEF Carry
        <4>2. QED BY <3>3, <4>1 DEF At
      <3>6. QED BY <3>4, <3>5
    <2>2. CASE /\ Live(req[r].user) /\ user[req[r].user].active
               /\ Goes(r, To(req[r], "issue"))
      <3>1. PICK j : j = To(req[r], "issue")
        OBVIOUS
      <3>2. j \in Req /\ j.pc = "issue" /\ j.call = req[r].call /\ j.clean = req[r].clean
            /\ j.user = req[r].user /\ j.out = req[r].out
        BY <1>1, <3>1, ReqGoesOn DEF Pc
      <3>3. Carries(j)
        BY <1>1, <1>6, <3>2 DEF SocialUser, At, Carries, UserPcs, SocialPcs
      <3>4. Effect(r) /\ req'[r] = j /\ Links(r) /\ UNCHANGED <<user, link, dropped>>
        BY <1>2, <1>6, <2>2, <3>1, <3>2, <3>3 DEF SocialUser, At, Live, Exists
      <3>5. j.out = "none" /\ j.call.op = "social"
        BY <1>1, <1>6, <3>2 DEF SocialUser, At, Carries, SocialPcs
      <3>6. SessionOK(r)'
        BY <2>2, <3>2, <3>4 DEF SessionOK, At, Live
      <3>7. /\ ~Presents(r)' /\ ~Spent(r)' /\ SignUpOK(r)' /\ LinkOK(r)' /\ ~At(r, "profile")'
            /\ Justified(r)
        BY <3>2, <3>4, <3>5, NotRefused DEF Presents, Spent, Uses, SignUpOK, LinkOK, At, AsksAgain
      <3>8. QED BY <3>4, <3>6, <3>7 DEF Right
    <2>3. CASE Goes(r, Done(req[r], "failed"))
      BY <1>3, <1>6, <2>3 DEF SocialUser, At
    <2>4. CASE ~Live(req[r].user)
      BY <1>6, <2>1, <2>4 DEF SocialUser, To
    <2>5. CASE Live(req[r].user) /\ user[req[r].user].active
      BY <1>6, <2>2, <2>5 DEF SocialUser, To
    <2>6. CASE Live(req[r].user) /\ ~user[req[r].user].active
      BY <1>6, <2>3, <2>6 DEF SocialUser
    <2>7. QED BY <2>4, <2>5, <2>6
  <1>7. CASE SocialEmail(r)
    <2>1. PICK pc \in {"social:name", "social:again"} :
            /\ Goes(r, To(req[r], pc))
            /\ pc = "social:name" <=> LiveAt(EmailOf[req[r].call.uid]) = {}
      BY <1>7 DEF SocialEmail, To
    <2>2. Carries(To(req[r], pc))
      <3>1. PICK j : j = To(req[r], pc)
        OBVIOUS
      <3>2. /\ j.pc = pc /\ j.call = req[r].call /\ j.again = req[r].again
            /\ j.tries = req[r].tries /\ j.out = req[r].out
        BY <1>1, <2>1, <3>1, ReqGoesOn DEF Pc
      <3>3. /\ req[r].call.op = "social" /\ req[r].call.uid \in Uids /\ ~req[r].again
            /\ req[r].tries = 0 /\ req[r].out = "none"
        BY <1>1, <1>7 DEF SocialEmail, At, Carries, SocialPcs
      <3>4. 0 < MaxTries
        BY AccountsAssumption
      <3>5. Carries(j)
        BY <2>1, <3>2, <3>3, <3>4 DEF Carries, UserPcs, SocialPcs
      <3>6. QED BY <3>1, <3>5
    <2>3. pc \in Pc \ UserPcs /\ pc # "done"
      BY <2>1 DEF Pc, UserPcs
    <2>4. ~At(r, "done") /\ ~At(r, "issue") /\ ~At(r, "new")
      BY <1>7 DEF SocialEmail, At
    <2>5. req'[r] = To(req[r], pc) /\ UNCHANGED <<user, link, dropped>>
      BY <1>4, <2>1, <2>2, <2>3, <2>4
    <2>6. req'[r].pc = pc /\ req'[r].call = req[r].call /\ req'[r].clean = req[r].clean
      BY <1>1, <2>3, <2>5, ReqGoesOn
    <2>7. LiveAt(EmailOf[req[r].call.uid])' = LiveAt(EmailOf[req[r].call.uid])
      BY <2>5, <2>6 DEF LiveAt, Live
    <2>8. SignUpOK(r) => SignUpOK(r)'
      BY <1>7, <2>1, <2>5, <2>6, <2>7 DEF SocialEmail, SignUpOK, At, AsksAgain
    <2>9. QED BY <1>4, <2>1, <2>2, <2>3, <2>4, <2>8
  <1>8. CASE SocialAgain(r)
    <2>1. PICK u, x, j : /\ u = link[req[r].call.uid]
                         /\ x = [req[r] EXCEPT !.again = TRUE]
                         /\ j = IF u = None THEN Done(x, "exists")
                                ELSE [x EXCEPT !.pc = "social:user", !.user = u]
      OBVIOUS
    <2>2. x \in Req /\ x.call = req[r].call /\ x.clean = req[r].clean /\ x.out = req[r].out /\ x.again
      BY <1>1, <2>1 DEF Req
    <2>3. u \in UserIds \cup {None} /\ req[r].call.op = "social" /\ req[r].call.uid \in Uids /\ At(r, "social:again")
      BY <1>1, <1>8, <2>1 DEF SocialAgain, Carries, Carry, AccountsTypeOK, SocialPcs, At
    <2>4. Goes(r, j)
      BY <1>8, <2>1, <2>2 DEF SocialAgain, Unlinked
    <2>5. CASE u = None
      <3>1. j \in Req /\ j.pc = "done" /\ j.call = req[r].call /\ j.clean = req[r].clean
        BY <2>1, <2>2, <2>5, ReqEnds
      <3>2. Carries(j)
        BY <3>1 DEF Carries, UserPcs, SocialPcs
      <3>3. Effect(r) /\ req'[r] = j /\ Links(r)
        BY <1>2, <2>3, <2>4, <3>1, <3>2 DEF UserPcs, At
      <3>4. j.out = "exists"
        BY <2>1, <2>2, <2>5, ReqEnds
      <3>5. SignUpOK(r) => Justified(r)
        BY <2>3 DEF SignUpOK, AsksAgain, Justified, InUse
      <3>6. SignUpOK(r)'
        BY <3>1, <3>3 DEF SignUpOK, At, AsksAgain
      <3>7. QED BY <3>1, <3>3, <3>4, <3>5, <3>6, SignUpRight
    <2>6. CASE u # None
      <3>1. /\ j \in Req /\ j.pc = "social:user" /\ j.call = req[r].call /\ j.clean = req[r].clean
            /\ j.user = u /\ j.again /\ j.out = req[r].out
        <4>1. j = [x EXCEPT !.pc = "social:user", !.user = u]
          BY <2>1, <2>6
        <4>2. /\ j \in Req /\ j.pc = "social:user" /\ j.call = x.call /\ j.clean = x.clean
              /\ j.user = u /\ j.again = x.again /\ j.out = x.out
          BY <2>2, <2>3, <4>1 DEF Req, Pc
        <4>3. QED BY <2>2, <4>2
      <3>2. Carries(j)
        BY <1>1, <2>3, <2>6, <3>1 DEF Carries, UserPcs, SocialPcs, At
      <3>3. Effect(r) /\ req'[r] = j /\ Links(r) /\ UNCHANGED <<user, link, dropped>>
        BY <1>2, <2>3, <2>4, <3>1, <3>2 DEF UserPcs, At
      <3>4. LinkOK(r)'
        BY <2>1, <3>1, <3>3 DEF LinkOK, At
      <3>5. j.out = "none"
        BY <1>1, <2>3, <3>1 DEF Carries, At
      <3>6. /\ ~Presents(r)' /\ ~Spent(r)' /\ SessionOK(r)' /\ ~At(r, "profile")'
            /\ Justified(r)
        BY <3>1, <3>3, <3>5, NotRefused DEF Presents, Spent, Uses, SessionOK, At
      <3>7. SignUpOK(r) => SignUpOK(r)'
        BY <2>3, <3>1, <3>3 DEF SignUpOK, At, AsksAgain, LiveAt, Live
      <3>8. QED BY <3>3, <3>4, <3>6, <3>7 DEF Right
    <2>7. QED BY <2>5, <2>6
  <1>9. CASE SocialDuplicate(r)
    <2>1. PICK g, e : g = req[r].call.uid /\ e = EmailOf[g]
      OBVIOUS
    <2>2. /\ At(r, "social:create") /\ req[r].name \in Names /\ e \in Emails
          /\ ~At(r, "done") /\ ~At(r, "issue") /\ ~At(r, "new")
      BY <1>1, <1>9, <2>1, AccountsAssumption DEF SocialDuplicate, At, Carries, SocialPcs
    <2>3. SignUpOK(r) /\ req[r].clean =>
            /\ EmailFree(e) /\ link[g] = None
            /\ req[r].name = Base[e] => LiveNamed(Base[e]) = {}
      BY <2>1, <2>2 DEF SignUpOK
    <2>4. CASE ~NameFree(req[r].name) /\ Goes(r, Done(req[r], "gaveUp"))
      <3>1. PICK u \in UserIds : user[u].name = req[r].name
        BY <2>4 DEF NameFree
      <3>2. user[u].state \in {"live", "deleted"}
        <4>1. user[u].state \in {"none", "live", "deleted"}
          BY DEF Carry, AccountsTypeOK, User
        <4>2. None \notin Names
          BY AccountsAssumption
        <4>3. QED BY <2>2, <3>1, <4>1, <4>2, NobodyHasNone DEF Exists
      <3>3. LiveNamed(req[r].name) = {} => user[u].state = "deleted"
        BY <3>1, <3>2 DEF LiveNamed, Live
      <3>4. QED BY <1>3, <2>1, <2>2, <2>3, <2>4, <3>1, <3>3
    <2>5. CASE (~EmailFree(e) \/ link[g] # None) /\ Goes(r, To(req[r], "social:again"))
      <3>1. Carries(To(req[r], "social:again"))
        BY <1>1, <1>9, ReqGoesOn DEF SocialDuplicate, At, Carries, UserPcs, SocialPcs, Pc
      <3>2. req'[r] = To(req[r], "social:again")
        BY <1>4, <2>2, <2>5, <3>1 DEF UserPcs, Pc
      <3>3. req'[r].clean = req[r].clean
        BY <1>1, <3>2, ReqGoesOn DEF Pc
      <3>4. SignUpOK(r) => SignUpOK(r)'
        BY <2>3, <2>5, <3>3 DEF SignUpOK
      <3>5. QED BY <1>4, <2>2, <2>5, <3>1, <3>4 DEF UserPcs, Pc
    <2>6. CASE TriesAgain(r) /\ Goes(r, To(req[r], "social:name"))
      <3>1. Carries(To(req[r], "social:name"))
        BY <1>1, <1>9, <2>6, ReqGoesOn
        DEF SocialDuplicate, At, Carries, UserPcs, SocialPcs, Pc, TriesAgain
      <3>2. req'[r] = To(req[r], "social:name") /\ UNCHANGED <<user, link, dropped>>
        BY <1>4, <2>2, <2>6, <3>1 DEF UserPcs, Pc
      <3>3. /\ req'[r].clean = req[r].clean /\ req'[r].pc = "social:name"
            /\ req'[r].call = req[r].call
        BY <1>1, <3>2, ReqGoesOn DEF Pc
      <3>4. EmailFree(e) => LiveAt(e)' = {}
        BY <3>2 DEF EmailFree, LiveAt, Live
      <3>5. SignUpOK(r) => SignUpOK(r)'
        BY <2>1, <2>3, <3>2, <3>3, <3>4 DEF SignUpOK, At, AsksAgain
      <3>6. QED BY <1>4, <2>2, <2>6, <3>1, <3>5 DEF UserPcs, Pc
    <2>7. QED BY <1>9, <2>1, <2>4, <2>5, <2>6 DEF SocialDuplicate, To
  <1>10. CASE Dies(r)
    BY <1>3, <1>10 DEF Dies, InFlight, At
  <1>11. CASE RegisterConflict(r)
    BY <1>3, <1>11 DEF RegisterConflict, SignUpOK, At
  <1>12. QED BY <1>5, <1>6, <1>7, <1>8, <1>9, <1>10, <1>11

-----------------------------------------------------------------------------
(* The steps that write. *)

(* What a request may add to an account: what it ends with. *)
New(r) == {s \in {r} : At(r, "done")'}

LEMMA KeepsFields ==
  ASSUME NEW r, NEW u, NEW d,
         d.tokens \subseteq user[u].tokens \cup New(r),
         d.resetOtp \in {None, user[u].resetOtp} \cup New(r),
         d.emailOtp \in {None, user[u].emailOtp} \cup New(r),
         d.phoneOtp \in {None, user[u].phoneOtp} \cup New(r)
  PROVE  Keeps(r, u, d)
  <1>1. /\ Kept(d, "refresh") \subseteq Kept(user[u], "refresh") \cup New(r)
        /\ Kept(d, "reset") \subseteq Kept(user[u], "reset") \cup New(r)
        /\ Kept(d, "verify") \subseteq Kept(user[u], "verify") \cup New(r)
        /\ Kept(d, "profile") \subseteq Kept(user[u], "profile") \cup New(r)
    BY KeptIs
  <1>2. \A s \in New(r) : s = r /\ At(r, "done")'
    BY DEF New
  <1>3. QED BY <1>1, <1>2 DEF Keeps, SecretKinds

(* A document changed and the request gone on. *)
LEMMA SetEffect ==
  ASSUME Carry, NEW r \in Requests, NEW u \in UserIds, NEW d \in User, NEW j \in Req,
         Set(u, d), Wrote(r, j), UNCHANGED <<link, dropped>>,
         Follows(r, u, d), Keeps(r, u, d),
         ~At(r, "done"), At(r, "issue") => j.pc = "done",
         At(r, "new") \/ (j.call = req[r].call /\ j.clean = req[r].clean),
         Carries(j), j.pc \in UserPcs => j.user = u,
         j.pc = "unlink" => d.state = "deleted"
  PROVE  Effect(r) /\ user'[u] = d /\ Links(r)
  <1>1. Documents(r)
    BY SetDocuments DEF Carry
  <1>2. user'[u] = d /\ link' \in [Uids -> UserIds \cup {None}] /\ dropped' \subseteq Uids
    BY DEF Set, Carry, AccountsTypeOK
  <1>3. d.state # "none"
    BY DEF Follows
  <1>4. QED BY <1>1, <1>2, <1>3, WroteEffect, NothingLinked DEF UserPcs

(* A change that leaves the account's state and phones alone. *)
LEMMA SameFollows ==
  ASSUME NEW r, NEW u, NEW d, Exists(u), d.state = user[u].state, d.via = user[u].via,
         d.given = user[u].given, d.phone = user[u].phone, d.pending = user[u].pending
  PROVE  Follows(r, u, d)
  BY DEF Follows, Exists

LEMMA MarkVerifiedStep ==
  ASSUME Carry, NEW r \in Requests, MarkVerified(r)
  PROVE  Effect(r) /\ Right(r)
  <1>1. req[r] \in Req /\ Carries(req[r]) /\ At(r, "mark")
    BY DEF Carry, AccountsTypeOK, CarryOK, MarkVerified
  <1>2. PICK u, d, j : /\ u = req[r].user
                       /\ d = [user[u] EXCEPT !.verified = TRUE, !.emailOtp = None]
                       /\ j = To(req[r], "issue")
    OBVIOUS
  <1>3. u \in UserIds /\ Exists(u) /\ user[u] \in User
    BY <1>1, <1>2 DEF Carries, At, UserPcs, CarryOK, Carry, AccountsTypeOK
  <1>4. /\ d \in User /\ d.state = user[u].state /\ d.via = user[u].via
        /\ d.phone = user[u].phone /\ d.pending = user[u].pending /\ d.given = user[u].given
        /\ d.tokens = user[u].tokens /\ d.resetOtp = user[u].resetOtp
        /\ d.emailOtp = None /\ d.phoneOtp = user[u].phoneOtp
    <2>1. d \in User
      <3>1. PICK x \in User : x = user[u]
        BY <1>3
      <3>2. [x EXCEPT !.verified = TRUE, !.emailOtp = None] \in User
        BY Zenon DEF User
      <3>3. QED BY <1>2, <3>1, <3>2
    <2>2. /\ d.state = user[u].state /\ d.via = user[u].via
          /\ d.phone = user[u].phone /\ d.pending = user[u].pending /\ d.given = user[u].given
          /\ d.tokens = user[u].tokens /\ d.resetOtp = user[u].resetOtp
          /\ d.emailOtp = None /\ d.phoneOtp = user[u].phoneOtp
      BY <1>2, <1>3 DEF User
    <2>3. QED BY <2>1, <2>2
  <1>5. /\ j \in Req /\ j.pc = "issue" /\ j.call = req[r].call /\ j.user = u
        /\ j.clean = req[r].clean /\ j.out = req[r].out
    BY <1>1, <1>2, ReqGoesOn DEF Pc
  <1>6. Set(u, d) /\ Wrote(r, j) /\ UNCHANGED <<link, dropped>>
    BY <1>2 DEF MarkVerified, To
  <1>7. req'[r] = j /\ Hidden(r)
    BY <1>5, <1>6, WroteReq DEF Carry
  <1>8. Follows(r, u, d) /\ Keeps(r, u, d)
    BY <1>3, <1>4, SameFollows, KeepsFields
  <1>9. Carries(j) /\ j.call.op = "verify"
    BY <1>1, <1>3, <1>5 DEF Carries, At, UserPcs, SocialPcs
  <1>10. Effect(r) /\ user'[u] = d /\ Links(r)
    BY <1>1, <1>3, <1>4, <1>5, <1>6, <1>8, <1>9, SetEffect DEF At
  <1>11. Spends(r)
    <2>1. Kind(r) = "verify" /\ Kept(d, "verify") = {}
      BY <1>4, <1>5, <1>9, KeptIs DEF Kind
    <2>2. QED BY <1>1, <1>2, <1>7, <1>10, <2>1 DEF Spends, Presents
  <1>12. SessionOK(r) /\ req[r].clean => user[u].state = "live"
    BY <1>1, <1>2 DEF SessionOK, Live
  <1>13. j.out = "none"
    BY <1>1, <1>5 DEF Carries, At
  <1>14. QED BY <1>4, <1>5, <1>7, <1>9, <1>10, <1>11, <1>12, <1>13, IssueRight

LEMMA ResendWriteStep ==
  ASSUME Carry, NEW r \in Requests, ResendWrite(r)
  PROVE  Effect(r) /\ Right(r)
  <1>1. req[r] \in Req /\ Carries(req[r]) /\ At(r, "resend")
    BY DEF Carry, AccountsTypeOK, CarryOK, ResendWrite
  <1>2. PICK u, d, j : /\ u = req[r].user
                       /\ d = [user[u] EXCEPT !.emailOtp = r]
                       /\ j = Done(req[r], "ok")
    OBVIOUS
  <1>3. u \in UserIds /\ Exists(u) /\ user[u] \in User
    BY <1>1, <1>2 DEF Carries, At, UserPcs, CarryOK, Carry, AccountsTypeOK
  <1>4. /\ d \in User /\ d.state = user[u].state /\ d.via = user[u].via
        /\ d.phone = user[u].phone /\ d.pending = user[u].pending /\ d.given = user[u].given
        /\ d.tokens = user[u].tokens /\ d.resetOtp = user[u].resetOtp
        /\ d.emailOtp = r /\ d.phoneOtp = user[u].phoneOtp
    BY <1>2, <1>3 DEF User, Made
  <1>5. /\ j \in Req /\ j.pc = "done" /\ j.call = req[r].call /\ j.out = "ok"
        /\ j.clean = req[r].clean
    BY <1>1, <1>2, ReqEnds
  <1>6. Set(u, d) /\ Wrote(r, j) /\ UNCHANGED <<link, dropped>>
    BY <1>2 DEF ResendWrite
  <1>7. req'[r] = j
    BY <1>5, <1>6, WroteReq DEF Carry
  <1>8. Follows(r, u, d) /\ Keeps(r, u, d)
    <2>1. New(r) = {r}
      BY <1>5, <1>7 DEF New, At
    <2>2. QED BY <1>3, <1>4, <2>1, SameFollows, KeepsFields
  <1>9. Carries(j) /\ j.call.op = "resend"
    BY <1>1, <1>5 DEF Carries, At, UserPcs, SocialPcs
  <1>10. Effect(r) /\ Links(r)
    BY <1>1, <1>3, <1>4, <1>5, <1>6, <1>8, <1>9, SetEffect DEF At, UserPcs
  <1>11. QED BY <1>5, <1>7, <1>9, <1>10, QuietRight DEF Uses

LEMMA IssueTokensStep ==
  ASSUME Carry, NEW r \in Requests, IssueTokens(r)
  PROVE  Effect(r) /\ Right(r)
  <1>1. req[r] \in Req /\ Carries(req[r]) /\ At(r, "issue")
    BY DEF Carry, AccountsTypeOK, CarryOK, IssueTokens
  <1>2. PICK u, d, j : /\ u = req[r].user
                       /\ d = [user[u] EXCEPT !.tokens = user[u].tokens \cup {r}]
                       /\ j = Done(req[r], "ok")
    OBVIOUS
  <1>3. u \in UserIds /\ Exists(u) /\ user[u] \in User
    BY <1>1, <1>2 DEF Carries, At, UserPcs, CarryOK, Carry, AccountsTypeOK
  <1>4. /\ d \in User /\ d.state = user[u].state /\ d.via = user[u].via
        /\ d.phone = user[u].phone /\ d.pending = user[u].pending /\ d.given = user[u].given
        /\ d.tokens = user[u].tokens \cup {r} /\ d.resetOtp = user[u].resetOtp
        /\ d.emailOtp = user[u].emailOtp /\ d.phoneOtp = user[u].phoneOtp
    BY <1>2, <1>3 DEF User, Made
  <1>5. /\ j \in Req /\ j.pc = "done" /\ j.call = req[r].call /\ j.out = "ok"
        /\ j.clean = req[r].clean
    BY <1>1, <1>2, ReqEnds
  <1>6. Set(u, d) /\ Wrote(r, j) /\ UNCHANGED <<link, dropped>>
    BY <1>2 DEF IssueTokens, Token
  <1>7. req'[r] = j
    BY <1>5, <1>6, WroteReq DEF Carry
  <1>8. Follows(r, u, d) /\ Keeps(r, u, d)
    <2>1. New(r) = {r}
      BY <1>5, <1>7 DEF New, At
    <2>2. QED BY <1>3, <1>4, <2>1, SameFollows, KeepsFields
  <1>9. Carries(j) /\ j.call.op \in {"verify", "login", "refresh", "social"}
    BY <1>1, <1>5 DEF Carries, At, UserPcs, SocialPcs
  <1>10. Effect(r) /\ Links(r)
    BY <1>1, <1>3, <1>4, <1>5, <1>6, <1>8, <1>9, SetEffect DEF At, UserPcs
  <1>11. Uses(r)' => Spent(r)
    BY <1>1, <1>5, <1>7, <1>9 DEF Uses, Spent
  <1>12. QED BY <1>5, <1>7, <1>10, <1>11, QuietRight

LEMMA RemoveRefreshTokenStep ==
  ASSUME Carry, NEW r \in Requests, RemoveRefreshToken(r)
  PROVE  Effect(r) /\ Right(r)
  <1>1. req[r] \in Req /\ Carries(req[r]) /\ At(r, "remove")
    BY DEF Carry, AccountsTypeOK, CarryOK, RemoveRefreshToken
  <1>2. PICK u, secret, d, j :
          /\ u = req[r].user /\ secret = req[r].call.secret
          /\ d = [user[u] EXCEPT !.tokens = user[u].tokens \ {secret}]
          /\ j = IF req[r].call.op = "refresh" THEN To(req[r], "issue") ELSE Done(req[r], "ok")
    OBVIOUS
  <1>3. u \in UserIds /\ Exists(u) /\ user[u] \in User
    BY <1>1, <1>2 DEF Carries, At, UserPcs, CarryOK, Carry, AccountsTypeOK
  <1>4. /\ d \in User /\ d.state = user[u].state /\ d.via = user[u].via
        /\ d.phone = user[u].phone /\ d.pending = user[u].pending /\ d.given = user[u].given
        /\ d.tokens = user[u].tokens \ {secret} /\ d.resetOtp = user[u].resetOtp
        /\ d.emailOtp = user[u].emailOtp /\ d.phoneOtp = user[u].phoneOtp
        /\ d.active = user[u].active
    BY <1>2, <1>3 DEF User
  <1>5. /\ j \in Req /\ j.call = req[r].call /\ j.clean = req[r].clean /\ j.user = u
        /\ \/ j.pc = "issue" /\ j.call.op = "refresh" /\ j.out = req[r].out
           \/ j.pc = "done" /\ j.call.op = "logout" /\ j.out = "ok"
    <2>1. CASE req[r].call.op = "refresh"
      BY <1>1, <1>2, <2>1, ReqGoesOn DEF Pc
    <2>2. CASE req[r].call.op = "logout"
      BY <1>1, <1>2, <2>2, ReqEnds
    <2>3. QED BY <1>1, <2>1, <2>2 DEF Carries, At
  <1>6. Set(u, d) /\ Wrote(r, j) /\ UNCHANGED <<link, dropped>>
    BY <1>2 DEF RemoveRefreshToken, To
  <1>7. req'[r] = j /\ Hidden(r)
    BY <1>5, <1>6, WroteReq DEF Carry
  <1>8. Follows(r, u, d) /\ Keeps(r, u, d)
    BY <1>3, <1>4, SameFollows, KeepsFields
  <1>9. Carries(j) /\ req[r].out = "none"
    BY <1>1, <1>3, <1>5 DEF Carries, At, UserPcs, SocialPcs
  <1>10. Effect(r) /\ user'[u] = d /\ Links(r)
    BY <1>1, <1>3, <1>4, <1>5, <1>6, <1>8, <1>9, SetEffect DEF At, UserPcs
  <1>11. Spends(r)
    <2>1. Kind(r) = "refresh" /\ secret \notin Kept(d, "refresh")
      BY <1>4, <1>5, KeptIs DEF Kind
    <2>2. QED BY <1>1, <1>2, <1>7, <1>10, <2>1 DEF Spends, Presents, Secret
  <1>12. CASE j.pc = "issue"
    <2>1. SessionOK(r) /\ req[r].clean => user[u].state = "live" /\ user[u].active
      BY <1>1, <1>2, <1>5, <1>12 DEF SessionOK, Live, At
    <2>2. QED BY <1>4, <1>5, <1>7, <1>9, <1>10, <1>11, <1>12, <2>1, IssueRight
  <1>13. CASE j.pc = "done"
    BY <1>5, <1>7, <1>10, <1>11, <1>13, QuietRight
  <1>14. QED BY <1>5, <1>12, <1>13

LEMMA SetPasswordStep ==
  ASSUME Carry, NEW r \in Requests, SetPassword(r)
  PROVE  Effect(r) /\ Right(r)
  <1>1. req[r] \in Req /\ Carries(req[r]) /\ At(r, "password")
    BY DEF Carry, AccountsTypeOK, CarryOK, SetPassword
  <1>2. PICK u, d, j : /\ u = req[r].user
                       /\ d = [user[u] EXCEPT !.password = r, !.resetOtp = None]
                       /\ j = Done(req[r], "ok")
    OBVIOUS
  <1>3. u \in UserIds /\ Exists(u) /\ user[u] \in User
    BY <1>1, <1>2 DEF Carries, At, UserPcs, CarryOK, Carry, AccountsTypeOK
  <1>4. /\ d \in User /\ d.state = user[u].state /\ d.via = user[u].via
        /\ d.phone = user[u].phone /\ d.pending = user[u].pending /\ d.given = user[u].given
        /\ d.tokens = user[u].tokens /\ d.resetOtp = None
        /\ d.emailOtp = user[u].emailOtp /\ d.phoneOtp = user[u].phoneOtp
    <2>1. d \in User
      <3>1. PICK x \in User : x = user[u]
        BY <1>3
      <3>2. r \in Made \cup {None}
        BY DEF Made
      <3>3. [x EXCEPT !.password = r, !.resetOtp = None] \in User
        BY <3>2, Zenon DEF User
      <3>4. QED BY <1>2, <3>1, <3>3
    <2>2. /\ d.state = user[u].state /\ d.via = user[u].via
          /\ d.phone = user[u].phone /\ d.pending = user[u].pending /\ d.given = user[u].given
          /\ d.tokens = user[u].tokens /\ d.resetOtp = None
          /\ d.emailOtp = user[u].emailOtp /\ d.phoneOtp = user[u].phoneOtp
      BY <1>2, <1>3 DEF User
    <2>3. QED BY <2>1, <2>2
  <1>5. /\ j \in Req /\ j.pc = "done" /\ j.call = req[r].call /\ j.out = "ok"
        /\ j.clean = req[r].clean
    BY <1>1, <1>2, ReqEnds
  <1>6. Set(u, d) /\ Wrote(r, j) /\ UNCHANGED <<link, dropped>>
    BY <1>2 DEF SetPassword
  <1>7. req'[r] = j /\ Hidden(r)
    BY <1>5, <1>6, WroteReq DEF Carry
  <1>8. Follows(r, u, d) /\ Keeps(r, u, d)
    BY <1>3, <1>4, SameFollows, KeepsFields
  <1>9. Carries(j) /\ j.call.op \in {"reset", "change"}
    BY <1>1, <1>5 DEF Carries, At, UserPcs, SocialPcs
  <1>10. Effect(r) /\ user'[u] = d /\ Links(r)
    BY <1>1, <1>3, <1>4, <1>5, <1>6, <1>8, <1>9, SetEffect DEF At, UserPcs
  <1>11. Uses(r)' => Spends(r)
    <2>1. SUFFICES ASSUME Uses(r)' PROVE Spends(r)
      OBVIOUS
    <2>2. req[r].call.op = "reset"
      BY <1>5, <1>7, <1>9, <2>1 DEF Uses
    <2>3. Kind(r) = "reset" /\ Kept(d, "reset") = {}
      BY <1>4, <2>2, KeptIs DEF Kind
    <2>4. QED BY <1>1, <1>2, <1>7, <1>10, <2>2, <2>3 DEF Spends, Presents
  <1>12. QED BY <1>5, <1>7, <1>10, <1>11, QuietRight

LEMMA PhoneOtpWriteStep ==
  ASSUME Carry, NEW r \in Requests, PhoneOtpWrite(r)
  PROVE  Effect(r) /\ Right(r)
  <1>1. req[r] \in Req /\ Carries(req[r]) /\ At(r, "phoneOtp")
    BY DEF Carry, AccountsTypeOK, CarryOK, PhoneOtpWrite
  <1>2. PICK u, p, d, j : /\ u = req[r].user /\ p = req[r].call.phone
                          /\ d = [user[u] EXCEPT !.pending = p, !.phoneOtp = r]
                          /\ j = Done(req[r], "ok")
    OBVIOUS
  <1>3. u \in UserIds /\ Exists(u) /\ user[u] \in User /\ p \in Phones \cup {None}
    <2>1. u \in UserIds /\ Exists(u) /\ user[u] \in User
      BY <1>1, <1>2 DEF Carries, At, UserPcs, CarryOK, Carry, AccountsTypeOK
    <2>2. p \in Phones \cup {None}
      BY <1>1, <1>2 DEF Req, Call
    <2>3. QED BY <2>1, <2>2
  <1>4. /\ d \in User /\ d.state = user[u].state /\ d.via = user[u].via
        /\ d.phone = user[u].phone /\ d.pending = p /\ d.given = user[u].given
        /\ d.tokens = user[u].tokens /\ d.resetOtp = user[u].resetOtp
        /\ d.emailOtp = user[u].emailOtp /\ d.phoneOtp = r
    <2>1. r \in Made \cup {None}
      BY DEF Made
    <2>2. PICK x : x = [user[u] EXCEPT !.pending = p]
      OBVIOUS
    <2>3. /\ x \in User /\ x.state = user[u].state /\ x.via = user[u].via
          /\ x.phone = user[u].phone /\ x.pending = p /\ x.given = user[u].given
          /\ x.tokens = user[u].tokens /\ x.resetOtp = user[u].resetOtp
          /\ x.emailOtp = user[u].emailOtp
      BY <1>3, <2>2 DEF User
    <2>4. d = [x EXCEPT !.phoneOtp = r]
      BY <1>2, <1>3, <2>2 DEF User
    <2>5. QED BY <2>1, <2>3, <2>4 DEF User
  <1>5. /\ j \in Req /\ j.pc = "done" /\ j.call = req[r].call /\ j.out = "ok"
        /\ j.clean = req[r].clean
    BY <1>1, <1>2, ReqEnds
  <1>6. Set(u, d) /\ Wrote(r, j) /\ UNCHANGED <<link, dropped>>
    BY <1>2 DEF PhoneOtpWrite
  <1>7. req'[r] = j
    BY <1>5, <1>6, WroteReq DEF Carry
  <1>8. Follows(r, u, d)
    BY <1>1, <1>2, <1>3, <1>4, <1>5, <1>7 DEF Follows, Exists
  <1>9. Keeps(r, u, d)
    <2>1. New(r) = {r}
      BY <1>5, <1>7 DEF New, At
    <2>2. QED BY <1>4, <2>1, KeepsFields
  <1>10. Carries(j) /\ j.call.op = "phoneOtp"
    BY <1>1, <1>5 DEF Carries, At, UserPcs, SocialPcs
  <1>11. Effect(r) /\ Links(r)
    BY <1>1, <1>3, <1>4, <1>5, <1>6, <1>8, <1>9, <1>10, SetEffect DEF At, UserPcs
  <1>12. QED BY <1>5, <1>7, <1>10, <1>11, QuietRight DEF Uses

LEMMA ProfileWriteStep ==
  ASSUME Carry, NEW r \in Requests, ProfileWrite(r)
  PROVE  Effect(r) /\ Right(r)
  <1>1. req[r] \in Req /\ Carries(req[r]) /\ At(r, "profile")
    BY DEF Carry, AccountsTypeOK, CarryOK, ProfileWrite
  <1>2. PICK u, p, set, d, j :
          /\ u = req[r].user /\ p = req[r].call.phone
          /\ set = [user[u] EXCEPT !.phone = p]
          /\ d = IF req[r].again THEN [set EXCEPT !.pending = None, !.phoneOtp = None] ELSE set
          /\ j = Done(req[r], "ok")
    OBVIOUS
  <1>3. u \in UserIds /\ Exists(u) /\ user[u] \in User /\ p \in Phones \cup {None}
    <2>1. u \in UserIds /\ Exists(u) /\ user[u] \in User
      BY <1>1, <1>2 DEF Carries, At, UserPcs, CarryOK, Carry, AccountsTypeOK
    <2>2. p \in Phones \cup {None}
      BY <1>1, <1>2 DEF Req, Call
    <2>3. QED BY <2>1, <2>2
  <1>4. /\ set \in User /\ set.state = user[u].state /\ set.via = user[u].via
        /\ set.phone = p /\ set.pending = user[u].pending /\ set.given = user[u].given
        /\ set.tokens = user[u].tokens /\ set.resetOtp = user[u].resetOtp
        /\ set.emailOtp = user[u].emailOtp /\ set.phoneOtp = user[u].phoneOtp
    BY <1>2, <1>3 DEF User
  <1>5. /\ d \in User /\ d.state = user[u].state /\ d.via = user[u].via
        /\ d.phone = p /\ d.pending \in {None, user[u].pending} /\ d.given = user[u].given
        /\ d.tokens = user[u].tokens /\ d.resetOtp = user[u].resetOtp
        /\ d.emailOtp = user[u].emailOtp /\ d.phoneOtp \in {None, user[u].phoneOtp}
        /\ req[r].again => d.phoneOtp = None
    <2>1. CASE req[r].again
      <3>1. d = [set EXCEPT !.pending = None, !.phoneOtp = None]
        BY <1>2, <2>1
      <3>2. /\ d \in User /\ d.state = set.state /\ d.via = set.via /\ d.phone = set.phone
            /\ d.pending = None /\ d.given = set.given /\ d.tokens = set.tokens /\ d.resetOtp = set.resetOtp
            /\ d.emailOtp = set.emailOtp /\ d.phoneOtp = None
        BY <1>4, <3>1 DEF User
      <3>3. QED BY <1>4, <3>2
    <2>2. CASE ~req[r].again
      BY <1>2, <1>4, <2>2
    <2>3. QED BY <2>1, <2>2
  <1>6. /\ j \in Req /\ j.pc = "done" /\ j.call = req[r].call /\ j.out = "ok"
        /\ j.clean = req[r].clean /\ j.again = req[r].again
    BY <1>1, <1>2, ReqEnds
  <1>7. Set(u, d) /\ Wrote(r, j) /\ UNCHANGED <<link, dropped>>
    BY <1>2 DEF ProfileWrite
  <1>8. req'[r] = j /\ Hidden(r)
    BY <1>6, <1>7, WroteReq DEF Carry
  <1>9. Follows(r, u, d) /\ Keeps(r, u, d)
    <2>1. Keeps(r, u, d)
      BY <1>5, KeepsFields
    <2>2. QED BY <1>1, <1>2, <1>3, <1>5, <2>1 DEF Follows, Exists
  <1>10. Carries(j) /\ j.call.op = "profile"
    BY <1>1, <1>6 DEF Carries, At, UserPcs, SocialPcs
  <1>11. Effect(r) /\ user'[u] = d /\ Links(r)
    BY <1>1, <1>3, <1>5, <1>6, <1>7, <1>9, <1>10, SetEffect DEF At, UserPcs
  <1>12. Uses(r)' => Spends(r)
    <2>1. SUFFICES ASSUME Uses(r)' PROVE Spends(r)
      OBVIOUS
    <2>2. req[r].again
      BY <1>6, <1>8, <1>10, <2>1 DEF Uses
    <2>3. Kind(r) = "profile" /\ Kept(d, "profile") = {}
      BY <1>5, <1>6, <1>10, <2>2, KeptIs DEF Kind
    <2>4. QED BY <1>1, <1>2, <1>8, <1>11, <2>2, <2>3 DEF Spends, Presents
  <1>13. QED BY <1>6, <1>8, <1>11, <1>12, QuietRight

(* A call that is done at once ends as it began. *)
Answered(c) == Done([Fresh EXCEPT !.call = c], "ok")

LEMMA ReqEndsAtOnce ==
  ASSUME NEW c \in Calls
  PROVE  LET j == Answered(c) IN
         j \in Req /\ j.pc = "done" /\ j.call = c /\ j.out = "ok" /\ j.clean
  <1>1. Fresh \in Req /\ c \in Call /\ Fresh.clean
    BY FreshReq
  <1>2. PICK x : x = [Fresh EXCEPT !.call = c]
    OBVIOUS
  <1>3. x \in Req /\ x.call = c /\ x.clean
    BY <1>1, <1>2 DEF Req
  <1>4. Answered(c) = Done(x, "ok")
    BY <1>2 DEF Answered
  <1>5. QED BY <1>3, <1>4, ReqEnds

LEMMA ForgotPasswordStep ==
  ASSUME Carry, NEW r \in Requests, NEW c \in Calls, At(r, "new"), ForgotPassword(r, c)
  PROVE  Effect(r) /\ Right(r)
  <1>1. PICK u \in UserIds : /\ Live(u) /\ Set(u, [user[u] EXCEPT !.resetOtp = r])
    BY DEF ForgotPassword, LiveAt
  <1>2. PICK d, j : d = [user[u] EXCEPT !.resetOtp = r] /\ j = Answered(c)
    OBVIOUS
  <1>3. Exists(u) /\ user[u] \in User
    BY <1>1 DEF Live, Exists, Carry, AccountsTypeOK
  <1>4. /\ d \in User /\ d.state = user[u].state /\ d.via = user[u].via
        /\ d.phone = user[u].phone /\ d.pending = user[u].pending /\ d.given = user[u].given
        /\ d.tokens = user[u].tokens /\ d.resetOtp = r
        /\ d.emailOtp = user[u].emailOtp /\ d.phoneOtp = user[u].phoneOtp
    BY <1>2, <1>3 DEF User, Made
  <1>5. /\ j \in Req /\ j.pc = "done" /\ j.call = c /\ j.out = "ok" /\ c.op = "forgot"
    BY <1>2, ReqEndsAtOnce DEF ForgotPassword
  <1>6. Set(u, d) /\ Wrote(r, j) /\ UNCHANGED <<link, dropped>>
    BY <1>1, <1>2 DEF ForgotPassword, Answered
  <1>7. req'[r] = j
    BY <1>5, <1>6, WroteReq DEF Carry
  <1>8. Follows(r, u, d) /\ Keeps(r, u, d)
    <2>1. New(r) = {r}
      BY <1>5, <1>7 DEF New, At
    <2>2. QED BY <1>3, <1>4, <2>1, SameFollows, KeepsFields
  <1>9. Carries(j)
    BY <1>5 DEF Carries, UserPcs, SocialPcs
  <1>10. Effect(r) /\ Links(r)
    BY <1>4, <1>5, <1>6, <1>8, <1>9, SetEffect DEF At, UserPcs
  <1>11. QED BY <1>5, <1>7, <1>10, QuietRight DEF Uses

LEMMA DeleteAccountStep ==
  ASSUME Carry, NEW r \in Requests, NEW c \in Calls, At(r, "new"), DeleteAccount(r, c)
  PROVE  Effect(r) /\ Right(r)
  <1>1. PICK u \in UserIds : /\ Live(u) /\ Set(u, Closed(user[u]))
                            /\ Wrote(r, Begun(c, "unlink", u))
    BY DEF DeleteAccount, Begun
  <1>2. PICK d, j : d = Closed(user[u]) /\ j = Begun(c, "unlink", u)
    OBVIOUS
  <1>3. Exists(u) /\ user[u] \in User
    BY <1>1 DEF Live, Exists, Carry, AccountsTypeOK
  <1>4. /\ d \in User /\ d.state = "deleted" /\ d.via = user[u].via
        /\ d.given = user[u].given /\ d.phone = None /\ d.pending = None
        /\ \A k \in SecretKinds : Kept(d, k) = {}
    BY <1>2, <1>3, ClosedIs
  <1>5. /\ j \in Req /\ j.pc = "unlink" /\ j.call = c /\ j.user = u /\ j.out = "none"
        /\ c.op = "delete"
    BY <1>2, ReqBegins DEF Pc, DeleteAccount
  <1>6. Set(u, d) /\ Wrote(r, j) /\ UNCHANGED <<link, dropped>>
    BY <1>1, <1>2 DEF DeleteAccount
  <1>7. req'[r] = j
    BY <1>5, <1>6, WroteReq DEF Carry
  <1>8. Follows(r, u, d) /\ Keeps(r, u, d)
    BY <1>3, <1>4 DEF Follows, Keeps, Exists
  <1>9. Carries(j)
    BY <1>5 DEF Carries, UserPcs, SocialPcs
  <1>10. Effect(r) /\ Links(r)
    BY <1>4, <1>5, <1>6, <1>8, <1>9, SetEffect DEF At
  <1>11. QED BY <1>5, <1>7, <1>10, QuietRight DEF Uses

LEMMA ModerateStep ==
  ASSUME Carry, NEW r \in Requests, NEW c \in Calls, At(r, "new"), Moderate(r, c)
  PROVE  Effect(r) /\ Right(r)
  <1>1. PICK u \in UserIds : user[u].state # "none" /\ Set(u, Moderated(u, c))
    BY DEF Moderate
  <1>2. PICK d, j : d = Moderated(u, c) /\ j = Answered(c)
    OBVIOUS
  <1>3. Exists(u) /\ user[u] \in User /\ c \in Call
    BY <1>1, FreshReq DEF Exists, Carry, AccountsTypeOK
  <1>4. /\ d \in User /\ d.state \in {user[u].state, "deleted"} /\ d.via = user[u].via
        /\ d.phone = user[u].phone /\ d.pending = user[u].pending /\ d.given = user[u].given
        /\ d.tokens \subseteq user[u].tokens /\ d.resetOtp = user[u].resetOtp
        /\ d.emailOtp = user[u].emailOtp /\ d.phoneOtp = user[u].phoneOtp
    <2>1. CASE c.op = "activate"
      <3>1. d = [user[u] EXCEPT !.active = TRUE]
        BY <1>2, <2>1 DEF Moderated
      <3>2. QED BY <1>3, <3>1 DEF User
    <2>2. CASE c.op = "deactivate"
      <3>1. d = [user[u] EXCEPT !.active = FALSE, !.tokens = {}]
        BY <1>2, <2>2 DEF Moderated
      <3>2. QED BY <1>3, <3>1 DEF User
    <2>3. CASE c.op = "adminDelete"
      <3>1. d = [user[u] EXCEPT !.state = "deleted", !.active = FALSE, !.tokens = {}]
        BY <1>2, <2>3 DEF Moderated
      <3>2. QED BY <1>3, <3>1 DEF User
    <2>4. CASE c.op = "adminUpdate"
      <3>1. PICK e, n : e = OrElse(c.email, user[u].email) /\ n = OrElse(c.name, user[u].name)
        OBVIOUS
      <3>2. e \in Emails \cup {None} /\ n \in Names \cup {None}
        BY <1>3, <3>1 DEF Call, User, OrElse
      <3>3. d = [user[u] EXCEPT !.email = e, !.name = n]
        BY <1>2, <2>4, <3>1 DEF Moderated
      <3>4. QED BY <1>3, <3>2, <3>3 DEF User
    <2>5. CASE c.op = "adminOff"
      <3>1. d = [user[u] EXCEPT !.active = FALSE]
        BY <1>2, <2>5 DEF Moderated
      <3>2. QED BY <1>3, <3>1 DEF User
    <2>6. QED BY <2>1, <2>2, <2>3, <2>4, <2>5 DEF Moderate
  <1>5. /\ j \in Req /\ j.pc = "done" /\ j.call = c /\ j.out = "ok"
        /\ c.op \in {"activate", "deactivate", "adminDelete", "adminUpdate", "adminOff"}
    BY <1>2, ReqEndsAtOnce DEF Moderate
  <1>6. Set(u, d) /\ Wrote(r, j) /\ UNCHANGED <<link, dropped>>
    BY <1>1, <1>2 DEF Moderate, Answered
  <1>7. req'[r] = j
    BY <1>5, <1>6, WroteReq DEF Carry
  <1>8. Follows(r, u, d)
    BY <1>3, <1>4 DEF Follows, Exists
  <1>9. Keeps(r, u, d)
    BY <1>4, KeepsFields
  <1>10. Carries(j)
    BY <1>5 DEF Carries, UserPcs, SocialPcs
  <1>11. Effect(r) /\ Links(r)
    BY <1>4, <1>5, <1>6, <1>8, <1>9, <1>10, SetEffect DEF At, UserPcs
  <1>12. QED BY <1>5, <1>7, <1>11, QuietRight DEF Uses

LEMMA NoUserIs ==
  /\ NoUser \in User /\ NoUser.phone = None /\ NoUser.pending = None /\ NoUser.via = None
  /\ NoUser.given = None
  /\ NoUser.tokens = {} /\ NoUser.resetOtp = None /\ NoUser.emailOtp = None
  /\ NoUser.phoneOtp = None
  BY DEF NoUser, User

LEMMA RegisterInsertStep ==
  ASSUME Carry, NEW r \in Requests, RegisterInsert(r)
  PROVE  Effect(r) /\ Right(r)
  <1>1. req[r] \in Req /\ Carries(req[r]) /\ At(r, "register:insert")
    BY DEF Carry, AccountsTypeOK, CarryOK, RegisterInsert
  <1>2. PICK e, n, d, j :
          /\ e = req[r].call.email /\ n = req[r].call.name
          /\ d = [NoUser EXCEPT !.state = "live", !.email = e, !.name = n, !.active = TRUE,
                                !.password = r, !.emailOtp = r,
                                !.phone = req[r].call.phone, !.given = req[r].call.phone]
          /\ j = Done(req[r], "ok")
    OBVIOUS
  <1>3. CASE EmailFree(e) /\ NameFree(n)
    <2>1. Set(r, d) /\ Wrote(r, j) /\ UNCHANGED <<link, dropped>>
      BY <1>2, <1>3 DEF RegisterInsert
    <2>2. e \in Emails \cup {None} /\ n \in Names \cup {None} /\ r \in Made /\ r \in UserIds
      BY <1>1, <1>2 DEF Req, Call, Made, UserIds
    <2>3. /\ d \in User /\ d.state = "live" /\ d.phone = d.given /\ d.pending = None
          /\ d.via = None /\ d.tokens = {} /\ d.resetOtp = None /\ d.emailOtp = r
          /\ d.phoneOtp = None
      <3>1. PICK x : x = [NoUser EXCEPT !.state = "live", !.email = e, !.name = n]
        OBVIOUS
      <3>2. /\ x \in User /\ x.state = "live" /\ x.pending = None
            /\ x.via = None /\ x.tokens = {} /\ x.resetOtp = None /\ x.phoneOtp = None
        BY <2>2, <3>1, NoUserIs DEF User
      <3>3. PICK p : p = req[r].call.phone
        OBVIOUS
      <3>4. p \in Phones \cup {None}
        BY <1>1, <3>3 DEF Req, Call
      <3>5. PICK y, z : /\ y = [x EXCEPT !.active = TRUE, !.password = r, !.emailOtp = r]
                        /\ z = [y EXCEPT !.phone = p]
        OBVIOUS
      <3>6. /\ y \in User /\ y.state = "live" /\ y.pending = None /\ y.via = None
            /\ y.tokens = {} /\ y.resetOtp = None /\ y.emailOtp = r /\ y.phoneOtp = None
        BY <2>2, <3>2, <3>5 DEF User
      <3>7. /\ z \in User /\ z.state = "live" /\ z.pending = None /\ z.via = None /\ z.phone = p
            /\ z.tokens = {} /\ z.resetOtp = None /\ z.emailOtp = r /\ z.phoneOtp = None
        BY <3>4, <3>5, <3>6 DEF User
      <3>8. d = [z EXCEPT !.given = p]
        BY <1>2, <3>1, <3>3, <3>5, Zenon
      <3>9. QED BY <3>4, <3>7, <3>8 DEF User
    <2>4. /\ j \in Req /\ j.pc = "done" /\ j.call = req[r].call /\ j.out = "ok"
          /\ j.clean = req[r].clean
      BY <1>1, <1>2, ReqEnds
    <2>5. req'[r] = j /\ New(r) = {r}
      BY <2>1, <2>4, WroteReq DEF Carry, New, At
    <2>6. Born(r, d) /\ Keeps(r, r, d)
      <3>1. Keeps(r, r, d)
        BY <2>3, <2>5, KeepsFields
      <3>2. QED BY <1>1, <2>3, <2>4, <2>5, <3>1 DEF Born, At
    <2>7. Documents(r)
      BY <2>1, <2>2, <2>3, <2>6, SetDocuments DEF Carry
    <2>8. Carries(j) /\ j.call.op = "register"
      BY <1>1, <2>4 DEF Carries, At, UserPcs, SocialPcs
    <2>9. link' \in [Uids -> UserIds \cup {None}] /\ dropped' \subseteq Uids
      BY <2>1 DEF Carry, AccountsTypeOK
    <2>10. Effect(r)
      BY <1>1, <2>1, <2>4, <2>7, <2>8, <2>9, WroteEffect DEF At, UserPcs
    <2>11. QED BY <2>1, <2>4, <2>5, <2>8, <2>10, NothingLinked, QuietRight DEF Uses
  <1>4. CASE ~(EmailFree(e) /\ NameFree(n))
    <2>1. RegisterConflict(r)
      BY <1>2, <1>4 DEF RegisterInsert, RegisterConflict
    <2>2. QED BY <2>1, ReadEffect
  <1>5. QED BY <1>3, <1>4

LEMMA SocialCreateStep ==
  ASSUME Carry, NEW r \in Requests, SocialCreate(r)
  PROVE  Effect(r) /\ Right(r)
  <1>1. req[r] \in Req /\ Carries(req[r]) /\ At(r, "social:create")
    BY DEF Carry, AccountsTypeOK, CarryOK, SocialCreate
  <1>2. PICK g, e, n, d, j :
          /\ g = req[r].call.uid /\ e = EmailOf[g] /\ n = req[r].name
          /\ d = [NoUser EXCEPT !.state = "live", !.email = e, !.name = n, !.active = TRUE,
                                !.verified = TRUE, !.via = g]
          /\ j = [req[r] EXCEPT !.pc = "issue", !.user = r]
    OBVIOUS
  <1>3. g \in Uids /\ n \in Names /\ req[r].call.op = "social" /\ req[r].out = "none"
    BY <1>1, <1>2 DEF Carries, SocialPcs, At
  <1>4. e \in Emails /\ r \in UserIds
    BY <1>2, <1>3, AccountsAssumption DEF UserIds
  <1>5. Set(r, d) /\ Wrote(r, j) /\ link' = [link EXCEPT ![g] = r] /\ UNCHANGED dropped
        /\ link[g] = None
    BY <1>2 DEF SocialCreate, Linked
  <1>6. /\ d \in User /\ d.state = "live" /\ d.phone = None /\ d.pending = None /\ d.via = g
        /\ d.tokens = {} /\ d.resetOtp = None /\ d.emailOtp = None /\ d.phoneOtp = None
        /\ d.active
    <2>1. /\ d.state = "live" /\ d.phone = None /\ d.pending = None /\ d.via = g
          /\ d.tokens = {} /\ d.resetOtp = None /\ d.emailOtp = None /\ d.phoneOtp = None
          /\ d.active
      BY <1>2, NoUserIs DEF User
    <2>2. e \in Emails \cup {None} /\ n \in Names \cup {None} /\ g \in Uids \cup {None}
      BY <1>3, <1>4
    <2>3. PICK x : x = [NoUser EXCEPT !.state = "live", !.email = e, !.name = n]
      OBVIOUS
    <2>4. x \in User
      BY <2>2, <2>3, NoUserIs DEF User
    <2>5. [x EXCEPT !.active = TRUE, !.verified = TRUE, !.via = g] \in User
      <3>1. PICK y : y = [x EXCEPT !.active = TRUE]
        OBVIOUS
      <3>2. y \in User
        BY <2>4, <3>1 DEF User
      <3>3. PICK z : z = [y EXCEPT !.verified = TRUE]
        OBVIOUS
      <3>4. z \in User
        BY <3>2, <3>3 DEF User
      <3>5. [z EXCEPT !.via = g] \in User
        BY <2>2, <3>4 DEF User
      <3>6. [x EXCEPT !.active = TRUE, !.verified = TRUE, !.via = g] = [z EXCEPT !.via = g]
        BY <2>4, <3>1, <3>3 DEF User
      <3>7. QED BY <3>5, <3>6
    <2>6. d = [x EXCEPT !.active = TRUE, !.verified = TRUE, !.via = g]
      BY <1>2, <2>3 DEF NoUser
    <2>7. QED BY <2>1, <2>5, <2>6
  <1>7. /\ j \in Req /\ j.pc = "issue" /\ j.call = req[r].call /\ j.out = "none"
        /\ j.clean = req[r].clean /\ j.user = r
    BY <1>1, <1>2, <1>3, <1>4 DEF Req, Pc
  <1>8. req'[r] = j
    BY <1>5, <1>7, WroteReq DEF Carry
  <1>9. link' \in [Uids -> UserIds \cup {None}] /\ dropped' \subseteq Uids /\ link'[g] = r
        /\ \A h \in Uids : h # g => link'[h] = link[h]
    BY <1>3, <1>4, <1>5 DEF Carry, AccountsTypeOK
  <1>10. Born(r, d) /\ Keeps(r, r, d)
    <2>1. Keeps(r, r, d)
      BY <1>6, KeepsFields
    <2>2. QED BY <1>1, <1>6, <1>7, <1>8, <1>9, <2>1 DEF Born, At
  <1>11. Documents(r) /\ user'[r] = d
    <2>1. user'[r] = d
      BY <1>4, <1>5 DEF Set, Carry, AccountsTypeOK
    <2>2. QED BY <1>4, <1>5, <1>6, <1>10, <2>1, SetDocuments DEF Carry
  <1>12. Carries(j)
    BY <1>3, <1>4, <1>7 DEF Carries, UserPcs, SocialPcs
  <1>13. Effect(r)
    BY <1>1, <1>5, <1>6, <1>7, <1>9, <1>11, <1>12, WroteEffect DEF At
  <1>14. Links(r)
    BY <1>5, <1>9 DEF Links
  <1>15. QED BY <1>3, <1>6, <1>7, <1>8, <1>11, <1>13, <1>14, IssueRight

LEMMA RegisterStep ==
  ASSUME Carry, NEW r \in Requests, NEW c \in Calls, At(r, "new"), Register(r, c)
  PROVE  Effect(r) /\ Right(r)
  <1>1. PICK e, n, j : /\ e = c.email /\ n = c.name
                       /\ j = [Fresh EXCEPT !.pc = "register:check", !.call = c]
    OBVIOUS
  <1>2. Release(e, n) /\ Wrote(r, j) /\ UNCHANGED <<link, dropped>> /\ c.op = "register"
    BY <1>1 DEF Register
  <1>3. e # None /\ n # None
    BY <1>1, <1>2, AccountsAssumption
  <1>4. /\ j \in Req /\ j.pc = "register:check" /\ j.call = c /\ j.out = "none"
    BY <1>1, FreshReq DEF Req, Pc
  <1>5. req'[r] = j
    BY <1>2, <1>4, WroteReq DEF Carry
  <1>6. /\ Documents(r)
        /\ \A u \in UserIds : user'[u] = IF u \in Released(e, n) THEN Closed(user[u]) ELSE user[u]
    BY <1>2, ReleaseDocuments DEF Carry
  <1>7. Carries(j)
    BY <1>1, <1>2, <1>3, <1>4 DEF Carries, UserPcs, SocialPcs
  <1>8. link' \in [Uids -> UserIds \cup {None}] /\ dropped' \subseteq Uids
    BY <1>2 DEF Carry, AccountsTypeOK
  <1>9. Effect(r)
    BY <1>2, <1>4, <1>6, <1>7, <1>8, WroteEffect DEF At, UserPcs
  <1>10. Released(e, n)' = {}
    <2>1. SUFFICES ASSUME NEW u \in UserIds, u \in Released(e, n)'
                   PROVE  FALSE
      BY DEF Released
    <2>2. user[u] \in User
      BY DEF Carry, AccountsTypeOK
    <2>3. CASE u \in Released(e, n)
      <3>1. user'[u].email = None /\ user'[u].name = None
        BY <1>6, <2>2, <2>3, ClosedIs
      <3>2. QED BY <2>1, <3>1 DEF Released
    <2>4. CASE u \notin Released(e, n)
      <3>1. user'[u] = user[u]
        BY <1>6, <2>4
      <3>2. QED BY <2>1, <2>4, <3>1 DEF Released
    <2>5. QED BY <2>3, <2>4
  <1>11. SignUpOK(r)'
    BY <1>1, <1>4, <1>5, <1>10 DEF SignUpOK, At, AsksAgain
  <1>12. Links(r) /\ Justified(r)
    BY <1>2, <1>4, <1>5, NothingLinked, NotRefused
  <1>13. QED BY <1>4, <1>5, <1>9, <1>11, <1>12, SignUpRight

LEMMA SocialNameStep ==
  ASSUME Carry, NEW r \in Requests, SocialName(r)
  PROVE  Effect(r) /\ Right(r)
  <1>1. req[r] \in Req /\ Carries(req[r]) /\ At(r, "social:name")
    BY DEF Carry, AccountsTypeOK, CarryOK, SocialName
  <1>2. PICK e : e = EmailOf[req[r].call.uid]
    OBVIOUS
  <1>3. /\ req[r].call.uid \in Uids /\ req[r].call.op = "social" /\ req[r].out = "none"
        /\ req[r].tries < MaxTries
    BY <1>1 DEF Carries, SocialPcs, At
  <1>4. e \in Emails /\ Base[e] \in Names
    BY <1>2, <1>3, AccountsAssumption
  <1>5. PICK n \in Names :
          /\ Wrote(r, [req[r] EXCEPT !.pc = "social:create", !.name = n, !.tries = req[r].tries + 1])
          /\ n = Base[e] => LiveNamed(Base[e]) = {}
    <2>1. PICK free, n :
            /\ free = IF LiveNamed(Base[e]) = {} THEN {Base[e]} ELSE Names \ {Base[f] : f \in Emails}
            /\ n \in free
            /\ Wrote(r, [req[r] EXCEPT !.pc = "social:create", !.name = n,
                                       !.tries = req[r].tries + 1])
      BY <1>2 DEF SocialName
    <2>2. CASE LiveNamed(Base[e]) = {}
      BY <1>4, <2>1, <2>2
    <2>3. CASE LiveNamed(Base[e]) # {}
      <3>1. n \in Names /\ n # Base[e]
        BY <1>4, <2>1, <2>3
      <3>2. QED BY <2>1, <3>1
    <2>4. QED BY <2>2, <2>3
  <1>6. PICK j : j = [req[r] EXCEPT !.pc = "social:create", !.name = n, !.tries = req[r].tries + 1]
    OBVIOUS
  <1>7. Release(e, None) /\ Wrote(r, j) /\ UNCHANGED <<link, dropped>>
    BY <1>2, <1>5, <1>6 DEF SocialName
  <1>8. /\ j \in Req /\ j.pc = "social:create" /\ j.call = req[r].call /\ j.out = "none"
        /\ j.clean = req[r].clean /\ j.name = n
    <2>1. req[r].tries + 1 \in 0..MaxTries
      BY <1>1, <1>3, AccountsAssumption DEF Req
    <2>2. QED BY <1>1, <1>3, <1>6, <2>1 DEF Req, Pc
  <1>9. req'[r] = j
    BY <1>7, <1>8, WroteReq DEF Carry
  <1>10. /\ Documents(r)
         /\ \A u \in UserIds :
              user'[u] = IF u \in Released(e, None) THEN Closed(user[u]) ELSE user[u]
    BY <1>7, ReleaseDocuments DEF Carry
  <1>11. Carries(j)
    BY <1>3, <1>8 DEF Carries, UserPcs, SocialPcs
  <1>12. link' \in [Uids -> UserIds \cup {None}] /\ dropped' \subseteq Uids
    BY <1>7 DEF Carry, AccountsTypeOK
  <1>13. Effect(r)
    BY <1>1, <1>7, <1>8, <1>10, <1>11, <1>12, WroteEffect DEF At, UserPcs
  <1>14. LiveAt(e) = {} => EmailFree(e)'
    <2>1. SUFFICES ASSUME LiveAt(e) = {}, NEW u \in UserIds
                   PROVE  user'[u].email # e
      BY DEF EmailFree
    <2>2. user[u] \in User /\ e # None
      BY <1>4, AccountsAssumption DEF Carry, AccountsTypeOK
    <2>3. CASE u \in Released(e, None)
      BY <1>10, <2>2, <2>3, ClosedIs
    <2>4. CASE u \notin Released(e, None)
      <3>1. user'[u] = user[u] /\ (user[u].state = "deleted" => user[u].email # e)
        BY <1>10, <2>2, <2>4 DEF Released
      <3>2. user[u].state = "live" => user[u].email # e
        BY <2>1 DEF LiveAt, Live
      <3>3. user[u].state = "none" => user[u].email # e
        BY <2>2, NobodyHasNone DEF Exists
      <3>4. QED BY <2>2, <3>1, <3>2, <3>3 DEF User
    <2>5. QED BY <2>3, <2>4
  <1>15. LiveNamed(Base[e]) = {} => LiveNamed(Base[e])' = {}
    <2>1. \A u \in UserIds : user'[u].state = "live" => user'[u] = user[u]
      BY <1>10, ClosedIs DEF Carry, AccountsTypeOK
    <2>2. QED BY <2>1 DEF LiveNamed, Live
  <1>16. SignUpOK(r) => SignUpOK(r)'
    <2>1. SignUpOK(r) /\ req[r].clean => LiveAt(e) = {} /\ link[req[r].call.uid] = None
      BY <1>1, <1>2 DEF SignUpOK
    <2>2. /\ req'[r].pc = "social:create" /\ req'[r].call = req[r].call /\ req'[r].name = n
          /\ req'[r].clean = req[r].clean
      BY <1>8, <1>9
    <2>3. QED BY <1>2, <1>5, <1>7, <1>14, <1>15, <2>1, <2>2 DEF SignUpOK, At, AsksAgain
  <1>17. Links(r) /\ Justified(r)
    BY <1>7, <1>8, <1>9, NothingLinked, NotRefused
  <1>18. QED BY <1>8, <1>9, <1>13, <1>16, <1>17, SignUpRight

LEMMA UnlinkStep ==
  ASSUME Carry, NEW r \in Requests, Unlink(r)
  PROVE  Effect(r) /\ Right(r)
  <1>1. /\ req[r] \in Req /\ Carries(req[r]) /\ At(r, "unlink")
        /\ user[req[r].user].state = "deleted"
    BY DEF Carry, AccountsTypeOK, CarryOK, Unlink
  <1>2. PICK j : j = Done(req[r], "ok")
    OBVIOUS
  <1>3. /\ Wrote(r, j) /\ UNCHANGED <<user, dropped>>
        /\ link' = [g \in Uids |-> IF link[g] = req[r].user THEN None ELSE link[g]]
    BY <1>2 DEF Unlink
  <1>4. /\ j \in Req /\ j.pc = "done" /\ j.call = req[r].call /\ j.out = "ok"
        /\ j.clean = req[r].clean
    BY <1>1, <1>2, ReqEnds
  <1>5. req'[r] = j
    BY <1>3, <1>4, WroteReq DEF Carry
  <1>6. link' \in [Uids -> UserIds \cup {None}] /\ dropped' \subseteq Uids
    BY <1>3 DEF Carry, AccountsTypeOK
  <1>7. Carries(j) /\ j.call.op = "delete"
    BY <1>1, <1>4 DEF Carries, At, UserPcs, SocialPcs
  <1>8. Documents(r)
    BY <1>3, SameDocuments DEF Carry
  <1>9. Effect(r)
    BY <1>1, <1>3, <1>4, <1>6, <1>7, <1>8, WroteEffect DEF At, UserPcs
  <1>10. Links(r)
    BY <1>1, <1>3 DEF Links, Live
  <1>11. QED BY <1>4, <1>5, <1>7, <1>9, <1>10, QuietRight DEF Uses

LEMMA SocialForgetStep ==
  ASSUME Carry, NEW r \in Requests, SocialForget(r)
  PROVE  Effect(r) /\ Right(r)
  <1>1. req[r] \in Req /\ Carries(req[r]) /\ At(r, "social:forget")
    BY DEF Carry, AccountsTypeOK, CarryOK, SocialForget
  <1>2. PICK g, j : /\ g = req[r].call.uid
                    /\ j = IF req[r].again THEN Done(req[r], "exists")
                           ELSE To(req[r], "social:email")
    OBVIOUS
  <1>3. /\ Wrote(r, j) /\ UNCHANGED user /\ link' = [link EXCEPT ![g] = None]
        /\ dropped' = dropped \cup IF req[r].clean THEN {} ELSE {g}
    BY <1>2 DEF SocialForget, Unlinked, To
  <1>4. g \in Uids /\ req[r].call.op = "social" /\ req[r].out = "none"
    BY <1>1, <1>2 DEF Carries, SocialPcs, At
  <1>5. /\ j \in Req /\ j.call = req[r].call /\ j.clean = req[r].clean /\ j.tries = req[r].tries
        /\ \/ j.pc = "done" /\ j.out = "exists"
           \/ j.pc = "social:email" /\ ~j.again /\ ~req[r].again /\ j.out = "none"
    <2>1. CASE req[r].again
      BY <1>1, <1>2, <2>1, ReqEnds DEF Done, Req
    <2>2. CASE ~req[r].again
      BY <1>1, <1>2, <1>4, <2>2, ReqGoesOn DEF Pc
    <2>3. QED BY <2>1, <2>2
  <1>6. req'[r] = j
    BY <1>3, <1>5, WroteReq DEF Carry
  <1>7. link' \in [Uids -> UserIds \cup {None}] /\ dropped' \subseteq Uids
        /\ \A h \in Uids : h # g => link'[h] = link[h]
    BY <1>3, <1>4 DEF Carry, AccountsTypeOK
  <1>8. Carries(j)
    BY <1>1, <1>4, <1>5 DEF Carries, At, UserPcs, SocialPcs
  <1>9. Documents(r)
    BY <1>3, SameDocuments DEF Carry
  <1>10. Effect(r)
    BY <1>1, <1>3, <1>5, <1>7, <1>8, <1>9, WroteEffect DEF At, UserPcs
  <1>11. LinkOK(r) => Links(r)
    <2>1. CASE req[r].clean
      BY <1>1, <1>2, <1>3, <1>7, <2>1 DEF LinkOK, Links
    <2>2. CASE ~req[r].clean
      BY <1>3, <1>7, <2>2 DEF Links
    <2>3. QED BY <2>1, <2>2
  <1>12. link'[g] = None
    BY <1>3, <1>4 DEF Carry, AccountsTypeOK
  <1>13. SignUpOK(r) => SignUpOK(r)'
    BY <1>2, <1>5, <1>6, <1>12 DEF SignUpOK, At, AsksAgain
  <1>14. SignUpOK(r) => Justified(r)
    <2>1. CASE req[r].again
      BY <1>1, <1>4, <2>1 DEF SignUpOK, AsksAgain, Justified, InUse
    <2>2. CASE ~req[r].again
      <3>1. req'[r].out = "none"
        BY <1>1, <1>2, <1>4, <1>6, <2>2, ReqGoesOn DEF Pc
      <3>2. QED BY <3>1, NotRefused
    <2>3. QED BY <2>1, <2>2
  <1>15. QED BY <1>5, <1>6, <1>10, <1>11, <1>13, <1>14, SignUpRight

LEMMA EveryStep ==
  ASSUME Carry, AccountsNext
  PROVE  \E r \in Requests : Effect(r) /\ Right(r)
  <1>1. PICK r \in Requests : GoesOn(r) \/ (At(r, "new") /\ \E c \in Calls : Asks(r, c))
    BY DEF AccountsNext
  <1>2. CASE GoesOn(r)
    <2>1. CASE \/ RegisterCheck(r) \/ SocialUser(r) \/ SocialEmail(r) \/ SocialAgain(r)
               \/ SocialDuplicate(r) \/ Dies(r)
      BY <2>1, ReadEffect
    <2>2. CASE MarkVerified(r) \/ ResendWrite(r) \/ IssueTokens(r) \/ RemoveRefreshToken(r)
      BY <2>2, MarkVerifiedStep, ResendWriteStep, IssueTokensStep, RemoveRefreshTokenStep
    <2>3. CASE SetPassword(r) \/ PhoneOtpWrite(r) \/ ProfileWrite(r) \/ Unlink(r)
      BY <2>3, SetPasswordStep, PhoneOtpWriteStep, ProfileWriteStep, UnlinkStep
    <2>4. CASE RegisterInsert(r) \/ SocialForget(r) \/ SocialName(r) \/ SocialCreate(r)
      BY <2>4, RegisterInsertStep, SocialForgetStep, SocialNameStep, SocialCreateStep
    <2>5. QED BY <1>2, <2>1, <2>2, <2>3, <2>4 DEF GoesOn
  <1>3. ASSUME NEW c \in Calls, At(r, "new"), Asks(r, c)
        PROVE  Effect(r) /\ Right(r)
    <2>1. CASE Register(r, c)
      BY <1>3, <2>1, RegisterStep
    <2>2. CASE ForgotPassword(r, c)
      BY <1>3, <2>2, ForgotPasswordStep
    <2>3. CASE DeleteAccount(r, c)
      BY <1>3, <2>3, DeleteAccountStep
    <2>4. CASE Moderate(r, c)
      BY <1>3, <2>4, ModerateStep
    <2>5. CASE \/ Verify(r, c) \/ Resend(r, c) \/ Login(r, c) \/ Refresh(r, c) \/ Logout(r, c)
               \/ ResetPassword(r, c) \/ ChangePassword(r, c) \/ RequestPhoneOtp(r, c)
               \/ UpdateProfile(r, c) \/ Social(r, c)
      BY <1>3, <2>5, AskEffect
    <2>6. QED BY <1>3, <2>1, <2>2, <2>3, <2>4, <2>5 DEF Asks
  <1>4. QED BY <1>1, <1>2, <1>3

-----------------------------------------------------------------------------
(* What a step leaves of the invariants, from its effect. *)

LEMMA OthersSame ==
  ASSUME NEW r \in Requests, NEW q \in Requests, q # r, Apart(r)
  PROVE  /\ (Presents(q)' <=> Presents(q)) /\ (Spent(q)' <=> Spent(q))
         /\ Kind(q)' = Kind(q) /\ Secret(q)' = Secret(q)
         /\ (req'[q].clean => req[q].clean)
  BY DEF Apart, Presents, Spent, Uses, Kind, Secret, At

LEMMA NextCarry ==
  ASSUME Carry, NEW r \in Requests, Effect(r)
  PROVE  Carry'
  <1>1. AccountsTypeOK' /\ CarryOK(r)' /\ Apart(r) /\ Documents(r)
    BY DEF Effect
  <1>2. \A u \in UserIds : ~Exists(u)' => user'[u] = NoUser
    <2>1. TAKE u \in UserIds
    <2>2. CASE user'[u] = user[u]
      BY <2>2 DEF Carry, AccountsOK, Exists
    <2>3. CASE Follows(r, u, user'[u]) \/ Born(r, user'[u])
      BY <2>3 DEF Follows, Born, Exists
    <2>4. QED BY <1>1, <2>2, <2>3 DEF Documents
  <1>3. ASSUME NEW q \in Requests, Exists(q)'
        PROVE  At(q, "done")' \/ At(q, "issue")'
    <2>1. q \in UserIds
      BY DEF UserIds
    <2>2. CASE Exists(q)
      <3>1. At(q, "done") \/ At(q, "issue")
        BY <2>2 DEF Carry, AccountsOK
      <3>2. QED BY <1>1, <3>1 DEF Apart, At, Effect
    <2>3. CASE ~Exists(q)
      <3>1. q = r /\ Born(r, user'[q])
        BY <1>1, <1>3, <2>1, <2>3 DEF Documents, Follows, Exists
      <3>2. QED BY <3>1 DEF Born
    <2>4. QED BY <2>2, <2>3
  <1>4. ASSUME NEW q \in Requests, q # r
        PROVE  CarryOK(q)'
    <2>1. CarryOK(q) /\ req[q].user = req'[q].user /\ req[q].pc = req'[q].pc
      BY <1>1, <1>4 DEF Carry, Apart
    <2>2. Carries(req'[q])
      BY <1>1, <1>4, <2>1 DEF CarryOK, Carries, Apart
    <2>3. req[q].pc \in UserPcs => req[q].user \in UserIds
      BY <2>1 DEF CarryOK, Carries
    <2>4. \A u \in UserIds : /\ Exists(u) => Exists(u)'
                             /\ user[u].state = "deleted" => user'[u].state = "deleted"
      BY <1>1, AccountsStay DEF Born, Exists
    <2>5. QED BY <2>1, <2>2, <2>3, <2>4 DEF CarryOK, Exists, At, UserPcs
  <1>5. QED BY <1>1, <1>2, <1>3, <1>4 DEF Carry, AccountsOK

LEMMA NextPhone ==
  ASSUME Carry, PhoneInv, NEW r \in Requests, Effect(r), Right(r)
  PROVE  PhoneInv'
  <1>1. Carries(req[r]) /\ Apart(r) /\ Documents(r) /\ Carries(req'[r])
    BY DEF Carry, CarryOK, Effect
  <1>2. ASSUME NEW u, NEW p, Proven(u, p)
        PROVE  Proven(u, p)'
    <2>1. PICK c \in Requests : /\ req[c].call.op = "phoneOtp" /\ req[c].out = "ok"
                               /\ req[c].call.user = u /\ req[c].call.phone = p
      BY <1>2 DEF Proven
    <2>2. c # r
      BY <1>1, <2>1 DEF Carries, Effect, At
    <2>3. QED BY <1>1, <2>1, <2>2 DEF Proven, Apart
  <1>3. ASSUME NEW u \in UserIds, NEW d, d = user'[u]
        PROVE  /\ d.phone # None => d.phone = d.given \/ Proven(u, d.phone)'
               /\ d.pending # None => Proven(u, d.pending)'
    <2>1. CASE d = user[u]
      BY <1>2, <2>1 DEF PhoneInv, MayHave
    <2>2. CASE Follows(r, u, d)
      <3>1. d.phone # None => d.phone = d.given \/ Proven(u, d.phone)
        BY <2>2 DEF Follows, PhoneInv, MayHave
      <3>2. ASSUME d.pending # None
            PROVE  Proven(u, d.pending)'
        <4>1. CASE d.pending = user[u].pending
          BY <1>2, <3>2, <4>1 DEF PhoneInv
        <4>2. CASE /\ At(r, "phoneOtp") /\ u = req[r].user
                   /\ d.pending = req[r].call.phone /\ req'[r].out = "ok"
          <5>1. req'[r].call = req[r].call
            BY <4>2 DEF Effect, At
          <5>2. req[r].call.op = "phoneOtp" /\ req[r].call.user = u
            BY <1>1, <4>2 DEF Carries, At
          <5>3. QED BY <4>2, <5>1, <5>2 DEF Proven
        <4>3. QED BY <2>2, <3>2, <4>1, <4>2 DEF Follows
      <3>3. QED BY <1>2, <3>1, <3>2
    <2>3. CASE Born(r, d)
      BY <2>3 DEF Born
    <2>4. QED BY <1>1, <1>3, <2>1, <2>2, <2>3 DEF Documents
  <1>4. ASSUME NEW q \in Requests, NEW u, NEW p, At(q, "profile")', p # None,
               u = req'[q].user, p = req'[q].call.phone
        PROVE  MayHave(u, p)'
    <2>1. Carries(req'[q]) /\ u \in UserIds
      BY <1>4, NextCarry DEF Carry, CarryOK, Carries, UserPcs, At
    <2>2. MayHave(u, p) /\ user'[u].given = user[u].given
      <3>1. CASE q = r
        <4>1. p \in {user[u].phone, user[u].pending} /\ Exists(u)'
          BY <1>4, <3>1 DEF Right, Effect, CarryOK, UserPcs, At
        <4>2. ~Born(r, user'[u])
          BY <1>4, <3>1 DEF Born, At
        <4>3. QED BY <1>1, <1>4, <2>1, <4>1, <4>2 DEF PhoneInv, MayHave, Documents, Follows
      <3>2. CASE q # r
        <4>1. At(q, "profile") /\ req[q].user = u /\ req[q].call.phone = p
          BY <1>1, <1>4, <3>2 DEF Apart, At
        <4>2. MayHave(u, p) /\ Exists(u)
          BY <1>4, <4>1 DEF PhoneInv, Carry, CarryOK, UserPcs, At
        <4>3. ~(u = r /\ Born(r, user'[u]))
          BY <4>2 DEF Born, Carry, AccountsOK, At
        <4>4. QED BY <1>1, <2>1, <4>2, <4>3 DEF Documents, Follows
      <3>3. QED BY <3>1, <3>2
    <2>3. QED BY <1>2, <2>2 DEF MayHave
  <1>5. QED BY <1>3, <1>4 DEF PhoneInv, MayHave, Proven

LEMMA NextSeen ==
  ASSUME Carry, NEW r \in Requests, Effect(r), Right(r), NEW q \in Requests
  PROVE  /\ SessionOK(q) => SessionOK(q)'
         /\ SignUpOK(q) => SignUpOK(q)'
         /\ LinkOK(q) => LinkOK(q)'
  <1>1. CASE q = r
    BY <1>1 DEF Right
  <1>2. CASE q # r
    <2>1. /\ req'[q].pc = req[q].pc /\ req'[q].call = req[q].call /\ req'[q].user = req[q].user
          /\ req'[q].name = req[q].name /\ req'[q].again = req[q].again
          /\ (req'[q].clean => req[q].clean)
      BY <1>2 DEF Effect, Apart
    <2>2. CASE UNCHANGED <<user, link, dropped>>
      <3>1. SessionOK(q) => SessionOK(q)'
        BY <2>1, <2>2 DEF SessionOK, At, Live
      <3>2. SignUpOK(q) => SignUpOK(q)'
        BY <2>1, <2>2 DEF SignUpOK, At, AsksAgain, Released, EmailFree, NameFree,
                          LiveAt, LiveNamed, Live
      <3>3. LinkOK(q) => LinkOK(q)'
        BY <2>1, <2>2 DEF LinkOK, At, Live
      <3>4. QED BY <3>1, <3>2, <3>3
    <2>3. CASE Hidden(r)
      <3>1. req'[q].clean => req[q].pc \in {"new", "done"}
        BY <1>2, <2>3 DEF Hidden, InFlight
      <3>2. QED BY <2>1, <3>1 DEF SessionOK, SignUpOK, LinkOK, At, AsksAgain
    <2>4. QED BY <2>2, <2>3 DEF Effect, Unseen
  <1>3. QED BY <1>1, <1>2

LEMMA NextLinked ==
  ASSUME Carry, LinkInv, NEW r \in Requests, Effect(r), Right(r)
  PROVE  LinkInv'
  <1>1. \A q \in Requests : LinkOK(q)'
    BY NextSeen DEF LinkInv
  <1>2. Links(r) /\ Documents(r)
    BY DEF LinkInv, Right, Effect
  <1>3. ASSUME NEW u \in UserIds, Live(u)', user'[u].via # None
        PROVE  link'[user'[u].via] = u \/ user'[u].via \in dropped'
    <2>1. CASE user'[u] = user[u] \/ Follows(r, u, user'[u])
      <3>1. Live(u) /\ user[u].via = user'[u].via
        BY <1>3, <2>1 DEF Follows, Live
      <3>2. link[user[u].via] = u \/ user[u].via \in dropped
        BY <1>3, <3>1 DEF LinkInv, SocialLinked
      <3>3. user[u].via \in Uids /\ u # None
        BY <1>3, <3>1, AccountsAssumption DEF Carry, AccountsTypeOK, User
      <3>4. QED BY <1>2, <3>1, <3>2, <3>3 DEF Links
    <2>2. CASE u = r /\ Born(r, user'[u])
      BY <1>3, <2>2 DEF Born
    <2>3. QED BY <1>2, <2>1, <2>2 DEF Documents
  <1>4. SocialLinked'
    BY <1>3 DEF SocialLinked
  <1>5. QED BY <1>1, <1>4 DEF LinkInv

LEMMA SecretKind ==
  ASSUME Carry, NEW q \in Requests, Presents(q) \/ Spent(q)
  PROVE  Kind(q) \in SecretKinds
  <1>1. Carries(req[q])
    BY DEF Carry, CarryOK
  <1>2. QED BY <1>1 DEF Carries, Presents, Spent, Uses, Kind, SecretKinds, At

LEMMA NextSecret ==
  ASSUME Carry, SecretInv, NEW r \in Requests, Effect(r), Right(r)
  PROVE  SecretInv'
  <1>1. Apart(r) /\ Documents(r) /\ ~At(r, "done")
    BY DEF Effect
  <1>2. /\ \A k \in SecretKinds, u \in UserIds : \A s \in Kept(user[u], k) : Past(s)
        /\ \A k \in SecretKinds, u, v \in UserIds :
             u # v => Kept(user[u], k) \cap Kept(user[v], k) = {}
    BY DEF SecretInv
  <1>3. ~Past(r)
    BY <1>1, AccountsAssumption DEF Past
  <1>4. ASSUME NEW s, Past(s)
        PROVE  Past(s)'
    BY <1>1, <1>3, <1>4 DEF Past, Apart, At
  <1>5. ASSUME NEW k \in SecretKinds, NEW u \in UserIds, NEW s \in Kept(user'[u], k)
        PROVE  s \in Kept(user[u], k) \/ (s = r /\ At(r, "done")')
    BY <1>1, <1>5 DEF Documents, Keeps
  <1>6. ASSUME NEW k \in SecretKinds, NEW u \in UserIds, NEW s, Past(s), s \notin Kept(user[u], k)
        PROVE  s \notin Kept(user'[u], k)
    BY <1>3, <1>5, <1>6
  <1>7. \A k \in SecretKinds, u \in UserIds : \A s \in Kept(user'[u], k) : Past(s)'
    <2>1. TAKE k \in SecretKinds, u \in UserIds
    <2>2. TAKE s \in Kept(user'[u], k)
    <2>3. CASE s \in Kept(user[u], k)
      BY <1>2, <1>4, <2>3
    <2>4. CASE s = r /\ At(r, "done")'
      BY <2>4 DEF Past
    <2>5. QED BY <1>5, <2>3, <2>4
  <1>8. ASSUME NEW k \in SecretKinds, NEW u \in UserIds, NEW v \in UserIds, u # v
        PROVE  Kept(user'[u], k) \cap Kept(user'[v], k) = {}
    <2>1. PICK w \in UserIds : \A x \in UserIds : x = w \/ Kept(user'[x], k) \subseteq Kept(user[x], k)
      BY <1>1 DEF Documents
    <2>2. ASSUME NEW s \in Kept(user'[u], k), s \in Kept(user'[v], k)
          PROVE  FALSE
      <3>1. s \in Kept(user[u], k) \/ s \in Kept(user[v], k)
        BY <1>8, <2>1, <2>2
      <3>2. s # r
        BY <1>2, <1>3, <3>1
      <3>3. s \in Kept(user[u], k) /\ s \in Kept(user[v], k)
        BY <1>5, <2>2, <3>2
      <3>4. QED BY <1>2, <1>8, <3>3
    <2>3. QED BY <2>2
  <1>9. ASSUME NEW q \in Requests, Presents(q), NEW s, s = Secret(q), NEW k, k = Kind(q)
        PROVE  /\ Past(s)' /\ k \in SecretKinds
               /\ \A u \in UserIds : u # req[q].user => s \notin Kept(user'[u], k)
    <2>1. Past(s) /\ k \in SecretKinds
      BY <1>9, SecretKind DEF SecretInv
    <2>2. \A u \in UserIds : u # req[q].user => s \notin Kept(user[u], k)
      BY <1>9 DEF SecretInv
    <2>3. QED BY <1>4, <1>6, <2>1, <2>2
  <1>10. ASSUME NEW q \in Requests, Spent(q), NEW s, s = Secret(q), NEW k, k = Kind(q)
         PROVE  /\ Past(s)' /\ k \in SecretKinds
                /\ \A u \in UserIds : s \notin Kept(user[u], k) /\ s \notin Kept(user'[u], k)
    <2>1. Past(s) /\ k \in SecretKinds /\ \A u \in UserIds : s \notin Kept(user[u], k)
      BY <1>10, SecretKind DEF SecretInv
    <2>2. QED BY <1>4, <1>6, <2>1
  <1>11. Presents(r) \/ Spent(r) =>
           Secret(r)' = Secret(r) /\ Kind(r)' = Kind(r) /\ req'[r].clean = req[r].clean
    <2>1. Spent(r) => req[r].out = "ok" \/ At(r, "issue")
      BY DEF Spent, Uses
    <2>2. Carries(req[r])
      BY DEF Carry, CarryOK
    <2>3. Presents(r) \/ Spent(r) => ~At(r, "new")
      BY <2>1, <2>2 DEF Presents, Carries, At
    <2>4. QED BY <2>3 DEF Effect, Secret, Kind
  <1>12. ASSUME Finds(r), NEW s, s = Secret(r)', NEW k, k = Kind(r)', k \in SecretKinds
         PROVE  /\ s \in Kept(user[req'[r].user], k) /\ Past(s)' /\ req'[r].user \in UserIds
                /\ \A u \in UserIds : u # req'[r].user => s \notin Kept(user'[u], k)
    <2>1. s \in Kept(user[req'[r].user], k) /\ req'[r].user \in UserIds /\ user' = user
      BY <1>12 DEF Finds
    <2>2. Past(s)
      BY <1>2, <1>12, <2>1
    <2>3. QED BY <1>2, <1>4, <1>12, <2>1, <2>2
  <1>13. ASSUME NEW q \in Requests, Presents(q)'
         PROVE  /\ Past(Secret(q))'
                /\ \A u \in UserIds : u # req'[q].user => Secret(q)' \notin Kept(user'[u], Kind(q)')
    <2>1. PICK s, k : s = Secret(q)' /\ k = Kind(q)'
      OBVIOUS
    <2>2. Past(s)' /\ \A u \in UserIds : u # req'[q].user => s \notin Kept(user'[u], k)
      <3>1. CASE q = r
        <4>1. k \in SecretKinds
          <5>1. Carry'
            BY NextCarry
          <5>2. Carries(req'[q])
            BY <5>1 DEF Carry, CarryOK
          <5>3. QED BY <1>13, <2>1, <5>2 DEF Carries, Presents, Kind, SecretKinds, At
        <4>2. Finds(r)
          BY <1>13, <3>1 DEF Right
        <4>3. QED BY <1>12, <2>1, <3>1, <4>1, <4>2
      <3>2. CASE q # r
        <4>1. Presents(q) /\ s = Secret(q) /\ k = Kind(q) /\ req'[q].user = req[q].user
          BY <1>1, <1>13, <2>1, <3>2, OthersSame DEF Apart
        <4>2. QED BY <1>9, <4>1
      <3>3. QED BY <3>1, <3>2
    <2>3. QED BY <2>1, <2>2 DEF Past
  <1>14. ASSUME Spends(r), NEW s, s = Secret(r), NEW k, k = Kind(r)
         PROVE  Past(s)' /\ \A u \in UserIds : s \notin Kept(user'[u], k)
    <2>1. Presents(r) /\ s \notin Kept(user'[req[r].user], k)
      BY <1>14 DEF Spends
    <2>2. QED BY <1>9, <1>14, <2>1
  <1>15. ASSUME NEW q \in Requests, Spent(q)'
         PROVE  /\ Past(Secret(q))'
                /\ \A u \in UserIds : Secret(q)' \notin Kept(user'[u], Kind(q)')
    <2>1. PICK s, k : s = Secret(q)' /\ k = Kind(q)'
      OBVIOUS
    <2>2. Past(s)' /\ \A u \in UserIds : s \notin Kept(user'[u], k)
      <3>1. CASE q = r
        <4>1. Spent(r) \/ Spends(r)
          BY <1>15, <3>1 DEF Right
        <4>2. s = Secret(r) /\ k = Kind(r)
          BY <1>11, <2>1, <3>1, <4>1 DEF Spends
        <4>3. QED BY <1>10, <1>14, <4>1, <4>2
      <3>2. CASE q # r
        <4>1. Spent(q) /\ s = Secret(q) /\ k = Kind(q)
          BY <1>1, <1>15, <2>1, <3>2, OthersSame
        <4>2. QED BY <1>10, <4>1
      <3>3. QED BY <3>1, <3>2
    <2>3. QED BY <2>1, <2>2 DEF Past
  <1>16. ASSUME NEW p \in Requests, NEW q \in Requests, p # q, Spent(p)', Spent(q)' \/ Presents(q)',
                Kind(p)' = Kind(q)', Secret(p)' = Secret(q)', req'[p].clean, req'[q].clean
         PROVE  FALSE
    <2>1. \A x, y \in Requests :
            /\ x # y /\ Spent(x) /\ (Spent(y) \/ Presents(y))
            /\ Kind(x) = Kind(y) /\ Secret(x) = Secret(y)
            => ~(req[x].clean /\ req[y].clean)
      BY DEF SecretInv
    <2>2. ASSUME Spends(r), NEW x \in Requests, x # r, req'[x].clean,
                 Spent(x)' \/ Presents(x)'
          PROVE  Spent(x)
      <3>1. ~InFlight(x)
        BY <2>2 DEF Spends, Hidden
      <3>2. Spent(x) \/ Presents(x)
        BY <1>1, <2>2, OthersSame
      <3>3. QED BY <3>1, <3>2 DEF Presents, InFlight, At
    <2>3. CASE p # r /\ q # r
      BY <1>1, <1>16, <2>1, <2>3, OthersSame
    <2>4. CASE p = r
      <3>1. /\ q # r /\ (Spent(q) \/ Presents(q)) /\ Kind(q)' = Kind(q) /\ Secret(q)' = Secret(q)
            /\ req[q].clean
        BY <1>1, <1>16, <2>4, OthersSame
      <3>2. CASE Spent(r)
        BY <1>11, <1>16, <2>1, <2>4, <3>1, <3>2
      <3>3. CASE Spends(r)
        <4>1. Presents(r) /\ Spent(q)
          BY <1>16, <2>2, <2>4, <3>1, <3>3 DEF Spends
        <4>2. QED BY <1>11, <1>16, <2>1, <2>4, <3>1, <4>1
      <3>4. QED BY <1>16, <2>4, <3>2, <3>3 DEF Right
    <2>5. CASE q = r
      <3>1. p # r /\ Spent(p) /\ Kind(p)' = Kind(p) /\ Secret(p)' = Secret(p) /\ req[p].clean
        BY <1>1, <1>16, <2>5, OthersSame
      <3>2. CASE Spent(r)
        BY <1>11, <1>16, <2>1, <2>5, <3>1, <3>2
      <3>3. CASE Spends(r)
        <4>1. Presents(r)
          BY <3>3 DEF Spends
        <4>2. QED BY <1>11, <1>16, <2>1, <2>5, <3>1, <4>1
      <3>4. CASE Finds(r)
        <4>1. PICK s, k : s = Secret(p) /\ k = Kind(p)
          OBVIOUS
        <4>2. k \in SecretKinds /\ \A u \in UserIds : s \notin Kept(user[u], k)
          BY <1>10, <3>1, <4>1
        <4>3. s = Secret(r)' /\ k = Kind(r)'
          BY <1>16, <2>5, <3>1, <4>1
        <4>4. s \in Kept(user[req'[r].user], k) /\ req'[r].user \in UserIds
          BY <1>12, <3>4, <4>2, <4>3
        <4>5. QED BY <4>2, <4>4
      <3>5. QED BY <1>16, <2>5, <3>2, <3>3, <3>4 DEF Right
    <2>6. QED BY <2>3, <2>4, <2>5
  <1>17. QED BY <1>7, <1>8, <1>13, <1>15, <1>16 DEF SecretInv, Past

-----------------------------------------------------------------------------
(* The theorems. *)

AccountsInv == Carry /\ PhoneInv /\ LinkInv /\ SecretInv
               /\ \A r \in Requests : SessionOK(r) /\ SignUpOK(r)

LEMMA InitInv == AccountsInit => AccountsInv
  <1>1. SUFFICES ASSUME AccountsInit
                 PROVE  AccountsInv
    OBVIOUS
  <1>2. PICK s \in Seeds : user = s.user /\ link = s.link
    BY <1>1 DEF AccountsInit
  <1>3. /\ user \in [UserIds -> User] /\ link \in [Uids -> UserIds \cup {None}]
        /\ \A r \in Requests : user[r] = NoUser
        /\ \A u \in UserIds : user[u].state = "none" => user[u] = NoUser
        /\ \A k \in SecretKinds, u \in UserIds : Kept(user[u], k) \subseteq {Earlier}
        /\ \A k \in SecretKinds, u, v \in UserIds :
             u # v => Kept(user[u], k) \cap Kept(user[v], k) = {}
        /\ \A u \in UserIds : user[u].phone \in {None, user[u].given} /\ user[u].pending = None
        /\ \A u \in UserIds : user[u].via # None /\ user[u].state = "live" => link[user[u].via] = u
    BY <1>2, AccountsAssumption
  <1>4. req = [r \in Requests |-> Fresh] /\ dropped = {}
    BY <1>1 DEF AccountsInit
  <1>5. \A r \in Requests : req[r] = Fresh /\ Fresh.pc = "new" /\ Fresh.out = "none"
    BY <1>4 DEF Fresh
  <1>6. Carry
    <2>1. AccountsTypeOK
      BY <1>3, <1>4, FreshReq DEF AccountsTypeOK
    <2>2. AccountsOK
      BY <1>3 DEF AccountsOK, Exists, NoUser
    <2>3. \A r \in Requests : CarryOK(r)
      BY <1>5 DEF CarryOK, Carries, UserPcs, SocialPcs, At
    <2>4. QED BY <2>1, <2>2, <2>3 DEF Carry
  <1>7. PhoneInv
    BY <1>3, <1>5 DEF PhoneInv, MayHave, At
  <1>8. LinkInv
    BY <1>3, <1>5 DEF LinkInv, SocialLinked, LinkOK, Live, At
  <1>9. \A r \in Requests : ~Presents(r) /\ ~Spent(r) /\ SessionOK(r) /\ SignUpOK(r)
    BY <1>5 DEF Presents, Spent, Uses, SessionOK, SignUpOK, At, AsksAgain
  <1>10. SecretInv
    BY <1>3, <1>9 DEF SecretInv, Past
  <1>11. QED BY <1>6, <1>7, <1>8, <1>9, <1>10 DEF AccountsInv

LEMMA NextInv == AccountsInv /\ [AccountsNext]_accountsVars => AccountsInv'
  <1>1. SUFFICES ASSUME AccountsInv, [AccountsNext]_accountsVars
                 PROVE  AccountsInv'
    OBVIOUS
  <1>2. CASE AccountsNext
    <2>1. PICK r \in Requests : Effect(r) /\ Right(r)
      BY <1>1, <1>2, EveryStep DEF AccountsInv
    <2>2. Carry' /\ PhoneInv' /\ LinkInv' /\ SecretInv'
      BY <1>1, <2>1, NextCarry, NextPhone, NextLinked, NextSecret DEF AccountsInv
    <2>3. \A q \in Requests : SessionOK(q)' /\ SignUpOK(q)'
      BY <1>1, <2>1, NextSeen DEF AccountsInv
    <2>4. QED BY <2>2, <2>3 DEF AccountsInv
  <1>3. CASE UNCHANGED accountsVars
    <2>1. user' = user /\ link' = link /\ req' = req /\ dropped' = dropped
      BY <1>3 DEF accountsVars
    <2>2. Carry'
      BY <1>1, <2>1 DEF AccountsInv, Carry, AccountsTypeOK, AccountsOK, CarryOK, Exists, At
    <2>3. PhoneInv'
      BY <1>1, <2>1 DEF AccountsInv, PhoneInv, MayHave, Proven, At
    <2>4. LinkInv' /\ \A q \in Requests : SessionOK(q)' /\ SignUpOK(q)'
      BY <1>1, <2>1 DEF AccountsInv, LinkInv, SocialLinked, LinkOK, SessionOK, SignUpOK,
                        AsksAgain, Released, EmailFree, NameFree, LiveAt, LiveNamed, Live, At
    <2>5. \A q \in Requests : /\ Presents(q)' = Presents(q) /\ Spent(q)' = Spent(q)
                              /\ Kind(q)' = Kind(q) /\ Secret(q)' = Secret(q)
      BY <2>1 DEF Presents, Spent, Uses, Kind, Secret, At
    <2>6. SecretInv'
      BY <1>1, <2>1, <2>5 DEF AccountsInv, SecretInv, Past, At
    <2>7. QED BY <2>2, <2>3, <2>4, <2>6 DEF AccountsInv
  <1>4. QED BY <1>1, <1>2, <1>3

LEMMA AlwaysInv == AccountsSpec => []AccountsInv
  BY InitInv, NextInv, PTL DEF AccountsSpec

(* The collections and the requests keep their shape, and no sign-up makes  *)
(* more than MaxTries attempts at a name.                                   *)
THEOREM AccountTypesCorrect == AccountsSpec => []AccountsTypeOK
  <1>1. AccountsInv => AccountsTypeOK
    BY DEF AccountsInv, Carry
  <1>2. QED BY <1>1, AlwaysInv, PTL

(* A refresh token or an emailed code is used by one request alone, but for *)
(* requests that overlap (refresh, resetPassword, verifyEmail,              *)
(* updateProfile).                                                          *)
THEOREM SecretsCorrect == AccountsSpec => []SecretsOnce
  <1>1. AccountsInv => SecretsOnce
    BY DEF AccountsInv, SecretInv, SecretsOnce, Spent, Secret
  <1>2. QED BY <1>1, AlwaysInv, PTL

(* A phone number on an account that is not the one it came with (register  *)
(* takes any) is one that account has been sent a code for (checkPhoneOtp,  *)
(* requestPhoneOtp).                                                        *)
THEOREM PhonesCorrect == AccountsSpec => []PhoneProven
  <1>1. AccountsInv => PhoneProven
    BY DEF AccountsInv, PhoneInv, PhoneProven, MayHave, Proven
  <1>2. QED BY <1>1, AlwaysInv, PTL

(* A live account made by social sign-in is linked, unless a sign-in that   *)
(* saw an older link has forgotten the new one (findLinkedUser).            *)
THEOREM LinksCorrect == AccountsSpec => []SocialLinked
  <1>1. AccountsInv => SocialLinked
    BY DEF AccountsInv, LinkInv
  <1>2. QED BY <1>1, AlwaysInv, PTL

(* A sign-up that no other request disturbs, with a password or through     *)
(* Firebase, is refused only over an address or a name somebody alive has:  *)
(* what it has checked and released is free (register, createSocialUser,    *)
(* releaseClosedAccounts).  The exception is in the property: a social one  *)
(* may run out of attempts at a name a deleted account has kept.            *)
THEOREM SignUpCorrect == AccountsSpec => SignUpSucceeds
  <1>1. AccountsInv /\ [AccountsNext]_accountsVars =>
          [\A r \in Requests : Refused(r) /\ req[r].clean => InUse(r) \/ NameHeld(r)]_accountsVars
    <2>1. SUFFICES ASSUME AccountsInv, AccountsNext, NEW q \in Requests, Refused(q), req[q].clean
                   PROVE  InUse(q) \/ NameHeld(q)
      OBVIOUS
    <2>2. PICK r \in Requests : Effect(r) /\ Right(r)
      BY <2>1, EveryStep DEF AccountsInv
    <2>3. q = r
      BY <2>1, <2>2 DEF Effect, Apart, Refused
    <2>4. QED BY <2>1, <2>2, <2>3 DEF Right, Justified, AccountsInv
  <1>2. QED BY <1>1, AlwaysInv, PTL DEF AccountsSpec, SignUpSucceeds

(* Tokens are about to be issued only for an account that is live and       *)
(* active, as far as an undisturbed request can tell (login, refresh,       *)
(* signInWithFirebase).                                                     *)
THEOREM SessionsCorrect == AccountsSpec => []SessionsStart
  <1>1. AccountsInv => SessionsStart
    BY DEF AccountsInv, SessionOK, SessionsStart
  <1>2. QED BY <1>1, AlwaysInv, PTL

-----------------------------------------------------------------------------
(* Presence: its types, and that a device that stays connected keeps its row. *)

(* A socket is used once, its connect is at its own process and the only    *)
(* one to write its row, and whatever is about to delete a row concerns a   *)
(* socket that has ended or whose row a failure has made stale.             *)
Unused(s) == s \notin opened =>
               rows[s] = "none" /\ \A r \in Slots : s \notin job[r].sockets

ConnectsOnce ==
  \A r \in Slots : JobAt(r, "connect:upsert") =>
    \E s \in Sockets :
      /\ job[r].sockets = {s}
      /\ job[r].at = Home[s]
      /\ rows[s] = "none"
      /\ \A q \in Slots : JobAt(q, "connect:upsert") /\ s \in job[q].sockets => q = r

DeletesEnded ==
  \A r \in Slots : JobAt(r, "disconnect:delete") => job[r].sockets \cap open = {}

SweepsLapsed ==
  \A r \in Slots : JobAt(r, "sweep:delete") => job[r].sockets \cap open \subseteq lapsed

RowsRight ==
  /\ local = open
  /\ \A s \in Sockets : Unused(s)
  /\ ConnectsOnce
  /\ DeletesEnded
  /\ SweepsLapsed
  /\ OpenHasRow

IInv == TypeOK /\ RowsRight

-----------------------------------------------------------------------------
(* Types. *)

JobOK(j) ==
  /\ j \in Job
  /\ j.pc \in {"announce:read", "announce:push"} => \E u \in Users : j.telling = {u}

JobsOK == job \in [Slots -> Job] /\ \A r \in Slots : JobOK(job[r])

Types == /\ up \subseteq Instances
         /\ opened \subseteq Sockets
         /\ open \subseteq opened
         /\ local \subseteq Sockets
         /\ rows \in [Sockets -> Row]
         /\ hidden \subseteq Users
         /\ JobsOK
         /\ shown \in [Watchers -> SUBSET Users]
         /\ behind \in [Watchers -> SUBSET Users]
         /\ lapsed \subseteq Sockets

(* TypeOK, said job by job. *)
LEMMA TypeOKTypes == TypeOK <=> Types
  BY DEF TypeOK, Types, JobsOK, JobOK, JobAt

(* The jobs that actions start, or go on with. *)
LEMMA NoJobOK == JobOK(NoJob)
  BY DEF JobOK, Job, NoJob, JobPc

(* Going on, or not, gives a job of the right type. *)
LEMMA ContinueOK ==
  ASSUME JobsOK, NEW r \in Slots, NEW us \in SUBSET Users
  PROVE  JobOK(Continue(r, us))
  BY NoJobOK DEF JobsOK, JobOK, Job, Continue, NoJob, JobPc

(* So does announcing one user. *)
LEMMA AnnouncingOK ==
  ASSUME NEW i \in Instances \cup {Nowhere}, NEW u \in Users, NEW us \in SUBSET Users
  PROVE  JobOK(Announcing(i, u, us))
  BY DEF JobOK, Job, Announcing, NoJob, JobPc

(* Replacing one job by one of the right type keeps all of them right. *)
LEMMA ReplaceJob ==
  ASSUME JobsOK, NEW r \in Slots, NEW j, JobOK(j), job' = [job EXCEPT ![r] = j]
  PROVE  JobsOK'
  BY DEF JobsOK, JobOK

(* Announcing a user keeps the jobs right. *)
LEMMA AnnounceOK ==
  ASSUME JobsOK, NEW r \in Slots, NEW u \in Users, NEW us \in SUBSET Users,
         Announce(r, u, us)
  PROVE  JobsOK'
<1>1. job[r].at \in Instances \cup {Nowhere}
  BY DEF JobsOK, Job
<1>2. JobOK(Announcing(job[r].at, u, us))
  BY <1>1, AnnouncingOK
<1> QED
  BY <1>2, ReplaceJob DEF Announce

(* The history keeps its type. *)
LEMMA HistoryOK ==
  ASSUME behind \in [Watchers -> SUBSET Users], NEW us \in SUBSET Users, NEW i
  PROVE  /\ Everywhere(us) \in [Watchers -> SUBSET Users]
         /\ ChangedAt(i, us) => behind' \in [Watchers -> SUBSET Users]
  BY DEF Everywhere, ChangedAt

(* The owners of sockets are users. *)
LEMMA OwnersOK ==
  ASSUME NEW ss \in SUBSET Sockets
  PROVE  OwnersOf(ss) \in SUBSET Users
  BY PresenceAssumption DEF OwnersOf

(* Every step keeps the types. *)
LEMMA TypeStep ==
  ASSUME Types, [Next]_vars
  PROVE  Types'
<1> USE PresenceAssumption DEF Types
<1>j. ASSUME NEW r \in Slots
      PROVE  /\ job[r].users \in SUBSET Users /\ job[r].telling \in SUBSET Users
             /\ job[r].sockets \in SUBSET Sockets
             /\ job[r].at \in Instances \cup {Nowhere} /\ job[r].pc \in JobPc
             /\ JobOK(job[r])
  BY DEF JobsOK, Job
<1>1. CASE UNCHANGED vars
  BY <1>1 DEF vars, JobsOK, JobOK
<1>2. ASSUME NEW r \in Slots, ConnectUpsert(r)
      PROVE  Types'
  <2>1. PICK s \in job[r].sockets : /\ rows' = [rows EXCEPT ![s] = "fresh"]
                                     /\ Announce(r, Owner[s], {})
                                     /\ ChangedAt(job[r].at, {Owner[s]})
    BY <1>2 DEF ConnectUpsert
  <2>2. s \in Sockets /\ Owner[s] \in Users
    BY <1>j
  <2>3. JobsOK'
    BY <2>1, <2>2, AnnounceOK
  <2>4. behind' \in [Watchers -> SUBSET Users]
    BY <2>1, <2>2, HistoryOK
  <2> QED
    BY <1>2, <2>1, <2>2, <2>3, <2>4 DEF ConnectUpsert, Row
<1>3. ASSUME NEW r \in Slots, DisconnectDelete(r)
      PROVE  Types'
  <2>1. JobOK([job[r] EXCEPT !.pc = "disconnect:check"])
    BY <1>j DEF JobOK, Job, JobPc
  <2>2. JobsOK'
    BY <1>3, <2>1, ReplaceJob DEF DisconnectDelete, JobsOK, JobOK
  <2>3. behind' \in [Watchers -> SUBSET Users]
    BY <1>3, <1>j, HistoryOK DEF DisconnectDelete
  <2> QED
    BY <1>3, <2>2, <2>3 DEF DisconnectDelete, Row
<1>4. ASSUME NEW r \in Slots, DisconnectCheck(r)
      PROVE  Types'
  <2>1. JobsOK'
    <3>1. PICK u \in job[r].users : IF Connected(u) THEN job' = [job EXCEPT ![r] = NoJob]
                                     ELSE Announce(r, u, {})
      BY <1>4 DEF DisconnectCheck
    <3> QED
      BY <1>j, <3>1, NoJobOK, ReplaceJob, AnnounceOK
  <2> QED
    BY <1>4, <2>1 DEF DisconnectCheck
<1>5. ASSUME NEW r \in Slots, Look(r)
      PROVE  Types'
  <2>1. PICK u \in job[r].telling :
          job' = [job EXCEPT ![r] = [job[r] EXCEPT !.pc = "announce:push", !.online = Online(u)]]
    BY <1>5 DEF Look, JobsOK, Job
  <2>2. Online(u) \in BOOLEAN
    BY DEF Online
  <2>3. \E v \in Users : job[r].telling = {v}
    BY <1>5, <1>j DEF Look, JobOK, JobAt
  <2>4. JobOK([job[r] EXCEPT !.pc = "announce:push", !.online = Online(u)])
    BY <1>j, <2>2, <2>3 DEF JobOK, Job, JobPc
  <2>5. JobsOK'
    BY <2>1, <2>4, ReplaceJob
  <2> QED
    BY <1>5, <2>5 DEF Look
<1>6. ASSUME NEW r \in Slots, Push(r)
      PROVE  Types'
  <2>1. JobsOK'
    BY <1>6, <1>j, ContinueOK, ReplaceJob DEF Push
  <2>2. shown' \in [Watchers -> SUBSET Users]
    BY <1>6, <1>j DEF Push
  <2> QED
    BY <1>6, <2>1, <2>2 DEF Push
<1>7. ASSUME NEW r \in Slots, Fail(r)
      PROVE  Types'
  <2>1. JobsOK'
    <3> DEFINE us == IF job[r].pc = "announce:push" THEN job[r].users ELSE {}
    <3>1. us \in SUBSET Users
      BY <1>j
    <3>2. job' = [job EXCEPT ![r] = Continue(r, us)]
      BY <1>7 DEF Fail
    <3> QED
      BY <3>1, <3>2, ContinueOK, ReplaceJob
  <2>2. About(r) \in SUBSET Users
    BY <1>j, OwnersOK DEF About
  <2>3. behind' \in [Watchers -> SUBSET Users]
    BY <1>7, <2>2, HistoryOK DEF Fail
  <2> QED
    BY <1>7, <1>j, <2>1, <2>3 DEF Fail
<1>8. ASSUME NEW r \in Handlers, NEW s \in Sockets, Connect(r, s)
      PROVE  Types'
  <2> DEFINE j == [NoJob EXCEPT !.pc = "connect:upsert", !.at = Home[s],
                                !.sockets = {s}, !.users = {Owner[s]}]
  <2>1. JobOK(j)
    BY DEF JobOK, Job, NoJob, JobPc
  <2>2. JobsOK'
    BY <1>8, <2>1, ReplaceJob DEF Connect, Slots
  <2> QED
    BY <1>8, <2>2 DEF Connect
<1>9. ASSUME NEW r \in Handlers, NEW s \in Sockets, Close(r, s)
      PROVE  Types'
  <2> DEFINE j == [NoJob EXCEPT !.pc = "disconnect:delete", !.at = Home[s],
                                !.sockets = {s}, !.users = {Owner[s]}]
  <2>1. JobOK(j)
    BY DEF JobOK, Job, NoJob, JobPc
  <2>2. JobsOK'
    BY <1>9, <2>1, ReplaceJob DEF Close, Slots
  <2> QED
    BY <1>9, <2>2 DEF Close
<1>10. ASSUME NEW r \in Handlers, NEW i \in Instances, NEW u \in Users, NEW hides \in BOOLEAN,
              SetAvailability(r, i, u, hides)
       PROVE  Types'
  <2>1. JobsOK'
    BY <1>10, AnnouncingOK, ReplaceJob DEF SetAvailability, Slots
  <2>2. behind' \in [Watchers -> SUBSET Users]
    BY <1>10, HistoryOK DEF SetAvailability
  <2> QED
    BY <1>10, <2>1, <2>2 DEF SetAvailability
<1>11. ASSUME NEW i \in Instances, Heartbeat(i)
       PROVE  Types'
  <2> DEFINE kept == {s \in HomedAt(i) : Vouched(s) /\ rows[s] = "stale"}
  <2>1. OwnersOf(kept) \in SUBSET Users
    BY OwnersOK DEF HomedAt
  <2>2. behind' \in [Watchers -> SUBSET Users]
    BY <1>11, <2>1, HistoryOK DEF Heartbeat
  <2> QED
    BY <1>11, <2>2 DEF Heartbeat, Row, JobsOK, JobOK
<1>12. ASSUME NEW i \in Instances, SweepFind(i)
       PROVE  Types'
  <2>1. JobOK([NoJob EXCEPT !.pc = "sweep:delete", !.at = i, !.sockets = StaleRows])
    BY DEF JobOK, Job, NoJob, JobPc, StaleRows
  <2>2. JobsOK'
    BY <1>12, <2>1, ReplaceJob DEF SweepFind, Slots
  <2> QED
    BY <1>12, <2>2 DEF SweepFind
<1>13. ASSUME NEW i \in Instances, SweepDelete(i)
       PROVE  Types'
  <2>1. OwnersOf(job[i].sockets) \in SUBSET Users
    BY <1>j, OwnersOK DEF Slots
  <2>2. JobOK([NoJob EXCEPT !.pc = "sweep:check", !.at = i, !.users = OwnersOf(job[i].sockets)])
    BY <2>1 DEF JobOK, Job, NoJob, JobPc
  <2>3. JobsOK'
    BY <1>13, <2>2, ReplaceJob DEF SweepDelete, Slots
  <2>4. behind' \in [Watchers -> SUBSET Users]
    BY <1>13, <2>1, HistoryOK DEF SweepDelete
  <2> QED
    BY <1>13, <2>3, <2>4 DEF SweepDelete, Row
<1>14. ASSUME NEW i \in Instances, SweepCheck(i)
       PROVE  Types'
  <2>0. i \in Slots
    BY DEF Slots
  <2>1. PICK u \in job[i].users :
          IF Connected(u) THEN job' = [job EXCEPT ![i] = Continue(i, job[i].users \ {u})]
          ELSE Announce(i, u, job[i].users \ {u})
    BY <1>14 DEF SweepCheck
  <2>2. u \in Users /\ job[i].users \ {u} \in SUBSET Users
    BY <2>0, <1>j
  <2>3. JobsOK'
    BY <2>0, <2>1, <2>2, ContinueOK, ReplaceJob, AnnounceOK
  <2> QED
    BY <1>14, <2>3 DEF SweepCheck
<1>15. ASSUME NEW i \in Instances, ModuleDestroy(i)
       PROVE  Types'
  <2>1. OwnersOf(HomedAt(i)) \in SUBSET Users
    BY OwnersOK DEF HomedAt
  <2>2. behind' \in [Watchers -> SUBSET Users]
    BY <1>15, <2>1, HistoryOK DEF ModuleDestroy
  <2> QED
    BY <1>15, <2>2 DEF ModuleDestroy, Row, HomedAt, JobsOK, JobOK
<1>16. ASSUME NEW i \in Instances, Crash(i)
       PROVE  Types'
  <2>1. JobsOK'
    BY <1>16, NoJobOK DEF Crash, JobsOK, JobOK
  <2> QED
    BY <1>16, <2>1 DEF Crash
<1>17. ASSUME NEW s \in Sockets, Age(s) \/ AgeUnexpectedly(s) \/ Expire(s)
       PROVE  Types'
  <2>0. {Owner[s]} \in SUBSET Users
    OBVIOUS
  <2>1. behind' \in [Watchers -> SUBSET Users]
    <3>1. CASE Age(s)
      BY <3>1 DEF Age
    <3>2. CASE AgeUnexpectedly(s) \/ Expire(s)
      BY <3>2, <2>0, HistoryOK DEF AgeUnexpectedly, Expire
    <3> QED
      BY <1>17, <3>1, <3>2
  <2> QED
    BY <1>17, <2>1 DEF Age, AgeUnexpectedly, Expire, Row, JobsOK, JobOK
<1>18. ASSUME NEW i \in Watchers, NEW u \in Users, Load(i, u)
       PROVE  Types'
  BY <1>18 DEF Load, JobsOK, JobOK
<1> QED
  BY <1>1, <1>2, <1>3, <1>4, <1>5, <1>6, <1>7, <1>8, <1>9, <1>10, <1>11, <1>12, <1>13, <1>14,
     <1>15, <1>16, <1>17, <1>18 DEF Next, Proceed

-----------------------------------------------------------------------------
(* Rows. *)

(* A step that only takes a job past its last write of a row. *)
LEMMA QuietStep ==
  ASSUME Types, RowsRight, NEW r \in Slots, NEW j, job' = [job EXCEPT ![r] = j],
         j.sockets \subseteq job[r].sockets,
         j.pc \notin {"connect:upsert", "disconnect:delete", "sweep:delete"},
         job[r].pc # "connect:upsert",
         UNCHANGED <<opened, open, local, rows, lapsed>>
  PROVE  RowsRight'
<1>1. \A q \in Slots : job'[q] = IF q = r THEN j ELSE job[q]
  BY DEF Types, JobsOK
<1>2. \A s \in Sockets : Unused(s)'
  BY <1>1 DEF RowsRight, Unused
<1>3. ConnectsOnce'
  BY <1>1 DEF RowsRight, ConnectsOnce, JobAt
<1>4. DeletesEnded' /\ SweepsLapsed'
  BY <1>1 DEF RowsRight, DeletesEnded, SweepsLapsed, JobAt
<1>5. \A s \in Sockets : Registering(s) => Registering(s)'
  BY <1>1 DEF Registering, JobAt
<1>6. OpenHasRow'
  BY <1>5 DEF RowsRight, OpenHasRow, Types
<1> QED
  BY <1>2, <1>3, <1>4, <1>6 DEF RowsRight

(* A step that takes rows away from sockets that are not open or have       *)
(* lapsed, or stales them, or refreshes stale ones.                         *)
LEMMA RowStep ==
  ASSUME Types, RowsRight, UNCHANGED <<opened, open, local, job>>,
         lapsed \subseteq lapsed',
         \A s \in Sockets : rows[s] = "none" => rows'[s] = "none",
         \A s \in open : rows[s] = "fresh" => rows'[s] = "fresh" \/ s \in lapsed'
  PROVE  RowsRight'
<1>1. \A s \in Sockets : Unused(s)'
  BY DEF RowsRight, Unused
<1>2. ConnectsOnce'
  BY DEF RowsRight, ConnectsOnce, JobAt
<1>3. DeletesEnded' /\ SweepsLapsed'
  BY DEF RowsRight, DeletesEnded, SweepsLapsed, JobAt
<1>4. OpenHasRow'
  BY DEF RowsRight, OpenHasRow, Registering, JobAt
<1> QED
  BY <1>1, <1>2, <1>3, <1>4 DEF RowsRight

(* A connect that has still to write finds no row, so an open socket whose  *)
(* row is stale has lapsed.                                                 *)
LEMMA StaleLapsed ==
  ASSUME Types, RowsRight, NEW s \in open, rows[s] = "stale"
  PROVE  s \in lapsed
<1>1. ~Registering(s)
  BY DEF RowsRight, ConnectsOnce, Registering
<1> QED
  BY <1>1 DEF RowsRight, OpenHasRow

(* Every step keeps the rows right. *)
LEMMA RowsStep ==
  ASSUME Types, RowsRight, [Next]_vars
  PROVE  RowsRight'
<1> USE PresenceAssumption
<1>0. job \in [Slots -> Job] /\ rows \in [Sockets -> Row] /\ open \subseteq opened
        /\ opened \subseteq Sockets
  BY DEF Types, JobsOK
<1>1. CASE UNCHANGED vars
  BY <1>1, RowStep DEF vars
<1>2. ASSUME NEW r \in Slots, ConnectUpsert(r)
      PROVE  RowsRight'
  <2>1. PICK s \in Sockets : /\ job[r].sockets = {s}
                             /\ \A q \in Slots : JobAt(q, "connect:upsert") /\ s \in job[q].sockets
                                                  => q = r
    BY <1>2 DEF ConnectUpsert, RowsRight, ConnectsOnce
  <2>2. rows' = [rows EXCEPT ![s] = "fresh"] /\ Announce(r, Owner[s], {})
    BY <1>2, <2>1 DEF ConnectUpsert
  <2>3. \A q \in Slots : /\ q # r => job'[q] = job[q]
                         /\ job'[r].pc = "announce:read" /\ job'[r].sockets = {}
    BY <1>0, <2>2 DEF Announce, Announcing, NoJob
  <2>4. JobAt(r, "connect:upsert") /\ UNCHANGED <<opened, open, local, lapsed>>
    BY <1>2 DEF ConnectUpsert
  <2>5. s \in opened
    BY <2>1 DEF RowsRight, Unused
  <2>6. \A x \in Sockets : Unused(x)'
    BY <1>0, <2>2, <2>3, <2>4, <2>5 DEF RowsRight, Unused
  <2>7. ConnectsOnce'
    <3> SUFFICES ASSUME NEW q \in Slots, JobAt(q, "connect:upsert")'
                 PROVE  \E x \in Sockets :
                          /\ job'[q].sockets = {x} /\ job'[q].at = Home[x] /\ rows'[x] = "none"
                          /\ \A p \in Slots : JobAt(p, "connect:upsert")' /\ x \in job'[p].sockets
                                                 => p = q
      BY DEF ConnectsOnce
    <3>1. q # r /\ job'[q] = job[q] /\ JobAt(q, "connect:upsert")
      BY <2>3 DEF JobAt
    <3>2. PICK x \in Sockets :
            /\ job[q].sockets = {x} /\ job[q].at = Home[x] /\ rows[x] = "none"
            /\ \A p \in Slots : JobAt(p, "connect:upsert") /\ x \in job[p].sockets => p = q
      BY <3>1 DEF RowsRight, ConnectsOnce
    <3>3. x # s
      BY <2>1, <3>1, <3>2
    <3> QED
      BY <1>0, <2>2, <2>3, <3>1, <3>2, <3>3 DEF JobAt
  <2>8. DeletesEnded' /\ SweepsLapsed'
    BY <2>3, <2>4 DEF RowsRight, DeletesEnded, SweepsLapsed, JobAt
  <2>9. \A x \in Sockets : x # s /\ Registering(x) => Registering(x)'
    BY <2>1, <2>3 DEF Registering, JobAt
  <2>10. OpenHasRow'
    BY <1>0, <2>2, <2>4, <2>9 DEF RowsRight, OpenHasRow
  <2> QED
    BY <2>4, <2>6, <2>7, <2>8, <2>10 DEF RowsRight
<1>3. ASSUME NEW r \in Slots, DisconnectDelete(r)
      PROVE  RowsRight'
  <2>1. JobAt(r, "disconnect:delete") /\ UNCHANGED <<opened, open, local, lapsed>>
    BY <1>3 DEF DisconnectDelete
  <2>2. \A q \in Slots : /\ q # r => job'[q] = job[q]
                         /\ job'[r].pc = "disconnect:check" /\ job'[r].sockets = job[r].sockets
    BY <1>0, <1>3 DEF DisconnectDelete, Job
  <2>3. \A s \in Sockets : rows'[s] = IF s \in job[r].sockets THEN "none" ELSE rows[s]
    BY <1>3 DEF DisconnectDelete
  <2>4. job[r].sockets \cap open = {}
    BY <2>1 DEF RowsRight, DeletesEnded
  <2>5. \A s \in Sockets : Unused(s)'
    BY <2>1, <2>2, <2>3 DEF RowsRight, Unused
  <2>6. ConnectsOnce'
    BY <2>1, <2>2, <2>3 DEF RowsRight, ConnectsOnce, JobAt
  <2>7. DeletesEnded' /\ SweepsLapsed'
    BY <2>1, <2>2 DEF RowsRight, DeletesEnded, SweepsLapsed, JobAt
  <2>8. \A s \in Sockets : Registering(s) => Registering(s)'
    BY <2>1, <2>2 DEF Registering, JobAt
  <2>9. OpenHasRow'
    BY <1>0, <2>1, <2>3, <2>4, <2>8 DEF RowsRight, OpenHasRow
  <2> QED
    BY <2>1, <2>5, <2>6, <2>7, <2>9 DEF RowsRight
<1>4. ASSUME NEW r \in Slots, DisconnectCheck(r)
      PROVE  RowsRight'
  <2>1. PICK u \in job[r].users : IF Connected(u) THEN job' = [job EXCEPT ![r] = NoJob]
                                   ELSE Announce(r, u, {})
    BY <1>4 DEF DisconnectCheck
  <2> DEFINE telling == Announcing(job[r].at, u, {})
  <2>2. /\ NoJob.sockets = {} /\ NoJob.pc = "idle"
        /\ telling.sockets = {} /\ telling.pc = "announce:read"
    BY DEF Announcing, NoJob
  <2>3. job' = [job EXCEPT ![r] = NoJob] \/ job' = [job EXCEPT ![r] = telling]
    BY <2>1 DEF Announce
  <2> QED
    BY <1>4, <2>2, <2>3, QuietStep DEF DisconnectCheck, JobAt
<1>5. ASSUME NEW r \in Slots, Look(r)
      PROVE  RowsRight'
  <2>1. PICK u \in job[r].telling :
          job' = [job EXCEPT ![r] = [job[r] EXCEPT !.pc = "announce:push", !.online = Online(u)]]
    BY <1>5, <1>0 DEF Look, Job
  <2> DEFINE j == [job[r] EXCEPT !.pc = "announce:push", !.online = Online(u)]
  <2>2. j.sockets = job[r].sockets /\ j.pc = "announce:push"
    BY <1>0 DEF Job
  <2> QED
    BY <1>5, <2>1, <2>2, QuietStep DEF Look, JobAt
<1>6. ASSUME NEW r \in Slots, Push(r)
      PROVE  RowsRight'
  <2>1. /\ Continue(r, job[r].users).sockets = {}
        /\ Continue(r, job[r].users).pc \in {"idle", "sweep:check"}
    BY DEF Continue, NoJob
  <2> QED
    BY <1>6, <2>1, QuietStep DEF Push, JobAt
<1>7. ASSUME NEW r \in Slots, Fail(r)
      PROVE  RowsRight'
  <2> DEFINE us == IF job[r].pc = "announce:push" THEN job[r].users ELSE {}
  <2>1. Continue(r, us).sockets = {} /\ Continue(r, us).pc \in {"idle", "sweep:check"}
    BY DEF Continue, NoJob
  <2>2. \A q \in Slots : job'[q] = IF q = r THEN Continue(r, us) ELSE job[q]
    BY <1>0, <1>7 DEF Fail
  <2>3. /\ UNCHANGED <<opened, open, local, rows>>
        /\ lapsed' = IF job[r].pc = "connect:upsert"
                     THEN lapsed \cup (job[r].sockets \cap open) ELSE lapsed
    BY <1>7 DEF Fail
  <2>4. \A s \in Sockets : Unused(s)'
    BY <2>1, <2>2, <2>3 DEF RowsRight, Unused
  <2>5. ConnectsOnce'
    BY <2>1, <2>2, <2>3 DEF RowsRight, ConnectsOnce, JobAt
  <2>6. DeletesEnded' /\ SweepsLapsed'
    BY <2>1, <2>2, <2>3 DEF RowsRight, DeletesEnded, SweepsLapsed, JobAt
  <2>7. \A s \in open : Registering(s) => Registering(s)' \/ s \in lapsed'
    BY <2>2, <2>3 DEF Registering, JobAt
  <2>8. OpenHasRow'
    BY <2>3, <2>7 DEF RowsRight, OpenHasRow
  <2> QED
    BY <2>3, <2>4, <2>5, <2>6, <2>8 DEF RowsRight
<1>8. ASSUME NEW r \in Handlers, NEW s \in Sockets, Connect(r, s)
      PROVE  RowsRight'
  <2>1. /\ job[r].pc = "idle" /\ s \notin opened
        /\ opened' = opened \cup {s} /\ open' = open \cup {s} /\ local' = local \cup {s}
        /\ UNCHANGED <<rows, lapsed>>
    BY <1>8 DEF Connect, Idle
  <2>2. \A q \in Slots : /\ q # r => job'[q] = job[q]
                         /\ job'[r].pc = "connect:upsert" /\ job'[r].sockets = {s}
                         /\ job'[r].at = Home[s]
    BY <1>0, <1>8 DEF Connect, NoJob, Slots
  <2>3. r \in Slots /\ rows[s] = "none" /\ \A q \in Slots : s \notin job[q].sockets
    BY <2>1 DEF RowsRight, Unused, Slots
  <2>4. \A x \in Sockets : Unused(x)'
    BY <2>1, <2>2 DEF RowsRight, Unused
  <2>5. ConnectsOnce'
    <3> SUFFICES ASSUME NEW q \in Slots, JobAt(q, "connect:upsert")'
                 PROVE  \E x \in Sockets :
                          /\ job'[q].sockets = {x} /\ job'[q].at = Home[x] /\ rows'[x] = "none"
                          /\ \A p \in Slots : JobAt(p, "connect:upsert")' /\ x \in job'[p].sockets
                                                 => p = q
      BY DEF ConnectsOnce
    <3>1. CASE q = r
      BY <2>1, <2>2, <2>3, <3>1
    <3>2. CASE q # r
      <4>1. JobAt(q, "connect:upsert") /\ job'[q] = job[q]
        BY <2>2, <3>2 DEF JobAt
      <4>2. PICK x \in Sockets :
              /\ job[q].sockets = {x} /\ job[q].at = Home[x] /\ rows[x] = "none"
              /\ \A p \in Slots : JobAt(p, "connect:upsert") /\ x \in job[p].sockets => p = q
        BY <4>1 DEF RowsRight, ConnectsOnce
      <4>3. x # s
        BY <2>3, <4>2
      <4> QED
        BY <2>1, <2>2, <4>1, <4>2, <4>3 DEF JobAt
    <3> QED
      BY <3>1, <3>2
  <2>6. DeletesEnded' /\ SweepsLapsed'
    BY <2>1, <2>2, <2>3 DEF RowsRight, DeletesEnded, SweepsLapsed, JobAt
  <2>7. \A x \in Sockets : Registering(x) \/ x = s => Registering(x)'
    BY <2>1, <2>2, <2>3 DEF Registering, JobAt
  <2>8. OpenHasRow'
    BY <1>0, <2>1, <2>7 DEF RowsRight, OpenHasRow
  <2> QED
    BY <2>1, <2>4, <2>5, <2>6, <2>8 DEF RowsRight
<1>9. ASSUME NEW r \in Handlers, NEW s \in Sockets, Close(r, s)
      PROVE  RowsRight'
  <2>1. /\ job[r].pc = "idle" /\ s \in open
        /\ open' = open \ {s} /\ local' = local \ {s} /\ lapsed' = lapsed \ {s}
        /\ UNCHANGED <<opened, rows>>
    BY <1>9 DEF Close, Idle
  <2>2. \A q \in Slots : /\ q # r => job'[q] = job[q]
                         /\ job'[r].pc = "disconnect:delete" /\ job'[r].sockets = {s}
    BY <1>0, <1>9 DEF Close, NoJob, Slots
  <2>3. r \in Slots
    BY DEF Slots
  <2>4. \A x \in Sockets : Unused(x)'
    BY <1>0, <2>1, <2>2 DEF RowsRight, Unused
  <2>5. ConnectsOnce'
    BY <2>1, <2>2, <2>3 DEF RowsRight, ConnectsOnce, JobAt
  <2>6. DeletesEnded' /\ SweepsLapsed'
    BY <2>1, <2>2, <2>3 DEF RowsRight, DeletesEnded, SweepsLapsed, JobAt
  <2>7. \A x \in Sockets : Registering(x) => Registering(x)'
    BY <2>1, <2>2, <2>3 DEF Registering, JobAt
  <2>8. OpenHasRow'
    BY <1>0, <2>1, <2>7 DEF RowsRight, OpenHasRow
  <2> QED
    BY <2>1, <2>4, <2>5, <2>6, <2>8 DEF RowsRight
<1>10. ASSUME NEW r \in Handlers, NEW i \in Instances, NEW u \in Users, NEW hides \in BOOLEAN,
              SetAvailability(r, i, u, hides)
       PROVE  RowsRight'
  <2>1. Announcing(i, u, {}).sockets = {} /\ Announcing(i, u, {}).pc = "announce:read"
    BY DEF Announcing, NoJob
  <2> QED
    BY <1>10, <2>1, QuietStep DEF SetAvailability, Idle, Slots
<1>11. ASSUME NEW i \in Instances, Heartbeat(i)
       PROVE  RowsRight'
  BY <1>0, <1>11, RowStep DEF Heartbeat
<1>12. ASSUME NEW i \in Instances, SweepFind(i)
       PROVE  RowsRight'
  <2>1. \A q \in Slots : /\ q # i => job'[q] = job[q]
                         /\ job'[i].pc = "sweep:delete" /\ job'[i].sockets = StaleRows
    BY <1>0, <1>12 DEF SweepFind, NoJob, Slots
  <2>2. i \in Slots /\ job[i].pc = "idle" /\ UNCHANGED <<opened, open, local, rows, lapsed>>
    BY <1>12 DEF SweepFind, Idle, Slots
  <2>3. StaleRows \cap open \subseteq lapsed
    BY StaleLapsed DEF StaleRows
  <2>4. \A s \in Sockets : Unused(s)'
    BY <2>1, <2>2 DEF RowsRight, Unused, StaleRows
  <2>5. ConnectsOnce'
    BY <2>1, <2>2 DEF RowsRight, ConnectsOnce, JobAt
  <2>6. DeletesEnded' /\ SweepsLapsed'
    BY <2>1, <2>2, <2>3 DEF RowsRight, DeletesEnded, SweepsLapsed, JobAt
  <2>7. \A s \in Sockets : Registering(s) => Registering(s)'
    BY <2>1, <2>2 DEF Registering, JobAt
  <2>8. OpenHasRow'
    BY <1>0, <2>2, <2>7 DEF RowsRight, OpenHasRow
  <2> QED
    BY <2>2, <2>4, <2>5, <2>6, <2>8 DEF RowsRight
<1>13. ASSUME NEW i \in Instances, SweepDelete(i)
       PROVE  RowsRight'
  <2>1. /\ JobAt(i, "sweep:delete") /\ UNCHANGED <<opened, open, local, lapsed>>
        /\ \A s \in Sockets : rows'[s] = IF s \in job[i].sockets THEN "none" ELSE rows[s]
    BY <1>13 DEF SweepDelete
  <2>2. \A q \in Slots : /\ q # i => job'[q] = job[q]
                         /\ job'[i].pc = "sweep:check" /\ job'[i].sockets = {}
    BY <1>0, <1>13 DEF SweepDelete, NoJob, Slots
  <2>3. i \in Slots /\ job[i].sockets \cap open \subseteq lapsed
    BY <2>1 DEF RowsRight, SweepsLapsed, Slots
  <2>4. \A s \in Sockets : Unused(s)'
    BY <2>1, <2>2 DEF RowsRight, Unused
  <2>5. ConnectsOnce'
    BY <2>1, <2>2 DEF RowsRight, ConnectsOnce, JobAt
  <2>6. DeletesEnded' /\ SweepsLapsed'
    BY <2>1, <2>2 DEF RowsRight, DeletesEnded, SweepsLapsed, JobAt
  <2>7. \A s \in Sockets : Registering(s) => Registering(s)'
    BY <2>1, <2>2 DEF Registering, JobAt
  <2>8. OpenHasRow'
    BY <1>0, <2>1, <2>3, <2>7 DEF RowsRight, OpenHasRow
  <2> QED
    BY <2>1, <2>4, <2>5, <2>6, <2>8 DEF RowsRight
<1>14. ASSUME NEW i \in Instances, SweepCheck(i)
       PROVE  RowsRight'
  <2>1. PICK u \in job[i].users :
          IF Connected(u) THEN job' = [job EXCEPT ![i] = Continue(i, job[i].users \ {u})]
          ELSE Announce(i, u, job[i].users \ {u})
    BY <1>14 DEF SweepCheck
  <2> DEFINE rest == job[i].users \ {u}
             going == Continue(i, rest)
             telling == Announcing(job[i].at, u, rest)
  <2>2. /\ going.sockets = {} /\ going.pc \in {"idle", "sweep:check"}
        /\ telling.sockets = {} /\ telling.pc = "announce:read"
    BY DEF Announcing, Continue, NoJob
  <2>3. job' = [job EXCEPT ![i] = going] \/ job' = [job EXCEPT ![i] = telling]
    BY <2>1 DEF Announce
  <2> HIDE DEF going, telling
  <2> QED
    BY <1>14, <2>2, <2>3, QuietStep DEF SweepCheck, JobAt, Slots
<1>15. ASSUME NEW i \in Instances, ModuleDestroy(i)
       PROVE  RowsRight'
  BY <1>0, <1>15, RowStep DEF ModuleDestroy
<1>16. ASSUME NEW i \in Instances, Crash(i)
       PROVE  RowsRight'
  <2>1. /\ open' = open \ HomedAt(i) /\ local' = local \ HomedAt(i)
        /\ lapsed' = lapsed \ HomedAt(i) /\ UNCHANGED <<opened, rows>>
        /\ \A q \in Slots : job'[q] = IF job[q].at = i THEN NoJob ELSE job[q]
    BY <1>16 DEF Crash
  <2>2. NoJob.pc = "idle" /\ NoJob.sockets = {}
    BY DEF NoJob
  <2>3. \A s \in Sockets : Unused(s)'
    BY <1>0, <2>1, <2>2 DEF RowsRight, Unused
  <2>4. ConnectsOnce'
    BY <2>1, <2>2 DEF RowsRight, ConnectsOnce, JobAt
  <2>5. DeletesEnded' /\ SweepsLapsed'
    BY <2>1, <2>2 DEF RowsRight, DeletesEnded, SweepsLapsed, JobAt
  <2>6. \A s \in open' : Registering(s) => Registering(s)'
    <3> SUFFICES ASSUME NEW s \in open', NEW r \in Slots,
                        JobAt(r, "connect:upsert"), s \in job[r].sockets
                 PROVE  JobAt(r, "connect:upsert")' /\ s \in job'[r].sockets
      BY DEF Registering
    <3>1. job[r].at = Home[s]
      BY DEF RowsRight, ConnectsOnce
    <3>2. Home[s] # i
      BY <1>0, <2>1 DEF HomedAt
    <3> QED
      BY <2>1, <3>1, <3>2 DEF JobAt
  <2>7. OpenHasRow'
    BY <1>0, <2>1, <2>6 DEF RowsRight, OpenHasRow
  <2> QED
    BY <2>1, <2>3, <2>4, <2>5, <2>7 DEF RowsRight
<1>17. ASSUME NEW s \in Sockets, Age(s) \/ AgeUnexpectedly(s) \/ Expire(s)
       PROVE  RowsRight'
  <2>1. CASE Age(s)
    <3>1. s \notin open
      BY <2>1 DEF Age, Vouched, RowsRight
    <3> QED
      BY <1>0, <2>1, <3>1, RowStep DEF Age
  <2>2. CASE AgeUnexpectedly(s)
    BY <1>0, <2>2, RowStep DEF AgeUnexpectedly
  <2>3. CASE Expire(s)
    BY <1>0, <2>3, RowStep DEF Expire
  <2> QED
    BY <1>17, <2>1, <2>2, <2>3
<1>18. ASSUME NEW i \in Watchers, NEW u \in Users, Load(i, u)
       PROVE  RowsRight'
  BY <1>18, RowStep DEF Load
<1> QED
  BY <1>1, <1>2, <1>3, <1>4, <1>5, <1>6, <1>7, <1>8, <1>9, <1>10, <1>11, <1>12, <1>13, <1>14,
     <1>15, <1>16, <1>17, <1>18 DEF Next, Proceed

-----------------------------------------------------------------------------
(* The invariant holds in every state. *)
THEOREM InvariantHolds == Spec => []IInv
<1>1. Init => IInv
  <2> SUFFICES ASSUME Init PROVE IInv
    OBVIOUS
  <2>1. JobsOK
    BY NoJobOK DEF Init, JobsOK, JobOK
  <2>2. TypeOK
    BY <2>1, TypeOKTypes DEF Init, Types, Row
  <2>3. RowsRight
    BY DEF Init, RowsRight, Unused, ConnectsOnce, DeletesEnded, SweepsLapsed, OpenHasRow, JobAt,
           NoJob
  <2> QED
    BY <2>2, <2>3 DEF IInv
<1>2. IInv /\ [Next]_vars => IInv'
  <2> SUFFICES ASSUME IInv, [Next]_vars PROVE IInv'
    OBVIOUS
  <2>1. Types
    BY TypeOKTypes DEF IInv
  <2>2. Types' /\ RowsRight'
    BY <2>1, TypeStep, RowsStep DEF IInv
  <2>3. TypeOK'
    BY <2>2 DEF Types, TypeOK, JobsOK, JobOK, JobAt
  <2> QED
    BY <2>2, <2>3 DEF IInv
<1> QED
  BY <1>1, <1>2, PTL DEF Spec

(* Every variable keeps its type. *)
THEOREM TypeCorrect == Spec => []TypeOK
<1>1. IInv => TypeOK
  BY DEF IInv
<1> QED
  BY <1>1, InvariantHolds, PTL

(* A device that stays connected keeps its row fresh unless a failure has   *)
(* cost it the row, for any number of processes, devices and people.        *)
THEOREM OpenRowsCorrect == Spec => []OpenHasRow
<1>1. IInv => OpenHasRow
  BY DEF IInv, RowsRight
<1> QED
  BY <1>1, InvariantHolds, PTL

-----------------------------------------------------------------------------
(* What the clients are shown.                                              *)

(* A disconnect is about the owner of its one socket. *)
DisconnectsOne ==
  \A r \in Slots : job[r].pc \in {"disconnect:delete", "disconnect:check"} =>
    \E s \in Sockets : job[r].sockets = {s} /\ job[r].users = {Owner[s]}

(* Process i is about to say how it is with u. *)
Telling(i, u) ==
  \E r \in Slots : /\ job[r].at = i /\ u \in job[r].telling
                   /\ job[r].pc \in {"announce:read", "announce:push"}

(* It is about to find out that u is no longer connected. *)
Finding(i, u) ==
  /\ ~Connected(u)
  /\ \/ \E s \in SocketsOf(u) : rows[s] = "stale"
     \/ \E r \in Slots :
          /\ job[r].at = i /\ u \in job[r].users
          /\ job[r].pc \in {"disconnect:check", "sweep:check", "announce:read", "announce:push"}

(* An announcement that has not been overtaken says how it is. *)
PushesRight(i, u) ==
  \A r \in Slots : /\ job[r].at = i /\ u \in job[r].telling
                   /\ job[r].pc = "announce:push"
                   => job[r].online = Online(u)

ShowsRight(i, u) == u \in shown[i] <=> Online(u)

Told(i, u) == PushesRight(i, u) /\ (ShowsRight(i, u) \/ Telling(i, u) \/ Finding(i, u))

EveryoneTold ==
  \A i \in up \cap Watchers, u \in Users : u \notin behind[i] => Told(i, u)

ShownInv == TypeOK /\ DisconnectsOne /\ EveryoneTold

(* A disconnect stays about that one user. *)
LEMMA DisconnectsOneStep ==
  ASSUME Types, DisconnectsOne, [Next]_vars
  PROVE  DisconnectsOne'
<1> DEFINE One(j) == j.pc \in {"disconnect:delete", "disconnect:check"} =>
                       \E s \in Sockets : j.sockets = {s} /\ j.users = {Owner[s]}
<1>0. job \in [Slots -> Job] /\ \A r \in Slots : One(job[r])
  BY DEF Types, JobsOK, DisconnectsOne
<1>1. ASSUME NEW r \in Slots, NEW j, job' = [job EXCEPT ![r] = j], One(j)
      PROVE  DisconnectsOne'
  BY <1>0, <1>1 DEF DisconnectsOne
<1>2. CASE job' = job
  BY <1>2 DEF DisconnectsOne
<1>3. /\ One(NoJob)
      /\ \A r, us : One(Continue(r, us))
      /\ \A i, u, us : One(Announcing(i, u, us))
  <2>1. ASSUME NEW r, NEW us PROVE Continue(r, us).pc \in {"idle", "sweep:check"}
    BY DEF NoJob, Continue
  <2>2. ASSUME NEW i, NEW u, NEW us PROVE Announcing(i, u, us).pc = "announce:read"
    BY DEF NoJob, Announcing
  <2>3. NoJob.pc = "idle"
    BY DEF NoJob
  <2>4. ASSUME NEW j, j.pc \in {"idle", "sweep:check", "announce:read"} PROVE One(j)
    BY <2>4
  <2> HIDE DEF One
  <2>5. ASSUME NEW r, NEW us PROVE One(Continue(r, us))
    BY <2>1, <2>4
  <2>6. ASSUME NEW i, NEW u, NEW us PROVE One(Announcing(i, u, us))
    BY <2>2, <2>4
  <2> QED
    BY <2>3, <2>4, <2>5, <2>6
<1>4. ASSUME NEW r \in Slots, NEW u, NEW us, Announce(r, u, us)
      PROVE  DisconnectsOne'
  <2>1. One(Announcing(job[r].at, u, us))
    BY <1>3
  <2> QED
    BY <1>1, <1>4, <2>1 DEF Announce
<1>5. ASSUME NEW r \in Slots, DisconnectDelete(r) PROVE DisconnectsOne'
  <2>1. One([job[r] EXCEPT !.pc = "disconnect:check"])
    BY <1>0, <1>5 DEF DisconnectDelete, JobAt, Job
  <2> QED
    BY <1>0, <1>1, <1>5, <2>1 DEF DisconnectDelete
<1>6. ASSUME NEW r \in Slots, Look(r) PROVE DisconnectsOne'
  <2>1. PICK u \in job[r].telling :
          job' = [job EXCEPT ![r] = [job[r] EXCEPT !.pc = "announce:push", !.online = Online(u)]]
    BY <1>0, <1>6 DEF Look, Job
  <2>2. One([job[r] EXCEPT !.pc = "announce:push", !.online = Online(u)])
    BY <1>0 DEF Job
  <2> QED
    BY <1>1, <2>1, <2>2
<1>7. ASSUME NEW r \in Handlers, NEW s \in Sockets, Connect(r, s) \/ Close(r, s)
      PROVE  DisconnectsOne'
  <2> DEFINE connect == [NoJob EXCEPT !.pc = "connect:upsert", !.at = Home[s],
                                      !.sockets = {s}, !.users = {Owner[s]}]
             close == [NoJob EXCEPT !.pc = "disconnect:delete", !.at = Home[s],
                                    !.sockets = {s}, !.users = {Owner[s]}]
  <2>1. One(connect) /\ One(close)
    BY DEF NoJob
  <2>2. job' = [job EXCEPT ![r] = connect] \/ job' = [job EXCEPT ![r] = close]
    BY <1>7 DEF Connect, Close
  <2> HIDE DEF connect, close, One
  <2> QED
    BY <1>1, <2>1, <2>2 DEF Slots
<1>8. ASSUME NEW r \in Slots,
             ConnectUpsert(r) \/ DisconnectCheck(r) \/ Push(r) \/ Fail(r)
      PROVE  DisconnectsOne'
  <2>1. CASE ConnectUpsert(r)
    BY <1>4, <2>1 DEF ConnectUpsert
  <2>2. CASE DisconnectCheck(r)
    BY <1>1, <1>3, <1>4, <2>2 DEF DisconnectCheck
  <2>3. CASE Push(r) \/ Fail(r)
    BY <1>1, <1>3, <2>3 DEF Push, Fail
  <2> QED
    BY <1>8, <2>1, <2>2, <2>3
<1>9. ASSUME NEW i \in Instances, SweepFind(i) \/ SweepDelete(i) \/ SweepCheck(i) \/ Crash(i)
      PROVE  DisconnectsOne'
  <2>0. i \in Slots
    BY DEF Slots
  <2>1. CASE SweepFind(i)
    <3>1. One([NoJob EXCEPT !.pc = "sweep:delete", !.at = i, !.sockets = StaleRows])
      BY DEF NoJob
    <3> QED
      BY <1>1, <2>0, <2>1, <3>1 DEF SweepFind
  <2>2. CASE SweepDelete(i)
    <3>1. One([NoJob EXCEPT !.pc = "sweep:check", !.at = i, !.users = OwnersOf(job[i].sockets)])
      BY DEF NoJob
    <3> QED
      BY <1>1, <2>0, <2>2, <3>1 DEF SweepDelete
  <2>3. CASE SweepCheck(i)
    BY <1>1, <1>3, <1>4, <2>0, <2>3 DEF SweepCheck
  <2>4. CASE Crash(i)
    BY <1>0, <1>3, <2>4 DEF Crash, DisconnectsOne
  <2> QED
    BY <1>9, <2>1, <2>2, <2>3, <2>4
<1>10. ASSUME NEW r \in Handlers, NEW i \in Instances, NEW u \in Users, NEW hides \in BOOLEAN,
              SetAvailability(r, i, u, hides)
       PROVE  DisconnectsOne'
  <2>1. r \in Slots /\ job' = [job EXCEPT ![r] = Announcing(i, u, {})]
    BY <1>10 DEF SetAvailability, Slots
  <2> HIDE DEF One
  <2> QED
    BY <1>1, <1>3, <2>1
<1>11. CASE \/ UNCHANGED vars
            \/ \E i \in Instances : Heartbeat(i) \/ ModuleDestroy(i)
            \/ \E s \in Sockets : Age(s) \/ AgeUnexpectedly(s) \/ Expire(s)
            \/ \E i \in Watchers, u \in Users : Load(i, u)
  BY <1>2, <1>11 DEF vars, Heartbeat, ModuleDestroy, Age, AgeUnexpectedly, Expire, Load
<1> QED
  BY <1>5, <1>6, <1>7, <1>8, <1>9, <1>10, <1>11 DEF Next, Proceed

(* A step that changes nothing that is stored about u, and takes job r on.  *)
LEMMA ToldByJob ==
  ASSUME Types, NEW i \in Watchers, NEW u \in Users, Told(i, u),
         NEW r \in Slots, NEW j, job' = [job EXCEPT ![r] = j],
         UNCHANGED <<Online(u), Connected(u), u \in shown[i]>>,
         j.at = i /\ u \in j.telling /\ j.pc = "announce:push" => j.online = Online(u),
         job[r].at = i /\ u \in job[r].telling /\ job[r].pc \in {"announce:read", "announce:push"}
           => j.at = i /\ u \in j.telling /\ j.pc \in {"announce:read", "announce:push"},
         Finding(i, u) => Finding(i, u)' \/ Telling(i, u)'
  PROVE  Told(i, u)'
<1>1. \A q \in Slots : job'[q] = IF q = r THEN j ELSE job[q]
  BY DEF Types, JobsOK
<1>2. PushesRight(i, u)'
  BY <1>1 DEF Told, PushesRight
<1>3. Telling(i, u) => Telling(i, u)'
  BY <1>1 DEF Telling
<1>4. ShowsRight(i, u) => ShowsRight(i, u)'
  BY DEF ShowsRight
<1> QED
  BY <1>2, <1>3, <1>4 DEF Told

(* A finding survives if no stale row goes and the job keeps u.             *)
LEMMA FindingByJob ==
  ASSUME Types, NEW i \in Watchers, NEW u \in Users, Finding(i, u),
         NEW r \in Slots, NEW j, job' = [job EXCEPT ![r] = j],
         UNCHANGED Connected(u),
         \A s \in SocketsOf(u) : rows[s] = "stale" => rows'[s] = "stale",
         /\ job[r].at = i /\ u \in job[r].users
         /\ job[r].pc \in {"disconnect:check", "sweep:check", "announce:read", "announce:push"}
         => /\ j.at = i /\ u \in j.users
            /\ j.pc \in {"disconnect:check", "sweep:check", "announce:read", "announce:push"}
  PROVE  Finding(i, u)'
<1>1. \A q \in Slots : job'[q] = IF q = r THEN j ELSE job[q]
  BY DEF Types, JobsOK
<1> QED
  BY <1>1 DEF Finding, SocketsOf

(* A step that changes what is stored about u, at process i itself and with *)
(* no announcement about u on its way: it must tell, or find, or leave u    *)
(* connected as before.                                                     *)
LEMMA ToldByChange ==
  ASSUME Types, NEW i \in Watchers, NEW u \in Users, Told(i, u), Looked(u) = {},
         NEW r \in Slots, NEW j, job' = [job EXCEPT ![r] = j],
         j.pc # "announce:push",
         \/ Telling(i, u)'
         \/ Finding(i, u)'
         \/ /\ Connected(u) /\ UNCHANGED <<Online(u), u \in shown[i]>>
            /\ job[r].pc \notin {"announce:read", "announce:push"}
  PROVE  Told(i, u)'
<1>1. \A q \in Slots : job'[q] = IF q = r THEN j ELSE job[q]
  BY DEF Types, JobsOK
<1>2. PushesRight(i, u)'
  BY <1>1 DEF PushesRight, Looked, JobAt
<1>3. CASE Telling(i, u)' \/ Finding(i, u)'
  BY <1>2, <1>3 DEF Told
<1>4. CASE /\ Connected(u) /\ UNCHANGED <<Online(u), u \in shown[i]>>
           /\ job[r].pc \notin {"announce:read", "announce:push"}
  <2>1. ShowsRight(i, u) \/ Telling(i, u)
    BY <1>4 DEF Told, Finding
  <2>2. Telling(i, u) => Telling(i, u)'
    BY <1>1, <1>4 DEF Telling
  <2>3. ShowsRight(i, u) => ShowsRight(i, u)'
    BY <1>4 DEF ShowsRight
  <2> QED
    BY <1>2, <2>1, <2>2, <2>3 DEF Told
<1> QED
  BY <1>3, <1>4

(* A step that leaves everybody's jobs, and what is stored about u, alone.  *)
LEMMA ToldUndisturbed ==
  ASSUME NEW i, NEW u, Told(i, u), UNCHANGED <<job, hidden, u \in shown[i]>>,
         \A s \in SocketsOf(u) : rows'[s] = rows[s]
  PROVE  Told(i, u)'
<1>1. UNCHANGED <<Connected(u), Online(u)>>
  BY DEF Connected, Online, SocketsOf
<1>2. Finding(i, u) => Finding(i, u)'
  BY <1>1 DEF Finding, SocketsOf
<1> QED
  BY <1>1, <1>2 DEF Told, PushesRight, ShowsRight, Telling

(* What the rows of others are does not matter to u. *)
LEMMA OthersRows ==
  ASSUME NEW u, \A s \in SocketsOf(u) : rows'[s] = rows[s], u \in hidden' <=> u \in hidden
  PROVE  UNCHANGED <<Connected(u), Online(u)>>
  BY DEF Connected, Online, SocketsOf

(* Who is not behind after a change was not behind before, and nothing      *)
(* about them was changed elsewhere or while it was being told.             *)
LEMMA NotBehindChanged ==
  ASSUME NEW i \in Watchers, NEW u, NEW k, NEW us, ChangedAt(k, us), u \notin behind'[i]
  PROVE  u \notin behind[i] /\ (u \in us => k = i /\ Looked(u) = {})
<1>1. u \notin behind[i] /\ u \notin IF i = k THEN {v \in us : Looked(v) # {}} ELSE us
  BY DEF ChangedAt
<1> QED
  BY <1>1

(* The same for what is changed without anybody being told. *)
LEMMA NotBehindEverywhere ==
  ASSUME NEW i \in Watchers, NEW u, NEW us, behind' = Everywhere(us), u \notin behind'[i]
  PROVE  u \notin behind[i] /\ u \notin us
  BY DEF Everywhere

(* Every step keeps the clients of i right about u, or about to be told.    *)
LEMMA ToldStep ==
  ASSUME Types, Types', DisconnectsOne, [Next]_vars,
         NEW i \in Watchers, NEW u \in Users,
         i \in up /\ u \notin behind[i] => Told(i, u),
         i \in up', u \notin behind'[i]
  PROVE  Told(i, u)'
<1> USE PresenceAssumption
<1>0. /\ job \in [Slots -> Job] /\ rows \in [Sockets -> Row]
      /\ shown \in [Watchers -> SUBSET Users] /\ behind \in [Watchers -> SUBSET Users]
      /\ \A r \in Slots : job[r].pc \in {"announce:read", "announce:push"}
                            => \E v \in Users : job[r].telling = {v}
  BY DEF Types, JobsOK, JobOK
<1>f. /\ NoJob.pc = "idle"
      /\ \A r, us : Continue(r, us).pc = IF us = {} THEN "idle" ELSE "sweep:check"
      /\ \A r, us : us # {} => Continue(r, us).at = job[r].at /\ Continue(r, us).users = us
  BY DEF NoJob, Continue
<1>a. \A k, v, us : /\ Announcing(k, v, us).pc = "announce:read"
                    /\ Announcing(k, v, us).at = k
                    /\ Announcing(k, v, us).telling = {v}
                    /\ Announcing(k, v, us).users = us
  BY DEF NoJob, Announcing
<1>1. ASSUME UNCHANGED vars PROVE Told(i, u)'
  BY <1>1, ToldUndisturbed DEF vars
<1>2. ASSUME NEW r \in Slots, ConnectUpsert(r) PROVE Told(i, u)'
  <2>1. PICK s \in job[r].sockets : /\ rows' = [rows EXCEPT ![s] = "fresh"]
                                     /\ Announce(r, Owner[s], {})
                                     /\ ChangedAt(job[r].at, {Owner[s]})
    BY <1>2 DEF ConnectUpsert
  <2>2. /\ JobAt(r, "connect:upsert")
        /\ UNCHANGED <<up, opened, open, local, hidden, shown, lapsed>>
    BY <1>2 DEF ConnectUpsert
  <2> DEFINE j == Announcing(job[r].at, Owner[s], {})
  <2>3. job' = [job EXCEPT ![r] = j] /\ j.pc = "announce:read"
    BY <2>1, <1>a DEF Announce
  <2>4. Told(i, u)
    BY <2>1, <2>2, NotBehindChanged
  <2>5. CASE u = Owner[s]
    <3>1. job[r].at = i /\ Looked(u) = {}
      BY <2>1, <2>5, NotBehindChanged
    <3>2. Telling(i, u)'
      BY <1>0, <1>a, <2>3, <2>5, <3>1 DEF Telling
    <3> HIDE DEF j
    <3> QED
      BY <2>3, <2>4, <3>1, <3>2, ToldByChange
  <2>6. CASE u # Owner[s]
    <3>1. \A x \in SocketsOf(u) : rows'[x] = rows[x]
      BY <1>0, <2>1, <2>6 DEF SocketsOf
    <3>2. UNCHANGED <<Connected(u), Online(u), u \in shown[i]>>
      BY <2>2, <3>1, OthersRows
    <3>3. Finding(i, u) => Finding(i, u)'
      <4> HIDE DEF j
      <4> QED
        BY ZenonT(40), <2>2, <2>3, <3>1, <3>2, FindingByJob DEF JobAt
    <3> HIDE DEF j
    <3> QED
      BY <2>2, <2>3, <2>4, <3>2, <3>3, ToldByJob DEF JobAt
  <2> QED
    BY <2>5, <2>6
<1>3. ASSUME NEW r \in Slots, DisconnectDelete(r) PROVE Told(i, u)'
  <2>1. /\ job[r].pc = "disconnect:delete"
        /\ rows' = [s \in Sockets |-> IF s \in job[r].sockets THEN "none" ELSE rows[s]]
        /\ ChangedAt(job[r].at, job[r].users)
        /\ UNCHANGED <<up, opened, open, local, hidden, shown, lapsed>>
    BY <1>3 DEF DisconnectDelete, JobAt
  <2> DEFINE j == [job[r] EXCEPT !.pc = "disconnect:check"]
  <2>2. /\ job' = [job EXCEPT ![r] = j] /\ j.pc = "disconnect:check"
        /\ j.at = job[r].at /\ j.users = job[r].users
    BY <1>0, <1>3 DEF DisconnectDelete, Job
  <2>3. PICK s \in Sockets : job[r].sockets = {s} /\ job[r].users = {Owner[s]}
    BY <2>1 DEF DisconnectsOne
  <2>4. Told(i, u)
    BY <2>1, NotBehindChanged
  <2>5. CASE u = Owner[s]
    <3>1. job[r].at = i /\ Looked(u) = {}
      BY <2>1, <2>3, <2>5, NotBehindChanged
    <3>2. CASE Connected(u)'
      <4>1. Connected(u) /\ UNCHANGED <<Online(u), u \in shown[i]>>
        BY <2>1, <3>2 DEF Connected, Online, SocketsOf
      <4> HIDE DEF j
      <4> QED
        BY <2>1, <2>2, <2>4, <3>1, <4>1, ToldByChange
    <3>3. CASE ~Connected(u)'
      <4>1. Finding(i, u)'
        BY <1>0, <2>2, <2>3, <2>5, <3>1, <3>3 DEF Finding
      <4> HIDE DEF j
      <4> QED
        BY <2>2, <2>4, <3>1, <4>1, ToldByChange
    <3> QED
      BY <3>2, <3>3
  <2>6. CASE u # Owner[s]
    <3>1. \A x \in SocketsOf(u) : rows'[x] = rows[x]
      BY <2>1, <2>3, <2>6 DEF SocketsOf
    <3>2. UNCHANGED <<Connected(u), Online(u), u \in shown[i]>>
      BY <2>1, <3>1, OthersRows
    <3> HIDE DEF j
    <3>3. Finding(i, u) => Finding(i, u)'
      BY <2>1, <2>2, <3>1, <3>2, FindingByJob, ZenonT(40)
    <3> QED
      BY <2>1, <2>2, <2>4, <3>2, <3>3, ToldByJob, ZenonT(40)
  <2> QED
    BY <2>5, <2>6
<1>4. ASSUME NEW r \in Slots, DisconnectCheck(r) PROVE Told(i, u)'
  <2>1. /\ job[r].pc = "disconnect:check"
        /\ UNCHANGED <<up, opened, open, local, rows, hidden, shown, behind, lapsed>>
    BY <1>4 DEF DisconnectCheck, JobAt
  <2>2. PICK v \in Users : /\ job[r].users = {v}
                           /\ IF Connected(v) THEN job' = [job EXCEPT ![r] = NoJob]
                              ELSE Announce(r, v, {})
    BY <1>4, <2>1 DEF DisconnectCheck, DisconnectsOne
  <2>3. Told(i, u) /\ UNCHANGED <<Connected(u), Online(u), u \in shown[i]>>
    BY <2>1, OthersRows
  <2>4. CASE Connected(v)
    <3>1. job' = [job EXCEPT ![r] = NoJob]
      BY <2>2, <2>4
    <3>2. Finding(i, u) => Finding(i, u)'
      <4>1. CASE u = v
        BY <2>4, <4>1 DEF Finding
      <4>2. CASE u # v
        BY <2>1, <2>2, <2>3, <3>1, <4>2, FindingByJob
      <4> QED
        BY <4>1, <4>2
    <3> QED
      BY <1>f, <2>1, <2>3, <3>1, <3>2, ToldByJob
  <2>5. CASE ~Connected(v)
    <3> DEFINE j == Announcing(job[r].at, v, {})
    <3>1. job' = [job EXCEPT ![r] = j] /\ j.pc = "announce:read" /\ j.at = job[r].at
            /\ j.telling = {v}
      BY <1>a, <2>2, <2>5 DEF Announce
    <3> HIDE DEF j
    <3>2. Finding(i, u) => Finding(i, u)' \/ Telling(i, u)'
      <4>1. CASE u = v /\ job[r].at = i
        BY <1>0, <3>1, <4>1 DEF Telling
      <4>2. CASE ~(u = v /\ job[r].at = i)
        BY <2>1, <2>2, <2>3, <3>1, <4>2, FindingByJob
      <4> QED
        BY <4>1, <4>2
    <3> QED
      BY <2>1, <2>3, <3>1, <3>2, ToldByJob
  <2> QED
    BY <2>4, <2>5
<1>5. ASSUME NEW r \in Slots, Look(r) PROVE Told(i, u)'
  <2>1. /\ job[r].pc = "announce:read"
        /\ UNCHANGED <<up, opened, open, local, rows, hidden, shown, behind, lapsed>>
    BY <1>5 DEF Look, JobAt
  <2>2. PICK v \in Users : job[r].telling = {v}
    BY <1>0, <2>1
  <2> DEFINE j == [job[r] EXCEPT !.pc = "announce:push", !.online = Online(v)]
  <2>3. job' = [job EXCEPT ![r] = j]
    BY <1>0, <1>5, <2>2 DEF Look, Job
  <2>4. /\ j.pc = "announce:push" /\ j.online = Online(v) /\ j.at = job[r].at
        /\ j.telling = {v} /\ j.users = job[r].users
    BY <1>0, <2>2 DEF Job
  <2>5. Told(i, u) /\ UNCHANGED <<Connected(u), Online(u), u \in shown[i]>>
    BY <2>1, OthersRows
  <2> HIDE DEF j
  <2>6. Finding(i, u) => Finding(i, u)'
    BY <2>1, <2>3, <2>4, <2>5, FindingByJob
  <2> QED
    BY <2>2, <2>3, <2>4, <2>5, <2>6, ToldByJob
<1>6. ASSUME NEW r \in Slots, Push(r) PROVE Told(i, u)'
  <2> DEFINE j == Continue(r, job[r].users)
  <2>1. /\ job[r].pc = "announce:push" /\ job' = [job EXCEPT ![r] = j]
        /\ UNCHANGED <<up, opened, open, local, rows, hidden, behind, lapsed>>
    BY <1>6 DEF Push, JobAt
  <2>2. /\ j.pc \in {"idle", "sweep:check"}
        /\ u \in job[r].users => j.pc = "sweep:check" /\ j.at = job[r].at /\ u \in j.users
    BY <1>f
  <2>3. Told(i, u) /\ UNCHANGED <<Connected(u), Online(u)>>
    BY <2>1, OthersRows
  <2> HIDE DEF j
  <2>4. CASE job[r].at = i /\ u \in job[r].telling
    <3>1. u \in shown'[i] <=> job[r].online
      BY <1>0, <1>6, <2>4 DEF Push
    <3>2. job[r].online = Online(u)
      BY <2>1, <2>3, <2>4 DEF Told, PushesRight
    <3>3. ShowsRight(i, u)'
      BY <2>3, <3>1, <3>2 DEF ShowsRight
    <3>4. PushesRight(i, u)'
      BY <1>0, <2>1, <2>2, <2>3 DEF Told, PushesRight
    <3> QED
      BY <3>3, <3>4 DEF Told
  <2>5. CASE ~(job[r].at = i /\ u \in job[r].telling)
    <3>1. UNCHANGED (u \in shown[i])
      BY <1>0, <1>6, <2>5 DEF Push
    <3>2. Finding(i, u) => Finding(i, u)'
      BY <2>1, <2>2, <2>3, FindingByJob
    <3> QED
      BY <2>1, <2>2, <2>3, <2>5, <3>1, <3>2, ToldByJob
  <2> QED
    BY <2>4, <2>5
<1>7. ASSUME NEW r \in Slots, Fail(r) PROVE Told(i, u)'
  <2> DEFINE us == IF job[r].pc = "announce:push" THEN job[r].users ELSE {}
             j == Continue(r, us)
  <2>1. /\ job' = [job EXCEPT ![r] = j] /\ behind' = Everywhere(About(r))
        /\ UNCHANGED <<up, opened, open, local, rows, hidden, shown>>
    BY <1>7 DEF Fail
  <2>2. j.pc \in {"idle", "sweep:check"}
    BY <1>f
  <2>3. u \notin behind[i] /\ u \notin job[r].users /\ u \notin job[r].telling
    <3>1. behind' = Everywhere(About(r))
      BY <2>1
    <3>2. u \notin behind[i] /\ u \notin About(r)
      BY <3>1, NotBehindEverywhere
    <3> QED
      BY <3>2 DEF About
  <2>4. Told(i, u) /\ UNCHANGED <<Connected(u), Online(u), u \in shown[i]>>
    BY <2>1, <2>3, OthersRows
  <2> HIDE DEF j
  <2>5. Finding(i, u) => Finding(i, u)'
    BY <2>1, <2>3, <2>4, FindingByJob
  <2> QED
    BY <2>1, <2>2, <2>3, <2>4, <2>5, ToldByJob
<1>8. ASSUME NEW r \in Handlers, NEW s \in Sockets, Connect(r, s) \/ Close(r, s)
      PROVE  Told(i, u)'
  <2> DEFINE connect == [NoJob EXCEPT !.pc = "connect:upsert", !.at = Home[s],
                                      !.sockets = {s}, !.users = {Owner[s]}]
             close == [NoJob EXCEPT !.pc = "disconnect:delete", !.at = Home[s],
                                    !.sockets = {s}, !.users = {Owner[s]}]
  <2>1. connect.pc = "connect:upsert" /\ close.pc = "disconnect:delete"
    BY DEF NoJob
  <2>2. /\ job' = [job EXCEPT ![r] = connect] \/ job' = [job EXCEPT ![r] = close]
        /\ r \in Slots /\ job[r].pc = "idle" /\ UNCHANGED <<up, rows, hidden, shown, behind>>
    BY <1>8 DEF Connect, Close, Idle, Slots
  <2>3. Told(i, u) /\ UNCHANGED <<Connected(u), Online(u), u \in shown[i]>>
    BY <2>2, OthersRows
  <2> HIDE DEF connect, close
  <2>4. Finding(i, u) => Finding(i, u)'
    BY <2>2, <2>3, FindingByJob
  <2> QED
    BY <2>1, <2>2, <2>3, <2>4, ToldByJob
<1>10. ASSUME NEW r \in Handlers, NEW k \in Instances, NEW v \in Users, NEW hides \in BOOLEAN,
              SetAvailability(r, k, v, hides)
       PROVE  Told(i, u)'
  <2> DEFINE j == Announcing(k, v, {})
  <2>1. /\ r \in Slots /\ job[r].pc = "idle" /\ job' = [job EXCEPT ![r] = j]
        /\ hidden' = IF hides THEN hidden \cup {v} ELSE hidden \ {v}
        /\ ChangedAt(k, {v}) /\ UNCHANGED <<up, rows, shown>>
    BY <1>10 DEF SetAvailability, Idle, Slots
  <2>2. j.pc = "announce:read" /\ j.at = k /\ j.telling = {v}
    BY <1>a
  <2> HIDE DEF j
  <2>3. Told(i, u)
    BY <2>1, NotBehindChanged
  <2>4. CASE u = v
    <3>1. k = i /\ Looked(u) = {}
      BY <2>1, <2>4, NotBehindChanged
    <3>2. Telling(i, u)'
      BY <1>0, <2>1, <2>2, <2>4, <3>1 DEF Telling
    <3> QED
      BY <2>1, <2>2, <2>3, <3>1, <3>2, ToldByChange
  <2>5. CASE u # v
    <3>1. UNCHANGED <<Connected(u), Online(u), u \in shown[i]>>
      BY <2>1, <2>5, OthersRows
    <3>2. Finding(i, u) => Finding(i, u)'
      BY <2>1, <3>1, FindingByJob
    <3> QED
      BY <2>1, <2>2, <2>3, <3>1, <3>2, ToldByJob
  <2> QED
    BY <2>4, <2>5
<1>11. ASSUME NEW k \in Instances, Heartbeat(k) PROVE Told(i, u)'
  <2> DEFINE kept == {s \in HomedAt(k) : Vouched(s) /\ rows[s] = "stale"}
  <2>1. /\ behind' = Everywhere(OwnersOf(kept))
        /\ \A s \in Sockets : s \notin kept => rows'[s] = rows[s]
        /\ UNCHANGED <<up, hidden, job, shown>>
    BY <1>11 DEF Heartbeat
  <2>2. u \notin behind[i] /\ u \notin OwnersOf(kept)
    BY <2>1, NotBehindEverywhere
  <2>3. \A s \in SocketsOf(u) : rows'[s] = rows[s]
    BY <2>1, <2>2 DEF OwnersOf, SocketsOf
  <2> QED
    BY <2>1, <2>2, <2>3, ToldUndisturbed
<1>12. ASSUME NEW k \in Instances, SweepFind(k) PROVE Told(i, u)'
  <2> DEFINE j == [NoJob EXCEPT !.pc = "sweep:delete", !.at = k, !.sockets = StaleRows]
  <2>1. /\ k \in Slots /\ job[k].pc = "idle" /\ job' = [job EXCEPT ![k] = j]
        /\ UNCHANGED <<up, rows, hidden, shown, behind>>
    BY <1>12 DEF SweepFind, Idle, Slots
  <2>2. j.pc = "sweep:delete"
    BY DEF NoJob
  <2>3. Told(i, u) /\ UNCHANGED <<Connected(u), Online(u), u \in shown[i]>>
    BY <2>1, OthersRows
  <2> HIDE DEF j
  <2>4. Finding(i, u) => Finding(i, u)'
    BY <2>1, <2>3, FindingByJob
  <2> QED
    BY <2>1, <2>2, <2>3, <2>4, ToldByJob
<1>13. ASSUME NEW k \in Instances, SweepDelete(k) PROVE Told(i, u)'
  <2> DEFINE swept == job[k].sockets
             j == [NoJob EXCEPT !.pc = "sweep:check", !.at = k, !.users = OwnersOf(swept)]
  <2>1. /\ k \in Slots /\ job[k].pc = "sweep:delete" /\ job' = [job EXCEPT ![k] = j]
        /\ rows' = [s \in Sockets |-> IF s \in swept THEN "none" ELSE rows[s]]
        /\ ChangedAt(k, OwnersOf(swept)) /\ UNCHANGED <<up, hidden, shown>>
    BY <1>13 DEF SweepDelete, JobAt, Slots
  <2>2. j.pc = "sweep:check" /\ j.at = k /\ j.users = OwnersOf(swept) /\ j.telling = {}
    BY DEF NoJob
  <2> HIDE DEF j
  <2> DEFINE us == OwnersOf(swept)
  <2>n. u \notin behind[i] /\ (u \in us => k = i /\ Looked(u) = {})
    <3>1. ChangedAt(k, us)
      BY <2>1
    <3> HIDE DEF us
    <3> QED
      BY <3>1, NotBehindChanged
  <2>3. Told(i, u)
    BY <2>1, <2>n
  <2>4. CASE u \in OwnersOf(swept)
    <3>1. k = i /\ Looked(u) = {}
      BY <2>4, <2>n
    <3>2. CASE Connected(u)'
      <4>1. Connected(u) /\ UNCHANGED <<Online(u), u \in shown[i]>>
        BY <2>1, <3>2 DEF Connected, Online, SocketsOf
      <4> QED
        BY <2>1, <2>2, <2>3, <3>1, <4>1, ToldByChange
    <3>3. CASE ~Connected(u)'
      <4>1. Finding(i, u)'
        BY <1>0, <2>1, <2>2, <2>4, <3>1, <3>3 DEF Finding
      <4> QED
        BY <2>1, <2>2, <2>3, <3>1, <4>1, ToldByChange
    <3> QED
      BY <3>2, <3>3
  <2>5. CASE u \notin OwnersOf(swept)
    <3>1. \A x \in SocketsOf(u) : rows'[x] = rows[x]
      BY <2>1, <2>5 DEF SocketsOf, OwnersOf
    <3>2. UNCHANGED <<Connected(u), Online(u), u \in shown[i]>>
      BY <2>1, <3>1, OthersRows
    <3>3. Finding(i, u) => Finding(i, u)'
      BY <2>1, <3>1, <3>2, FindingByJob
    <3> QED
      BY <2>1, <2>2, <2>3, <3>2, <3>3, ToldByJob
  <2> QED
    BY <2>4, <2>5
<1>14. ASSUME NEW k \in Instances, SweepCheck(k) PROVE Told(i, u)'
  <2>1. /\ k \in Slots /\ job[k].pc = "sweep:check"
        /\ UNCHANGED <<up, rows, hidden, shown, behind>>
    BY <1>14 DEF SweepCheck, JobAt, Slots
  <2>2. PICK v \in job[k].users :
          IF Connected(v) THEN job' = [job EXCEPT ![k] = Continue(k, job[k].users \ {v})]
          ELSE Announce(k, v, job[k].users \ {v})
    BY <1>14 DEF SweepCheck
  <2>3. Told(i, u) /\ UNCHANGED <<Connected(u), Online(u), u \in shown[i]>>
    BY <2>1, OthersRows
  <2> DEFINE rest == job[k].users \ {v}
  <2>4. CASE Connected(v)
    <3> DEFINE j == Continue(k, rest)
    <3>1. job' = [job EXCEPT ![k] = j]
      BY <2>2, <2>4
    <3>2. /\ j.pc \in {"idle", "sweep:check"}
          /\ u \in rest => j.pc = "sweep:check" /\ j.at = job[k].at /\ u \in j.users
      BY <1>f
    <3> HIDE DEF j
    <3>3. Finding(i, u) => Finding(i, u)'
      <4>1. CASE u = v
        BY <2>4, <4>1 DEF Finding
      <4>2. CASE u # v
        BY <2>1, <2>3, <3>1, <3>2, <4>2, FindingByJob
      <4> QED
        BY <4>1, <4>2
    <3> QED
      BY <2>1, <2>3, <3>1, <3>2, <3>3, ToldByJob
  <2>5. CASE ~Connected(v)
    <3> DEFINE j == Announcing(job[k].at, v, rest)
    <3>1. /\ job' = [job EXCEPT ![k] = j] /\ j.pc = "announce:read" /\ j.at = job[k].at
          /\ j.telling = {v} /\ j.users = rest
      BY <1>a, <2>2, <2>5 DEF Announce
    <3> HIDE DEF j
    <3>2. Finding(i, u) => Finding(i, u)' \/ Telling(i, u)'
      <4>1. CASE u = v /\ job[k].at = i
        BY <1>0, <2>1, <3>1, <4>1 DEF Telling
      <4>2. CASE ~(u = v /\ job[k].at = i)
        BY <2>1, <2>3, <3>1, <4>2, FindingByJob
      <4> QED
        BY <4>1, <4>2
    <3> QED
      BY <2>1, <2>3, <3>1, <3>2, ToldByJob
  <2> QED
    BY <2>4, <2>5
<1>15. ASSUME NEW k \in Instances, ModuleDestroy(k) PROVE Told(i, u)'
  <2>1. /\ behind' = Everywhere(OwnersOf(HomedAt(k)))
        /\ \A s \in Sockets : s \notin HomedAt(k) => rows'[s] = rows[s]
        /\ UNCHANGED <<up, hidden, job, shown>>
    BY <1>15 DEF ModuleDestroy
  <2>2. u \notin behind[i] /\ u \notin OwnersOf(HomedAt(k))
    BY <2>1, NotBehindEverywhere
  <2>3. \A s \in SocketsOf(u) : rows'[s] = rows[s]
    BY <2>1, <2>2 DEF OwnersOf, SocketsOf
  <2> QED
    BY <2>1, <2>2, <2>3, ToldUndisturbed
<1>16. ASSUME NEW k \in Instances, Crash(k) PROVE Told(i, u)'
  <2>1. /\ k # i /\ i \in up /\ shown'[i] = shown[i] /\ behind'[i] = behind[i]
        /\ UNCHANGED <<rows, hidden>>
        /\ \A r \in Slots : job'[r] = IF job[r].at = k THEN NoJob ELSE job[r]
    BY <1>16 DEF Crash
  <2>2. Told(i, u) /\ UNCHANGED <<Connected(u), Online(u), u \in shown[i]>>
    BY <2>1, OthersRows
  <2>3. PushesRight(i, u)'
    BY <1>f, <2>1, <2>2 DEF Told, PushesRight
  <2>4. Telling(i, u) => Telling(i, u)'
    BY <2>1 DEF Telling
  <2>5. Finding(i, u) => Finding(i, u)'
    BY <2>1, <2>2 DEF Finding
  <2>6. ShowsRight(i, u) => ShowsRight(i, u)'
    BY <2>2 DEF ShowsRight
  <2> QED
    BY <2>2, <2>3, <2>4, <2>5, <2>6 DEF Told
<1>17. ASSUME NEW s \in Sockets, Age(s) PROVE Told(i, u)'
  <2>1. /\ rows[s] = "fresh" /\ rows' = [rows EXCEPT ![s] = "stale"]
        /\ UNCHANGED <<up, hidden, job, shown>>
        /\ u \notin behind[i] /\ (u = Owner[s] => Looked(u) = {})
    BY <1>17 DEF Age
  <2>2. Told(i, u)
    BY <2>1
  <2>3. CASE u = Owner[s]
    <3>1. PushesRight(i, u)'
      BY <2>1, <2>3 DEF PushesRight, Looked, JobAt
    <3>2. CASE Connected(u)'
      <4>1. Connected(u) /\ UNCHANGED <<Online(u), u \in shown[i]>>
        BY <1>0, <2>1, <2>3, <3>2 DEF Connected, Online, SocketsOf
      <4>2. ShowsRight(i, u) \/ Telling(i, u)
        BY <2>2, <4>1 DEF Told, Finding
      <4> QED
        BY <2>1, <3>1, <4>1, <4>2 DEF Told, ShowsRight, Telling
    <3>3. CASE ~Connected(u)'
      <4>1. Finding(i, u)'
        BY <1>0, <2>1, <2>3, <3>3 DEF Finding, SocketsOf
      <4> QED
        BY <3>1, <4>1 DEF Told
    <3> QED
      BY <3>2, <3>3
  <2>4. CASE u # Owner[s]
    <3>1. \A x \in SocketsOf(u) : rows'[x] = rows[x]
      BY <1>0, <2>1, <2>4 DEF SocketsOf
    <3> QED
      BY <2>1, <2>2, <3>1, ToldUndisturbed
  <2> QED
    BY <2>3, <2>4
<1>18. ASSUME NEW s \in Sockets, AgeUnexpectedly(s) \/ Expire(s) PROVE Told(i, u)'
  <2>1. /\ behind' = Everywhere({Owner[s]})
        /\ \A x \in Sockets : x # s => rows'[x] = rows[x]
        /\ UNCHANGED <<up, hidden, job, shown>>
    BY <1>0, <1>18 DEF AgeUnexpectedly, Expire
  <2>2. u \notin behind[i] /\ u # Owner[s]
    BY <2>1, NotBehindEverywhere
  <2>3. \A x \in SocketsOf(u) : rows'[x] = rows[x]
    BY <2>1, <2>2 DEF SocketsOf
  <2> QED
    BY <2>1, <2>2, <2>3, ToldUndisturbed
<1>19. ASSUME NEW k \in Watchers, NEW v \in Users, Load(k, v) PROVE Told(i, u)'
  <2>1. UNCHANGED <<up, rows, hidden, job>>
    BY <1>19 DEF Load
  <2>2. CASE k = i /\ v = u
    <3>1. UNCHANGED Online(u) /\ (u \in shown'[i] <=> Online(u))
      BY <1>0, <1>19, <2>1, <2>2, OthersRows DEF Load
    <3>2. \A r \in Slots : u \notin job'[r].telling
      BY <1>19, <2>1, <2>2 DEF Load, Settled, About
    <3> QED
      BY <3>1, <3>2 DEF Told, ShowsRight, PushesRight
  <2>3. CASE ~(k = i /\ v = u)
    <3>1. u \notin behind[i] /\ UNCHANGED (u \in shown[i])
      BY <1>0, <1>19, <2>3 DEF Load
    <3> QED
      BY <2>1, <3>1, ToldUndisturbed
  <2> QED
    BY <2>2, <2>3
<1> QED
  BY <1>1, <1>2, <1>3, <1>4, <1>5, <1>6, <1>7, <1>8, <1>10, <1>11, <1>12, <1>13, <1>14,
     <1>15, <1>16, <1>17, <1>18, <1>19 DEF Next, Proceed

(* Clients show who is online as it is once nothing is on its way, for any  *)
(* number of processes, devices and people.                                 *)
THEOREM ShownCorrect == Spec => []ShownIsRight
<1>1. Init => DisconnectsOne /\ EveryoneTold
  <2> SUFFICES ASSUME Init PROVE DisconnectsOne /\ EveryoneTold
    OBVIOUS
  <2>1. \A r \in Slots : job[r].pc = "idle"
    BY DEF Init, NoJob
  <2>2. \A i \in Watchers, u \in Users : ShowsRight(i, u)
    BY DEF Init, ShowsRight, Online, Connected, SocketsOf
  <2> QED
    BY <2>1, <2>2 DEF DisconnectsOne, EveryoneTold, Told, PushesRight
<1>2. IInv /\ IInv' /\ DisconnectsOne /\ EveryoneTold /\ [Next]_vars
        => DisconnectsOne' /\ EveryoneTold'
  <2> SUFFICES ASSUME IInv, IInv', DisconnectsOne, EveryoneTold, [Next]_vars
               PROVE  DisconnectsOne' /\ EveryoneTold'
    OBVIOUS
  <2>1. Types /\ Types'
    BY DEF IInv, TypeOK, Types, JobsOK, JobOK, JobAt
  <2>2. DisconnectsOne'
    BY <2>1, DisconnectsOneStep
  <2>3. ASSUME NEW i \in Watchers, NEW u \in Users, i \in up', u \notin behind'[i]
        PROVE  Told(i, u)'
    BY <2>1, <2>3, ToldStep DEF EveryoneTold
  <2> QED
    BY <2>2, <2>3 DEF EveryoneTold
<1>3. EveryoneTold => ShownIsRight
  <2> SUFFICES ASSUME EveryoneTold,
                      NEW i \in up \cap Watchers, NEW u \in Users,
                      u \notin behind[i], Settled(u)
               PROVE  u \in shown[i] <=> Online(u)
    BY DEF ShownIsRight
  <2>1. ~Telling(i, u) /\ ~Finding(i, u)
    BY DEF Settled, Telling, Finding, About
  <2> QED
    BY <2>1 DEF EveryoneTold, Told, ShowsRight
<1> QED
  BY <1>1, <1>2, <1>3, InvariantHolds, PTL DEF Spec
=============================================================================
