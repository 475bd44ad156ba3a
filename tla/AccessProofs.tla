----------------------------- MODULE AccessProofs -----------------------------
(***************************************************************************)
(* What holds of the way into a zone's workspace, for every set of people, *)
(* requests and authorizations, every kind of zone and number of changes   *)
(* by administrators.                                                      *)
(***************************************************************************)
EXTENDS Access, TLAPS

-----------------------------------------------------------------------------
(* The inductive invariant.                                                *)

(* What a request knows at each step: for whom it acts, and that its zone  *)
(* was open while it ran if it has read so.                                *)
Known(p) ==
    /\ pc[p] \in {"create", "status", "access", "exchange", "sso"} => req[p].who \in People
    /\ pc[p] \in {"create", "status", "access"} =>
          (req[p].zone = "active" /\ req[p].mode = "open" => wasOpen[p])

(* A request that works on an authorization acts for its subject, at the   *)
(* stage its own step has brought it to.                                   *)
OnAuth(p) == pc[p] \in {"exchange", "sso", "grant"}

Authorized(p) ==
    OnAuth(p) => /\ req[p].auth \in Auths
                 /\ req[p].who = auth[req[p].auth].subject
                 /\ auth[req[p].auth].stage = IF pc[p] = "exchange" THEN "exchange" ELSE "redeemed"
                 /\ logins[req[p].auth] = 0

(* An authorization is in the hands of one request at a time, and has      *)
(* given no session before it was redeemed.                                *)
OneRequestEach ==
    \A p, q \in Requests : OnAuth(p) /\ OnAuth(q) /\ req[p].auth = req[q].auth => p = q

NotBefore == \A a \in Auths : auth[a].stage # "redeemed" => logins[a] = 0

(* Whoever has or had a membership has a role, or an administrator has     *)
(* taken it: the status may come back.  Between the two no role is lost.   *)
Held(u) == roles[u] \cup revoked[u]

MembersHaveRoles == \A u \in People : member[u] # "none" => Held(u) # {}

OwnerIsOwner == owner # Nobody => "owner" \in Held(owner)

AcceptedHaveAccounts == \A u \in People : invite[u] = "accepted" => account[u] # "none"

OneSession == \A a \in Auths : logins[a] <= 1

RequestsOK == \A p \in Requests : Known(p) /\ Authorized(p)

Inv == /\ TypeOK
       /\ RequestsOK /\ OneRequestEach /\ NotBefore /\ OneSession
       /\ MembersHaveRoles /\ OwnerIsOwner /\ AcceptedHaveAccounts

-----------------------------------------------------------------------------
(* Types.                                                                  *)

LEMMA BlankType == Blank \in InHand
  BY DEF Blank, InHand

LEMMA RequestType ==
    ASSUME TypeOK, NEW u \in People, NEW kind \in {"register", "google", "login"}
    PROVE  /\ Request(kind, u) \in InHand
           /\ Request(kind, u).who = u /\ Request(kind, u).auth = Nobody
           /\ Request(kind, u).zone = zone /\ Request(kind, u).mode = mode
  BY BlankType DEF TypeOK, Request, Blank, InHand

LEMMA AuthRequestType ==
    ASSUME TypeOK, NEW a \in Auths
    PROVE  LET r == [Blank EXCEPT !.auth = a, !.who = auth[a].subject]
           IN  r \in InHand /\ r.auth = a /\ r.who = auth[a].subject /\ r.who \in People
<1>1. auth[a].subject \in People
  BY DEF TypeOK
<1> QED
  BY <1>1, BlankType DEF Blank, InHand

(* A step of a request moves it alone.                                     *)
LEMMA Moves ==
    ASSUME TypeOK, NEW p \in Requests, NEW step \in Steps, NEW r \in InHand, GoTo(p, step, r)
    PROVE  /\ pc' \in [Requests -> Steps] /\ req' \in [Requests -> InHand]
           /\ pc'[p] = step /\ req'[p] = r
           /\ \A q \in Requests \ {p} : pc'[q] = pc[q] /\ req'[q] = req[q]
  BY DEF TypeOK, GoTo

LEMMA Finishes ==
    ASSUME TypeOK, NEW p \in Requests, Finish(p)
    PROVE  /\ pc' \in [Requests -> Steps] /\ req' \in [Requests -> InHand]
           /\ pc'[p] = "idle"
           /\ \A q \in Requests \ {p} : pc'[q] = pc[q] /\ req'[q] = req[q]
  BY BlankType, Moves DEF Finish, Steps

LEMMA ObserveFacts ==
    ASSUME Observe
    PROVE  /\ wasOpen' \in [Requests -> BOOLEAN]
           /\ \A p \in Requests :
                 wasOpen'[p] = (pc'[p] # "idle" /\ (wasOpen[p] \/ Offered))
  BY DEF Observe, Offered

LEMMA StageFacts ==
    ASSUME TypeOK, NEW a \in Auths, NEW s \in Stages, SetStage(a, s)
    PROVE  /\ auth' \in [Auths -> [subject : People, verified : BOOLEAN, stage : Stages]]
           /\ auth'[a].stage = s
           /\ \A b \in Auths : /\ auth'[b].subject = auth[b].subject
                               /\ b # a => auth'[b] = auth[b]
<1>1. auth[a] \in [subject : People, verified : BOOLEAN, stage : Stages]
  BY DEF TypeOK
<1>2. auth' = [auth EXCEPT ![a] = [auth[a] EXCEPT !.stage = s]]
  BY DEF SetStage
<1>3. [auth[a] EXCEPT !.stage = s] \in [subject : People, verified : BOOLEAN, stage : Stages]
  BY <1>1
<1> QED
  BY <1>1, <1>2, <1>3 DEF TypeOK

RolesTyped == roles \in [People -> SUBSET Roles] /\ revoked \in [People -> SUBSET Roles]

LEMMA GiveFacts ==
    ASSUME TypeOK, NEW u \in People, NEW given \in SUBSET Roles, Give(u, given)
    PROVE  /\ RolesTyped' /\ given \subseteq roles'[u] /\ roles[u] \subseteq roles'[u]
           /\ \A v \in People : Held(v) \subseteq Held(v)'
<1>1. /\ roles' = [roles EXCEPT ![u] = roles[u] \cup given]
      /\ revoked' = [revoked EXCEPT ![u] = revoked[u] \ given]
  BY DEF Give
<1>2. RolesTyped
  BY DEF TypeOK, RolesTyped
<1>3. RolesTyped'
  BY <1>1, <1>2 DEF RolesTyped
<1>4. /\ roles'[u] = roles[u] \cup given /\ revoked'[u] = revoked[u] \ given
      /\ \A v \in People : v # u => roles'[v] = roles[v] /\ revoked'[v] = revoked[v]
  BY <1>1, <1>2 DEF RolesTyped
<1>5. \A v \in People : Held(v) \subseteq Held(v)'
  BY <1>4 DEF Held
<1> QED
  BY <1>3, <1>4, <1>5

LEMMA RepairFacts ==
    ASSUME TypeOK, NEW u \in People, NEW extra \in SUBSET Roles, Repair(u, extra)
    PROVE  /\ RolesTyped'
           /\ inPublic' \in [People -> {"none", "active", "left"}]
           /\ Held(u)' # {} /\ extra \subseteq Held(u)'
           /\ \A v \in People : Held(v) \subseteq Held(v)'
<1>1. Baseline(u, extra) \in SUBSET Roles
  BY DEF Baseline, Roles
<1>2. /\ RolesTyped' /\ Baseline(u, extra) \subseteq roles'[u] /\ roles[u] \subseteq roles'[u]
      /\ \A v \in People : Held(v) \subseteq Held(v)'
  BY <1>1, GiveFacts DEF Repair
<1>3. roles'[u] # {} /\ extra \subseteq roles'[u]
  BY <1>2 DEF Baseline
<1>4. inPublic' \in [People -> {"none", "active", "left"}]
  BY DEF TypeOK, Repair
<1> QED
  BY <1>2, <1>3, <1>4 DEF Held

LEMMA AddFacts ==
    ASSUME TypeOK, NEW u \in People, NEW extra \in SUBSET Roles,
           AddMembership(u, extra)
    PROVE  /\ member' \in [People -> {"none", "active", "left", "disabled"}]
           /\ member[u] # "disabled" /\ member'[u] = "active"
           /\ \A v \in People \ {u} : member'[v] = member[v]
           /\ RolesTyped'
           /\ inPublic' \in [People -> {"none", "active", "left"}]
           /\ Held(u)' # {} /\ extra \subseteq Held(u)'
           /\ \A v \in People : Held(v) \subseteq Held(v)'
<1>1. Repair(u, extra)
  BY DEF AddMembership
<1>2. /\ member' = [member EXCEPT ![u] = "active"] /\ member[u] # "disabled"
  BY DEF AddMembership, MayJoin
<1> QED
  BY <1>1, <1>2, RepairFacts DEF TypeOK

-----------------------------------------------------------------------------
(* Requests and authorizations.                                            *)

LEMMA KnownKeeps ==
    ASSUME TypeOK, Observe, NEW q \in Requests, Known(q), pc'[q] = pc[q], req'[q] = req[q]
    PROVE  Known(q)'
  BY ObserveFacts DEF Known, TypeOK

LEMMA AuthorizedKeeps ==
    ASSUME NEW q \in Requests, Authorized(q), pc'[q] = pc[q], req'[q] = req[q],
           \A a \in Auths : req[q].auth = a /\ OnAuth(q) =>
              /\ auth'[a].subject = auth[a].subject /\ auth'[a].stage = auth[a].stage
              /\ logins'[a] = logins[a]
    PROVE  Authorized(q)'
  BY DEF Authorized, OnAuth

AuthInv == RequestsOK /\ OneRequestEach /\ NotBefore /\ OneSession

AuthTypes ==
    /\ auth \in [Auths -> [subject : People, verified : BOOLEAN, stage : Stages]]
    /\ pc \in [Requests -> Steps] /\ req \in [Requests -> InHand]
    /\ wasOpen \in [Requests -> BOOLEAN] /\ logins \in [Auths -> Nat]

(* Nothing moves that has to do with a request or an authorization.        *)
LEMMA OthersMove ==
    ASSUME TypeOK, AuthInv, Observe, UNCHANGED <<pc, req, auth, logins>>
    PROVE  AuthTypes' /\ AuthInv'
<1>1. RequestsOK'
  BY KnownKeeps, AuthorizedKeeps DEF AuthInv, RequestsOK
<1>2. (OneRequestEach /\ NotBefore /\ OneSession)'
  BY DEF AuthInv, OneRequestEach, NotBefore, OneSession, OnAuth
<1> QED
  BY <1>1, <1>2, ObserveFacts DEF AuthTypes, TypeOK, AuthInv

(* A request with a password or a Google credential goes on or ends.       *)
LEMMA PasswordMoves ==
    ASSUME TypeOK, AuthInv, Observe, UNCHANGED <<auth, logins>>, NEW p \in Requests,
           NEW step \in {"idle", "create", "status", "access"}, NEW r \in InHand,
           GoTo(p, step, r), Known(p)'
    PROVE  AuthTypes' /\ AuthInv'
<1>1. /\ pc' \in [Requests -> Steps] /\ req' \in [Requests -> InHand]
      /\ pc'[p] = step /\ req'[p] = r
      /\ \A q \in Requests \ {p} : pc'[q] = pc[q] /\ req'[q] = req[q]
  BY Moves DEF Steps
<1>2. ~OnAuth(p)'
  BY <1>1 DEF OnAuth
<1>3. \A q \in Requests : Known(q)'
  BY <1>1, KnownKeeps DEF AuthInv, RequestsOK
<1>4. \A q \in Requests : Authorized(q)'
  <2> TAKE q \in Requests
  <2>1. CASE q = p
    BY <1>2, <2>1 DEF Authorized
  <2>2. CASE q # p
    BY <1>1, <2>2, AuthorizedKeeps DEF AuthInv, RequestsOK
  <2> QED
    BY <2>1, <2>2
<1>5. OneRequestEach'
  BY <1>1, <1>2 DEF AuthInv, OneRequestEach, OnAuth
<1>6. NotBefore' /\ OneSession'
  BY DEF AuthInv, NotBefore, OneSession
<1> QED
  BY <1>1, <1>3, <1>4, <1>5, <1>6, ObserveFacts DEF AuthTypes, TypeOK, AuthInv, RequestsOK

LEMMA FinishMoves ==
    ASSUME TypeOK, AuthInv, Observe, UNCHANGED <<auth, logins>>, NEW p \in Requests, Finish(p)
    PROVE  AuthTypes' /\ AuthInv'
<1>1. pc'[p] = "idle"
  BY Finishes
<1>2. Known(p)'
  BY <1>1 DEF Known
<1> QED
  BY <1>2, BlankType, PasswordMoves DEF Finish

(* A request begins with the zone as it finds it.                          *)
LEMMA FirstMove ==
    ASSUME TypeOK, AuthInv, Observe, UNCHANGED <<auth, logins, zone, mode>>,
           NEW p \in Requests, NEW u \in People, NEW kind \in {"register", "google", "login"},
           NEW step \in {"create", "status"}, GoTo(p, step, Request(kind, u))
    PROVE  AuthTypes' /\ AuthInv'
<1> DEFINE r == Request(kind, u)
<1>1. r \in InHand /\ r.who = u /\ r.zone = zone /\ r.mode = mode
  BY RequestType
<1>2. pc'[p] = step /\ req'[p] = r
  BY <1>1, Moves DEF Steps
<1> HIDE DEF r
<1>3. Known(p)'
  BY <1>1, <1>2, ObserveFacts DEF Known, Offered
<1> QED
  BY <1>1, <1>3, PasswordMoves DEF r

(* It goes on with what it has.                                            *)
LEMMA NextMove ==
    ASSUME TypeOK, AuthInv, Observe, UNCHANGED <<auth, logins>>, NEW p \in Requests,
           NEW step \in {"status", "access"}, pc[p] \in {"create", "status"},
           GoTo(p, step, req[p])
    PROVE  AuthTypes' /\ AuthInv'
<1>1. req[p] \in InHand
  BY DEF TypeOK
<1>2. pc'[p] = step /\ req'[p] = req[p]
  BY <1>1, Moves DEF Steps
<1>3. Known(p)'
  BY <1>2, ObserveFacts DEF Known, AuthInv, RequestsOK, TypeOK
<1> QED
  BY <1>1, <1>3, PasswordMoves

(* The stage of an authorization that no request works on.                 *)
LEMMA FreeMoves ==
    ASSUME TypeOK, AuthInv, Observe, UNCHANGED <<pc, req, logins>>, NEW a \in Auths,
           NEW s \in Stages, SetStage(a, s), auth[a].stage \notin {"exchange", "redeemed"}
    PROVE  AuthTypes' /\ AuthInv'
<1>1. \A q \in Requests : Authorized(q)'
  <2> TAKE q \in Requests
  <2>1. OnAuth(q) => req[q].auth # a
    BY DEF AuthInv, RequestsOK, Authorized
  <2> QED
    BY <2>1, StageFacts, AuthorizedKeeps DEF AuthInv, RequestsOK, Authorized
<1>2. \A q \in Requests : Known(q)'
  BY KnownKeeps DEF AuthInv, RequestsOK
<1>3. OneRequestEach' /\ OneSession'
  BY DEF AuthInv, OneRequestEach, OneSession, OnAuth
<1>4. NotBefore'
  BY StageFacts DEF AuthInv, NotBefore
<1> QED
  BY <1>1, <1>2, <1>3, <1>4, StageFacts, ObserveFacts
     DEF AuthTypes, TypeOK, AuthInv, RequestsOK

(* Callback and Complete: a one-time row is spent, and a request that goes *)
(* on has the authorization to itself.                                     *)
LEMMA TakeMoves ==
    ASSUME TypeOK, AuthInv, Observe, UNCHANGED logins, NEW p \in Requests, NEW a \in Auths,
           NEW s, NEW step,
           \/ auth[a].stage = "started" /\ s = "exchange" /\ step = "exchange"
           \/ auth[a].stage = "result" /\ s = "redeemed" /\ step = "sso",
           SetStage(a, s), pc[p] = "idle",
           GoTo(p, step, [Blank EXCEPT !.auth = a, !.who = auth[a].subject])
    PROVE  AuthTypes' /\ AuthInv'
<1> DEFINE r == [Blank EXCEPT !.auth = a, !.who = auth[a].subject]
<1>1. r \in InHand /\ r.auth = a /\ r.who = auth[a].subject /\ r.who \in People
  BY AuthRequestType
<1>2. s \in Stages /\ step \in Steps
  BY DEF Stages, Steps
<1>3. /\ pc' \in [Requests -> Steps] /\ req' \in [Requests -> InHand]
      /\ pc'[p] = step /\ req'[p] = r
      /\ \A q \in Requests \ {p} : pc'[q] = pc[q] /\ req'[q] = req[q]
  BY <1>1, <1>2, Moves
<1> HIDE DEF r
<1>4. /\ auth' \in [Auths -> [subject : People, verified : BOOLEAN, stage : Stages]]
      /\ auth'[a].stage = s
      /\ \A b \in Auths : /\ auth'[b].subject = auth[b].subject
                          /\ b # a => auth'[b] = auth[b]
  BY <1>2, StageFacts
<1>5. logins[a] = 0
  BY DEF AuthInv, NotBefore
<1>6. \A q \in Requests : OnAuth(q) => req[q].auth # a
  BY DEF AuthInv, RequestsOK, Authorized
<1>7. \A q \in Requests : Known(q)'
  <2>1. Known(p)'
    BY <1>1, <1>3 DEF Known
  <2> QED
    BY <1>3, <2>1, KnownKeeps DEF AuthInv, RequestsOK
<1>8. Authorized(p)'
  BY <1>1, <1>3, <1>4, <1>5 DEF Authorized
<1>9. \A q \in Requests \ {p} : Authorized(q)'
  BY <1>3, <1>4, <1>6, AuthorizedKeeps DEF AuthInv, RequestsOK, Authorized
<1>10. OneRequestEach'
  <2> SUFFICES ASSUME NEW q \in Requests, NEW o \in Requests, OnAuth(q)', OnAuth(o)',
                      req'[q].auth = req'[o].auth
               PROVE  q = o
    BY DEF OneRequestEach
  <2>1. \A x \in Requests : x # p /\ OnAuth(x)' => OnAuth(x) /\ req'[x].auth # a
    BY <1>3, <1>6 DEF OnAuth
  <2>2. req'[p].auth = a
    BY <1>1, <1>3
  <2>3. CASE q # p /\ o # p
    BY <1>3, <2>1, <2>3 DEF AuthInv, OneRequestEach
  <2> QED
    BY <2>1, <2>2, <2>3
<1>11. NotBefore' /\ OneSession'
  BY <1>4, <1>5 DEF AuthInv, NotBefore, OneSession
<1> QED
  BY <1>3, <1>4, <1>7, <1>8, <1>9, <1>10, <1>11, ObserveFacts
     DEF AuthTypes, TypeOK, AuthInv, RequestsOK

(* A request leaves its authorization, with a stage or a session more.     *)
LEMMA LeaveMoves ==
    ASSUME TypeOK, AuthInv, Observe, NEW p \in Requests, OnAuth(p), Finish(p),
           \/ /\ pc[p] = "exchange" /\ UNCHANGED logins
              /\ \E s \in {"result", "over"} : SetStage(req[p].auth, s)
           \/ /\ pc[p] # "exchange" /\ UNCHANGED auth
              /\ \/ UNCHANGED logins
                 \/ logins' = [logins EXCEPT ![req[p].auth] = @ + 1]
    PROVE  AuthTypes' /\ AuthInv'
<1> DEFINE a == req[p].auth
<1>1. /\ pc' \in [Requests -> Steps] /\ req' \in [Requests -> InHand]
      /\ pc'[p] = "idle"
      /\ \A q \in Requests \ {p} : pc'[q] = pc[q] /\ req'[q] = req[q]
  BY Finishes
<1>2. a \in Auths /\ logins[a] = 0
      /\ auth[a].stage = IF pc[p] = "exchange" THEN "exchange" ELSE "redeemed"
  BY DEF AuthInv, RequestsOK, Authorized
<1>3. /\ auth' \in [Auths -> [subject : People, verified : BOOLEAN, stage : Stages]]
      /\ \A b \in Auths \ {a} : auth'[b] = auth[b]
      /\ pc[p] # "exchange" => auth'[a] = auth[a]
      /\ pc[p] = "exchange" => auth'[a].stage \in {"result", "over"}
  <2>1. CASE pc[p] = "exchange"
    <3>1. PICK s \in {"result", "over"} : SetStage(a, s)
      BY <2>1
    <3> QED
      BY <1>2, <2>1, <3>1, StageFacts DEF Stages
  <2>2. CASE pc[p] # "exchange"
    BY <2>2 DEF TypeOK
  <2> QED
    BY <2>1, <2>2
<1>4. /\ logins' \in [Auths -> Nat] /\ \A b \in Auths \ {a} : logins'[b] = logins[b]
      /\ logins'[a] = 0 \/ (logins'[a] = 1 /\ pc[p] # "exchange")
  <2>1. CASE UNCHANGED logins
    BY <1>2, <2>1 DEF TypeOK
  <2>2. CASE pc[p] # "exchange" /\ logins' = [logins EXCEPT ![a] = @ + 1]
    <3>1. logins' = [logins EXCEPT ![a] = 1]
      BY <1>2, <2>2
    <3> QED
      BY <1>2, <2>2, <3>1 DEF TypeOK
  <2> QED
    BY <2>1, <2>2
<1>5. \A q \in Requests \ {p} : OnAuth(q) => req[q].auth # a
  BY DEF AuthInv, OneRequestEach
<1> HIDE DEF a
<1>6. \A q \in Requests : Known(q)'
  <2>1. Known(p)'
    BY <1>1 DEF Known
  <2> QED
    BY <1>1, <2>1, KnownKeeps DEF AuthInv, RequestsOK
<1>7. \A q \in Requests : Authorized(q)'
  <2>1. Authorized(p)'
    BY <1>1 DEF Authorized, OnAuth
  <2>2. ASSUME NEW q \in Requests \ {p} PROVE Authorized(q)'
    BY <1>1, <1>3, <1>4, <1>5, AuthorizedKeeps DEF AuthInv, RequestsOK, Authorized
  <2> QED
    BY <2>1, <2>2
<1>8. OneRequestEach'
  BY <1>1 DEF AuthInv, OneRequestEach, OnAuth
<1>9. NotBefore' /\ OneSession'
  BY <1>2, <1>3, <1>4 DEF AuthInv, NotBefore, OneSession
<1> QED
  BY <1>1, <1>3, <1>4, <1>6, <1>7, <1>8, <1>9, ObserveFacts
     DEF AuthTypes, TypeOK, AuthInv, RequestsOK

(* ResolveUser found the account: the request goes on to the session.      *)
LEMMA GrantMoves ==
    ASSUME TypeOK, AuthInv, Observe, UNCHANGED <<auth, logins>>, NEW p \in Requests,
           pc[p] = "sso", GoTo(p, "grant", req[p])
    PROVE  AuthTypes' /\ AuthInv'
<1>1. req[p] \in InHand
  BY DEF TypeOK
<1>2. /\ pc' \in [Requests -> Steps] /\ req' \in [Requests -> InHand]
      /\ pc'[p] = "grant" /\ req'[p] = req[p]
      /\ \A q \in Requests \ {p} : pc'[q] = pc[q] /\ req'[q] = req[q]
  BY <1>1, Moves DEF Steps
<1>3. \A q \in Requests : Known(q)'
  <2>1. Known(p)'
    BY <1>2 DEF Known
  <2> QED
    BY <1>2, <2>1, KnownKeeps DEF AuthInv, RequestsOK
<1>4. \A q \in Requests : Authorized(q)'
  <2>1. Authorized(p)'
    BY <1>2 DEF AuthInv, RequestsOK, Authorized, OnAuth
  <2> QED
    BY <1>2, <2>1, AuthorizedKeeps DEF AuthInv, RequestsOK
<1>5. OneRequestEach'
  BY <1>2 DEF AuthInv, OneRequestEach, OnAuth
<1>6. NotBefore' /\ OneSession'
  BY DEF AuthInv, NotBefore, OneSession
<1> QED
  BY <1>2, <1>3, <1>4, <1>5, <1>6, ObserveFacts DEF AuthTypes, TypeOK, AuthInv, RequestsOK

LEMMA RequestsStep == ASSUME TypeOK, AuthInv, Next PROVE AuthTypes' /\ AuthInv'
<1>1. Observe
  BY DEF Next
<1>2. ASSUME NEW p \in Requests, Register(p) \/ Login(p) \/ LoginWithGoogle(p)
      PROVE  AuthTypes' /\ AuthInv'
  <2>1. PICK u \in People, kind \in {"register", "google", "login"}, step \in {"create", "status"} :
            GoTo(p, step, Request(kind, u))
    <3>1. CASE Register(p)
      BY <3>1 DEF Register
    <3>2. CASE Login(p)
      BY <3>2 DEF Login
    <3>3. CASE LoginWithGoogle(p)
      BY <3>3 DEF LoginWithGoogle
    <3> QED
      BY <1>2, <3>1, <3>2, <3>3
  <2>2. UNCHANGED <<auth, logins, zone, mode>>
    BY <1>2 DEF Register, Login, LoginWithGoogle, sso, space
  <2> QED
    BY <1>1, <2>1, <2>2, FirstMove
<1>3. ASSUME NEW p \in Requests, Create(p) \/ CheckStatus(p) \/ EnsureAccess(p)
      PROVE  AuthTypes' /\ AuthInv'
  <2>1. UNCHANGED <<auth, logins>>
    BY <1>3 DEF Create, CheckStatus, EnsureAccess, sso
  <2>2. \/ Finish(p)
        \/ /\ pc[p] \in {"create", "status"}
           /\ \E step \in {"status", "access"} : GoTo(p, step, req[p])
    BY <1>3 DEF Create, CheckStatus, EnsureAccess
  <2> QED
    BY <1>1, <2>1, <2>2, FinishMoves, NextMove
<1>4. ASSUME NEW p \in Requests, Exchange(p) \/ GrantSso(p) PROVE AuthTypes' /\ AuthInv'
  BY <1>1, <1>4, LeaveMoves DEF Exchange, GrantSso, OnAuth
<1>5. ASSUME NEW p \in Requests, ResolveUser(p) PROVE AuthTypes' /\ AuthInv'
  <2>1. pc[p] = "sso" /\ UNCHANGED <<auth, logins>> /\ (GoTo(p, "grant", req[p]) \/ Finish(p))
    BY <1>5 DEF ResolveUser
  <2> QED
    BY <1>1, <2>1, GrantMoves, FinishMoves
<1>6. ASSUME NEW a \in Auths, Start(a) \/ AuthExpires(a) PROVE AuthTypes' /\ AuthInv'
  BY <1>1, <1>6, FreeMoves DEF Start, AuthExpires, Stages
<1>7. ASSUME NEW a \in Auths, NEW p \in Requests, Callback(p, a) \/ Complete(p, a)
      PROVE  AuthTypes' /\ AuthInv'
  <2>1. CASE Callback(p, a) /\ ProviderReady
    BY <1>1, <2>1, TakeMoves DEF Callback, Consume
  <2>2. CASE Complete(p, a) /\ ProviderReady
    BY <1>1, <2>2, TakeMoves DEF Complete, Consume
  <2>3. CASE Callback(p, a) /\ ~ProviderReady
    BY <1>1, <2>3, FreeMoves DEF Callback, Consume, Stages
  <2>4. CASE Complete(p, a) /\ ~ProviderReady
    BY <1>1, <2>4, FreeMoves DEF Complete, Consume, Stages
  <2> QED
    BY <1>7, <2>1, <2>2, <2>3, <2>4
<1>8. ASSUME AdminStep PROVE AuthTypes' /\ AuthInv'
  <2>1. UNCHANGED <<pc, req, auth, logins>>
    BY <1>8 DEF AdminStep, UpdateZoneSettings, SetZoneLifecycle, UpdateProvider, CreateInvite,
                InviteExpires, AddMember, UpdateMemberStatus, UpdateUser, OpenDirect,
                AssignWorkspaceRole, RevokeWorkspaceRole, sso
  <2> QED
    BY <1>1, <2>1, OthersMove
<1> QED
  BY <1>2, <1>3, <1>4, <1>5, <1>6, <1>7, <1>8 DEF Next, RequestStep, AuthStep

-----------------------------------------------------------------------------
(* People and the workspace.                                               *)

SpaceTypes ==
    /\ account \in [People -> {"none", "active", "locked"}]
    /\ member \in [People -> {"none", "active", "left", "disabled"}]
    /\ RolesTyped
    /\ inPublic \in [People -> {"none", "active", "left"}]
    /\ owner \in People \cup {Nobody}
    /\ zone \in {"active", "suspended", "archived"}
    /\ mode \in {"open", "invite_only", "closed"}
    /\ invite \in [People -> {"none", "open", "accepted", "expired"}]
    /\ provider \in {"off", "on", "jit"}
    /\ linked \in [People -> People \cup {Nobody}]
    /\ changes \in 0..MaxChanges

SpaceInv == MembersHaveRoles /\ OwnerIsOwner /\ AcceptedHaveAccounts

LEMMA SpaceUnchanged ==
    ASSUME TypeOK, SpaceInv, UNCHANGED <<people, space, linked, changes>>
    PROVE  SpaceTypes' /\ SpaceInv'
  BY DEF TypeOK, SpaceTypes, SpaceInv, MembersHaveRoles, OwnerIsOwner, AcceptedHaveAccounts,
         Held, RolesTyped, people, space

LEMMA CreateUserKeeps ==
    ASSUME TypeOK, SpaceInv, NEW r, r.who \in People, Welcome(r), CreateUser(r),
           UNCHANGED <<zone, provider, linked, changes>>
    PROVE  SpaceTypes' /\ SpaceInv'
<1> DEFINE u == r.who
           extra == IF Claims THEN {"member", "owner"} ELSE {"member"}
<1>1. AddMembership(u, extra) /\ extra \in SUBSET Roles
  BY DEF CreateUser, Roles
<1>2. /\ member' \in [People -> {"none", "active", "left", "disabled"}]
      /\ \A v \in People \ {u} : member'[v] = member[v]
      /\ RolesTyped'
      /\ inPublic' \in [People -> {"none", "active", "left"}]
      /\ Held(u)' # {} /\ extra \subseteq Held(u)'
      /\ \A v \in People : Held(v) \subseteq Held(v)'
  BY <1>1, AddFacts
<1>3. /\ account' = [account EXCEPT ![u] = "active"]
      /\ owner' = IF Claims THEN u ELSE owner
      /\ mode' \in {mode, "invite_only"}
      /\ invite' = invite \/ invite' = [invite EXCEPT ![u] = "accepted"]
  BY DEF CreateUser
<1>4. Claims => "owner" \in Held(u)'
  BY <1>2
<1> HIDE DEF extra
<1>5. SpaceTypes'
  BY <1>2, <1>3 DEF SpaceTypes, TypeOK
<1>6. MembersHaveRoles'
  <2> SUFFICES ASSUME NEW v \in People, member'[v] # "none" PROVE Held(v)' # {}
    BY DEF MembersHaveRoles
  <2>1. CASE v = u
    BY <1>2, <2>1
  <2>2. CASE v # u
    <3>1. Held(v) # {} /\ Held(v) \subseteq Held(v)'
      BY <1>2, <2>2 DEF SpaceInv, MembersHaveRoles
    <3> QED
      BY <3>1
  <2> QED
    BY <2>1, <2>2
<1>7. OwnerIsOwner'
  <2>1. CASE Claims
    BY <1>3, <1>4, <2>1 DEF OwnerIsOwner
  <2>2. CASE ~Claims
    BY <1>2, <1>3, <2>2 DEF SpaceInv, OwnerIsOwner, TypeOK
  <2> QED
    BY <2>1, <2>2
<1>8. AcceptedHaveAccounts'
  BY <1>3 DEF SpaceInv, AcceptedHaveAccounts, TypeOK
<1> QED
  BY <1>5, <1>6, <1>7, <1>8 DEF SpaceInv

(* Roles are given or taken, accounts and invites keep what they say.      *)
LEMMA RolesKeep ==
    ASSUME TypeOK, SpaceInv, NEW u \in People,
           \A v \in People : Held(v) \subseteq Held(v)', UNCHANGED <<owner, invite>>,
           \A v \in People : account[v] # "none" => account'[v] # "none",
           \A v \in People \ {u} : member'[v] = member[v],
           member'[u] = "none" \/ Held(u)' # {}
    PROVE  SpaceInv'
<1>1. MembersHaveRoles'
  <2> SUFFICES ASSUME NEW v \in People, member'[v] # "none" PROVE Held(v)' # {}
    BY DEF MembersHaveRoles
  <2>1. CASE v = u
    BY <2>1
  <2>2. CASE v # u
    <3>1. Held(v) # {} /\ Held(v) \subseteq Held(v)'
      BY <2>2 DEF SpaceInv, MembersHaveRoles
    <3> QED
      BY <3>1
  <2> QED
    BY <2>1, <2>2
<1>2. OwnerIsOwner'
  BY DEF SpaceInv, OwnerIsOwner, TypeOK
<1>3. AcceptedHaveAccounts'
  BY DEF SpaceInv, AcceptedHaveAccounts
<1> QED
  BY <1>1, <1>2, <1>3 DEF SpaceInv

LEMMA EnsureAccessKeeps ==
    ASSUME TypeOK, SpaceInv, NEW p \in Requests, req[p].who \in People, EnsureAccess(p)
    PROVE  SpaceTypes' /\ SpaceInv'
<1>0. PICK u \in People : u = req[p].who
  OBVIOUS
<1>1. UNCHANGED <<account, space, linked, changes>>
  BY DEF EnsureAccess, sso
<1>2. CASE member[u] = "active" /\ Repair(u, {}) /\ UNCHANGED member
  BY <1>1, <1>2, RepairFacts, RolesKeep DEF SpaceTypes, TypeOK, space
<1>3. CASE AddMembership(u, {})
  <2>1. /\ member' \in [People -> {"none", "active", "left", "disabled"}]
        /\ \A v \in People \ {u} : member'[v] = member[v]
        /\ RolesTyped'
        /\ inPublic' \in [People -> {"none", "active", "left"}]
        /\ Held(u)' # {} /\ \A v \in People : Held(v) \subseteq Held(v)'
    BY <1>3, AddFacts
  <2>2. SpaceTypes'
    BY <1>1, <2>1 DEF SpaceTypes, TypeOK, space
  <2> QED
    BY <1>1, <2>1, <2>2, RolesKeep DEF space
<1>4. CASE UNCHANGED <<member, roles, revoked, inPublic>>
  BY <1>1, <1>4, SpaceUnchanged DEF people, space
<1> QED
  BY <1>0, <1>2, <1>3, <1>4 DEF EnsureAccess

LEMMA ResolveUserKeeps ==
    ASSUME TypeOK, SpaceInv, NEW p \in Requests, req[p].who \in People, ResolveUser(p)
    PROVE  SpaceTypes' /\ SpaceInv'
<1>0. PICK u \in People : u = req[p].who
  OBVIOUS
<1>1. UNCHANGED <<space, changes>>
  BY DEF ResolveUser
<1>2. CASE UNCHANGED <<people, linked>>
  BY <1>1, <1>2, SpaceUnchanged
<1>3. CASE /\ account' = [account EXCEPT ![u] = "active"] /\ AddMembership(u, {})
           /\ linked' = [linked EXCEPT ![u] = u]
  <2>1. /\ member' \in [People -> {"none", "active", "left", "disabled"}]
        /\ \A v \in People \ {u} : member'[v] = member[v]
        /\ RolesTyped'
        /\ inPublic' \in [People -> {"none", "active", "left"}]
        /\ Held(u)' # {} /\ \A v \in People : Held(v) \subseteq Held(v)'
    BY <1>3, AddFacts
  <2>2. SpaceTypes'
    BY <1>1, <1>3, <2>1 DEF SpaceTypes, TypeOK, space
  <2>3. \A v \in People : account[v] # "none" => account'[v] # "none"
    BY <1>3 DEF TypeOK
  <2> QED
    BY <1>1, <2>1, <2>2, <2>3, RolesKeep DEF space
<1> QED
  BY <1>0, <1>2, <1>3 DEF ResolveUser

LEMMA AdminKeeps ==
    ASSUME TypeOK, SpaceInv, AdminStep PROVE SpaceTypes' /\ SpaceInv'
<1>1. changes' \in 0..MaxChanges /\ UNCHANGED linked
  <2>1. Change /\ UNCHANGED linked
    BY DEF AdminStep, UpdateZoneSettings, SetZoneLifecycle, UpdateProvider, CreateInvite,
           InviteExpires, AddMember, UpdateMemberStatus, UpdateUser, OpenDirect,
           AssignWorkspaceRole, RevokeWorkspaceRole, sso
  <2> QED
    BY <2>1, ChangesAssumption DEF Change, TypeOK
<1>2. CASE UpdateZoneSettings \/ SetZoneLifecycle \/ UpdateProvider
  <2>1. /\ zone' \in {"active", "suspended", "archived"}
        /\ mode' \in {"open", "invite_only", "closed"} /\ provider' \in {"off", "on", "jit"}
        /\ UNCHANGED <<people, owner, invite>>
    BY <1>2 DEF UpdateZoneSettings, SetZoneLifecycle, UpdateProvider, TypeOK
  <2> QED
    BY <1>1, <2>1
       DEF TypeOK, SpaceTypes, SpaceInv, MembersHaveRoles, OwnerIsOwner, AcceptedHaveAccounts,
           Held, RolesTyped, people
<1>3. ASSUME NEW u \in People, CreateInvite(u) \/ InviteExpires(u)
      PROVE  SpaceTypes' /\ SpaceInv'
  <2>1. /\ \E s \in {"open", "expired"} : invite' = [invite EXCEPT ![u] = s]
        /\ UNCHANGED <<people, owner, zone, mode, provider>>
    BY <1>3 DEF CreateInvite, InviteExpires
  <2>2. SpaceTypes'
    BY <1>1, <2>1 DEF TypeOK, SpaceTypes, RolesTyped, people
  <2>3. SpaceInv'
    BY <2>1 DEF TypeOK, SpaceInv, MembersHaveRoles, OwnerIsOwner, AcceptedHaveAccounts,
                   Held, people
  <2> QED
    BY <2>2, <2>3
<1>4. ASSUME NEW u \in People, AddMember(u) \/ OpenDirect(u)
      PROVE  SpaceTypes' /\ SpaceInv'
  <2>1. /\ member' = [member EXCEPT ![u] = "active"]
        /\ \E r \in Roles : Give(u, {r})
        /\ inPublic' \in {inPublic, [inPublic EXCEPT ![u] = "active"]}
        /\ UNCHANGED <<account, space>>
    BY <1>4 DEF AddMember, OpenDirect, Roles
  <2>2. PICK r \in Roles : Give(u, {r})
    BY <2>1
  <2>3. /\ RolesTyped' /\ r \in roles'[u]
        /\ \A v \in People : Held(v) \subseteq Held(v)'
    BY <2>2, GiveFacts
  <2>4. SpaceTypes'
    BY <1>1, <2>1, <2>3 DEF TypeOK, SpaceTypes, space
  <2>5. Held(u)' # {}
    BY <2>3 DEF Held
  <2> QED
    BY <2>1, <2>3, <2>4, <2>5, RolesKeep DEF space, TypeOK
<1>5. ASSUME NEW u \in People, UpdateMemberStatus(u) PROVE SpaceTypes' /\ SpaceInv'
  <2>1. /\ member[u] # "none"
        /\ \E s \in {"active", "disabled", "left"} : member' = [member EXCEPT ![u] = s]
        /\ UNCHANGED <<account, roles, revoked, inPublic, space>>
    BY <1>5 DEF UpdateMemberStatus
  <2>2. SpaceTypes'
    BY <1>1, <2>1 DEF TypeOK, SpaceTypes, RolesTyped, space
  <2>3. Held(u)' # {} /\ \A v \in People : Held(v) \subseteq Held(v)'
    BY <2>1 DEF SpaceInv, MembersHaveRoles, Held
  <2> QED
    BY <2>1, <2>2, <2>3, RolesKeep DEF space, TypeOK
<1>6. ASSUME NEW u \in People, UpdateUser(u) PROVE SpaceTypes' /\ SpaceInv'
  <2>1. /\ \E s \in {"active", "locked"} : account' = [account EXCEPT ![u] = s]
        /\ UNCHANGED <<member, roles, revoked, inPublic, space>>
    BY <1>6 DEF UpdateUser
  <2>2. SpaceTypes'
    BY <1>1, <2>1 DEF TypeOK, SpaceTypes, RolesTyped, space
  <2>3. SpaceInv'
    BY <2>1 DEF TypeOK, SpaceInv, MembersHaveRoles, OwnerIsOwner, AcceptedHaveAccounts,
                   Held, space
  <2> QED
    BY <2>2, <2>3
<1>7. ASSUME NEW u \in People, AssignWorkspaceRole(u) PROVE SpaceTypes' /\ SpaceInv'
  <2>1. PICK r \in Roles : Give(u, {r})
    BY <1>7 DEF AssignWorkspaceRole
  <2>2. /\ RolesTyped' /\ r \in roles'[u]
        /\ \A v \in People : Held(v) \subseteq Held(v)'
    BY <2>1, GiveFacts
  <2>3. UNCHANGED <<account, member, inPublic, space>>
    BY <1>7 DEF AssignWorkspaceRole
  <2>4. SpaceTypes'
    BY <1>1, <2>2, <2>3 DEF TypeOK, SpaceTypes, space
  <2>5. Held(u)' # {}
    BY <2>2 DEF Held
  <2> QED
    BY <2>2, <2>3, <2>4, <2>5, RolesKeep DEF space
<1>8. ASSUME NEW u \in People, RevokeWorkspaceRole(u) PROVE SpaceTypes' /\ SpaceInv'
  <2>1. PICK r \in roles[u] : /\ roles' = [roles EXCEPT ![u] = roles[u] \ {r}]
                              /\ revoked' = [revoked EXCEPT ![u] = revoked[u] \cup {r}]
    BY <1>8 DEF RevokeWorkspaceRole
  <2>2. RolesTyped /\ r \in Roles
    BY DEF TypeOK, RolesTyped
  <2>3. RolesTyped'
    BY <2>1, <2>2 DEF RolesTyped
  <2>4. /\ roles'[u] = roles[u] \ {r} /\ revoked'[u] = revoked[u] \cup {r}
        /\ \A v \in People : v # u => roles'[v] = roles[v] /\ revoked'[v] = revoked[v]
    BY <2>1, <2>2 DEF RolesTyped
  <2>5. Held(u)' # {} /\ \A v \in People : Held(v) \subseteq Held(v)'
    BY <2>4 DEF Held
  <2>6. UNCHANGED <<account, member, inPublic, space>>
    BY <1>8 DEF RevokeWorkspaceRole
  <2>7. SpaceTypes'
    BY <1>1, <2>3, <2>6 DEF TypeOK, SpaceTypes, space
  <2> QED
    BY <2>5, <2>6, <2>7, RolesKeep DEF space
<1> QED
  BY <1>2, <1>3, <1>4, <1>5, <1>6, <1>7, <1>8 DEF AdminStep

LEMMA SpaceStep == ASSUME TypeOK, RequestsOK, SpaceInv, Next PROVE SpaceTypes' /\ SpaceInv'
<1>1. ASSUME NEW p \in Requests, Register(p) \/ Login(p) \/ LoginWithGoogle(p) \/ CheckStatus(p)
      PROVE  SpaceTypes' /\ SpaceInv'
  BY <1>1, SpaceUnchanged DEF Register, Login, LoginWithGoogle, CheckStatus, sso
<1>2. ASSUME NEW p \in Requests, Create(p) PROVE SpaceTypes' /\ SpaceInv'
  <2>1. req[p].who \in People
    BY <1>2 DEF Create, RequestsOK, Known
  <2>2. UNCHANGED <<linked, changes>>
    BY <1>2 DEF Create, sso
  <2>3. CASE Welcome(req[p]) /\ CreateUser(req[p]) /\ UNCHANGED <<zone, provider>>
    BY <2>1, <2>2, <2>3, CreateUserKeeps
  <2>4. CASE UNCHANGED <<people, space>>
    BY <2>2, <2>4, SpaceUnchanged
  <2> QED
    BY <1>2, <2>3, <2>4 DEF Create
<1>3. ASSUME NEW p \in Requests, EnsureAccess(p) PROVE SpaceTypes' /\ SpaceInv'
  BY <1>3, EnsureAccessKeeps DEF EnsureAccess, RequestsOK, Known
<1>4. ASSUME NEW p \in Requests, ResolveUser(p) PROVE SpaceTypes' /\ SpaceInv'
  BY <1>4, ResolveUserKeeps DEF ResolveUser, RequestsOK, Known
<1>5. ASSUME NEW p \in Requests, Exchange(p) \/ GrantSso(p) PROVE SpaceTypes' /\ SpaceInv'
  BY <1>5, SpaceUnchanged DEF Exchange, GrantSso
<1>6. ASSUME NEW a \in Auths, AuthStep(a) PROVE SpaceTypes' /\ SpaceInv'
  BY <1>6, SpaceUnchanged DEF AuthStep, Start, AuthExpires, Callback, Complete
<1> QED
  BY <1>1, <1>2, <1>3, <1>4, <1>5, <1>6, AdminKeeps DEF Next, RequestStep

LEMMA InvParts ==
    /\ Inv <=> TypeOK /\ AuthInv /\ SpaceInv
    /\ TypeOK <=> AuthTypes /\ SpaceTypes
  BY DEF Inv, AuthInv, SpaceInv, TypeOK, AuthTypes, SpaceTypes, RolesTyped

LEMMA InitInv == Init => Inv
<1> SUFFICES ASSUME Init PROVE Inv
  OBVIOUS
<1>1. \A p \in Requests : pc[p] = "idle"
  BY DEF Init
<1>2. \A a \in Auths : logins[a] = 0
  BY DEF Init
<1>3. AuthTypes
  BY BlankType DEF Init, AuthTypes, Steps, Stages
<1>4. SpaceTypes
  BY ChangesAssumption DEF Init, SpaceTypes, RolesTyped
<1>5. AuthInv
  BY <1>1, <1>2
     DEF AuthInv, RequestsOK, Known, Authorized, OnAuth, OneRequestEach, NotBefore, OneSession
<1>6. SpaceInv
  BY DEF Init, SpaceInv, MembersHaveRoles, OwnerIsOwner, AcceptedHaveAccounts
<1> QED
  BY <1>3, <1>4, <1>5, <1>6, InvParts

LEMMA InvStep == Inv /\ [Next]_vars => Inv'
<1>1. ASSUME Inv, Next PROVE Inv'
  <2>1. AuthTypes' /\ AuthInv'
    BY <1>1, InvParts, RequestsStep
  <2>2. SpaceTypes' /\ SpaceInv'
    BY <1>1, InvParts, SpaceStep DEF AuthInv
  <2>3. /\ Inv' <=> TypeOK' /\ AuthInv' /\ SpaceInv'
        /\ TypeOK' <=> AuthTypes' /\ SpaceTypes'
    BY DEF Inv, AuthInv, SpaceInv, TypeOK, AuthTypes, SpaceTypes, RolesTyped
  <2> QED
    BY <2>1, <2>2, <2>3
<1>2. ASSUME Inv, UNCHANGED vars PROVE Inv'
  BY <1>2
     DEF Inv, TypeOK, RequestsOK, Known, Authorized, OnAuth, OneRequestEach, NotBefore,
         OneSession, MembersHaveRoles, OwnerIsOwner, AcceptedHaveAccounts, Held, vars, people,
         space, sso
<1> QED
  BY <1>1, <1>2

LEMMA Invariance == Spec => []Inv
  BY InitInv, InvStep, PTL DEF Spec

-----------------------------------------------------------------------------
(* Results.                                                                *)

(* Accounts, memberships, authorizations and requests have their types.    *)
THEOREM TypeCorrect == Spec => []TypeOK
<1>1. Inv => TypeOK
  BY DEF Inv
<1> QED
  BY <1>1, Invariance, PTL

(* By whatever path somebody became the owner or a member: the owner has   *)
(* the owner's role and every member a role, unless an administrator took  *)
(* it away and none was given since; whoever accepted an invite has an     *)
(* account, and an authorization gives at most one session, whatever a     *)
(* browser repeats.                                                        *)
THEOREM AccessStaysConsistent == Spec => []AccessConsistent
<1>1. Inv => AccessConsistent
  BY DEF Inv, AccessConsistent, OneSession, MembersHaveRoles, OwnerIsOwner, AcceptedHaveAccounts,
         Held
<1> QED
  BY <1>1, Invariance, PTL

(* Who may have joined by a step of a request.                             *)
LEMMA JoinStep ==
    ASSUME Inv, Next, NEW u \in People, NEW p \in Requests,
           member[u] # "active", member'[u] = "active", pc[p] # pc'[p]
    PROVE  /\ member[u] # "disabled"
           /\ \/ pc[p] = "access" /\ wasOpen[p]
              \/ pc[p] = "create" /\ zone = "active" /\ mode = "open"
              \/ pc[p] = "create" /\ zone = "active" /\ mode = "invite_only"
                                  /\ invite[u] = "open" /\ invite'[u] = "accepted"
              \/ pc[p] = "sso" /\ provider = "jit"
<1>1. ~UNCHANGED pc /\ ~UNCHANGED member
  OBVIOUS
<1>2. ASSUME NEW q \in Requests, NEW step, NEW r, GoTo(q, step, r) PROVE q = p
  BY <1>2 DEF GoTo, Inv, TypeOK
<1>3. \A q \in Requests : Finish(q) => q = p
  BY <1>2 DEF Finish
<1>4. Known(p) /\ TypeOK
  BY DEF Inv, RequestsOK
<1>5. ASSUME NEW v \in People, NEW extra \in SUBSET Roles, AddMembership(v, extra)
      PROVE  v = u /\ member[u] # "disabled"
  BY <1>4, <1>5, AddFacts
<1>6. CASE \E q \in Requests : Create(q)
  <2>1. PICK q \in Requests : Create(q)
    BY <1>6
  <2>2. q = p
    BY <1>2, <1>3, <2>1 DEF Create
  <2>3. pc[p] = "create" /\ Welcome(req[p]) /\ CreateUser(req[p]) /\ req[p].who \in People
    BY <1>1, <1>4, <2>1, <2>2 DEF Create, people, Known
  <2>4. req[p].who = u /\ member[u] # "disabled"
    BY <1>5, <2>3 DEF CreateUser, Roles
  <2>5. CurrentMode(req[p]) = "invite_only" =>
           zone = "active" /\ mode = "invite_only" /\ invite[u] = "open"
           /\ invite' = [invite EXCEPT ![u] = "accepted"]
    BY <2>3, <2>4 DEF Welcome, CreateUser, CurrentMode
  <2>6. CurrentMode(req[p]) = "open" => zone = "active" /\ mode = "open"
    BY DEF CurrentMode
  <2>7. CurrentMode(req[p]) \in {"open", "invite_only"}
    BY <2>3 DEF Welcome
  <2> QED
    BY <1>4, <2>3, <2>4, <2>5, <2>6, <2>7 DEF TypeOK
<1>7. CASE \E q \in Requests : EnsureAccess(q)
  <2>1. PICK q \in Requests : EnsureAccess(q)
    BY <1>7
  <2>2. q = p /\ pc[p] = "access" /\ req[p].who \in People
    BY <1>3, <1>4, <2>1 DEF EnsureAccess, Known
  <2>3. Joins(req[p]) /\ AddMembership(req[p].who, {})
    BY <1>1, <2>1, <2>2 DEF EnsureAccess
  <2>4. wasOpen[p]
    BY <1>4, <2>2, <2>3 DEF Joins, Known
  <2> QED
    BY <1>5, <2>2, <2>3, <2>4
<1>8. CASE \E q \in Requests : ResolveUser(q)
  <2>1. PICK q \in Requests : ResolveUser(q)
    BY <1>8
  <2>2. q = p /\ pc[p] = "sso" /\ req[p].who \in People
    BY <1>2, <1>3, <1>4, <2>1 DEF ResolveUser, Known
  <2>3. /\ AddMembership(req[p].who, {})
        /\ member[req[p].who] = "active" \/ provider = "jit"
    BY <1>1, <2>1, <2>2 DEF ResolveUser, people
  <2> QED
    BY <1>5, <2>2, <2>3
<1>9. ASSUME NEW q \in Requests,
             \/ Register(q) \/ LoginWithGoogle(q) \/ Login(q) \/ CheckStatus(q)
             \/ Exchange(q) \/ GrantSso(q)
      PROVE  FALSE
  BY <1>1, <1>9 DEF Register, LoginWithGoogle, Login, CheckStatus, Exchange, GrantSso, people
<1>10. ASSUME NEW a \in Auths, AuthStep(a) PROVE FALSE
  BY <1>1, <1>10 DEF AuthStep, Start, AuthExpires, Callback, Complete, people
<1>11. ASSUME AdminStep PROVE FALSE
  BY <1>1, <1>11
     DEF AdminStep, UpdateZoneSettings, SetZoneLifecycle, UpdateProvider, CreateInvite,
         InviteExpires, AddMember, UpdateMemberStatus, UpdateUser, OpenDirect,
         AssignWorkspaceRole, RevokeWorkspaceRole
<1> QED
  BY <1>6, <1>7, <1>8, <1>9, <1>10, <1>11 DEF Next, RequestStep

(* Nobody becomes a member by a request that was not offered it.           *)
THEOREM JoinsWereOfferedAlways == Spec => JoinsWereOffered
<1>1. ASSUME Inv, [Next]_vars
      PROVE  [\A u \in People : \A p \in Requests :
                member[u] # "active" /\ member'[u] = "active" /\ pc[p] # pc'[p] =>
                   /\ member[u] # "disabled"
                   /\ \/ pc[p] = "access" /\ wasOpen[p]
                      \/ pc[p] = "create" /\ zone = "active" /\ mode = "open"
                      \/ pc[p] = "create" /\ zone = "active" /\ mode = "invite_only"
                                          /\ invite[u] = "open" /\ invite'[u] = "accepted"
                      \/ pc[p] = "sso" /\ provider = "jit"]_vars
  BY <1>1, JoinStep
<1> QED
  BY <1>1, Invariance, PTL DEF Spec, JoinsWereOffered

(* An identity stays with its account, and one is linked to an account     *)
(* that was there before only by a verified address.                       *)
THEOREM LinksAreVerifiedAlways == Spec => LinksAreVerified
<1>1. ASSUME Inv, Next, NEW u \in People, linked'[u] # linked[u]
      PROVE  /\ linked[u] = Nobody
             /\ \/ account[u] = "none"
                \/ \E a \in Auths : auth[a].subject = u /\ auth[a].verified
  <2>1. ASSUME ~\E p \in Requests : ResolveUser(p) PROVE UNCHANGED linked
    BY <1>1, <2>1
       DEF Next, RequestStep, AuthStep, AdminStep, Register, LoginWithGoogle, Login, Create,
           CheckStatus, EnsureAccess, Exchange, GrantSso, Start, AuthExpires, Callback, Complete,
           UpdateZoneSettings, SetZoneLifecycle, UpdateProvider, CreateInvite, InviteExpires,
           AddMember, UpdateMemberStatus, UpdateUser, OpenDirect, AssignWorkspaceRole,
           RevokeWorkspaceRole, sso
  <2>2. PICK p \in Requests : ResolveUser(p)
    BY <1>1, <2>1
  <2>3. /\ pc[p] = "sso" /\ linked' = [linked EXCEPT ![req[p].who] = req[p].who]
        /\ linked[req[p].who] = Nobody
        /\ MatchesAccount(req[p].auth) \/ account[req[p].who] = "none"
    BY <1>1, <2>2 DEF ResolveUser
  <2>4. /\ req[p].auth \in Auths /\ req[p].who = auth[req[p].auth].subject
    BY <1>1, <2>3 DEF Inv, RequestsOK, Authorized, OnAuth
  <2>5. req[p].who = u
    BY <1>1, <2>3 DEF Inv, TypeOK
  <2> QED
    BY <2>3, <2>4, <2>5 DEF MatchesAccount
<1>2. ASSUME Inv, [Next]_vars
      PROVE  [\A u \in People : linked'[u] # linked[u] =>
                /\ linked[u] = Nobody
                /\ \/ account[u] = "none"
                   \/ \E a \in Auths : auth[a].subject = u /\ auth[a].verified]_vars
  BY <1>1, <1>2
<1> QED
  BY <1>2, Invariance, PTL DEF Spec, LinksAreVerified
===============================================================================
