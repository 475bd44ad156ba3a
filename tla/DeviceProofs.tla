---------------------------- MODULE DeviceProofs ----------------------------
(***************************************************************************)
(* What the device of a user relies on, for every value of the constants:  *)
(* its session, its catch-up with the server, its outbox and the messages  *)
(* of a chat room.                                                         *)
(***************************************************************************)
EXTENDS Sessions, MCMobile, FiniteSetTheorems, WellFoundedInduction, TLAPS


-----------------------------------------------------------------------------
(* The inductive invariant.                                                *)

SessionRows == [st : {"none", "live", "revoked"}, tok : 0..MaxTokens, expired : BOOLEAN]

(* What a request remembers of the rows it read.                           *)
RequestRows == [op : {"none", "login", "refresh", "logout"},
                tok : 0..MaxTokens, sid : Sids \cup {0},
                zone : {"none", "active", "suspended", "archived"},
                mode : {"none", "open", "closed"}]

RequestTypes == req \in [Requests -> RequestRows]

Steps == {"idle", "resolve", "user", "access", "grant", "revoke"}

(* An empty row has no token; the tokens of the others are distinct and    *)
(* were issued.                                                            *)
TokensAreUnique ==
    /\ \A s \in Sids : sess[s].tok \in 0..issued
                       /\ (sess[s].st = "none" <=> sess[s].tok = 0)
    /\ \A s, t \in Sids : s # t /\ sess[s].st # "none" => sess[s].tok # sess[t].tok

(* A refresh past its look-up, and a logout, name a row that is still      *)
(* there; until a rotation is observed a logout's row has its token.       *)
RowsAreKept ==
    \A p \in Requests :
        /\ pc[p] = "idle" => since[p] = {} /\ req[p] = Blank
        /\ req[p].op \in {"refresh", "logout"}
              => req[p].sid \in Sids /\ sess[req[p].sid].st # "none"
        /\ pc[p] = "revoke" => /\ req[p].op = "logout"
                               /\ "rotated" \in since[p] \/ sess[req[p].sid].tok = req[p].tok
        /\ pc[p] = "grant" => req[p].op \in {"login", "refresh"}
        /\ pc[p] \in {"resolve", "user", "access"} => req[p].op \in {"login", "refresh"}

(* The sessions a logout has ended are revoked.                            *)
QuitIsRevoked == \A s \in quit : sess[s].st = "revoked"

(* A request past a check has seen it succeed while it ran.                *)
ChecksWereMade ==
    \A p \in Requests :
        /\ pc[p] \in {"user", "access", "grant"} => "zone" \in since[p]
        /\ pc[p] \in {"access", "grant"} => "user" \in since[p]
        /\ pc[p] = "grant" => "member" \in since[p]

IInv == /\ TypeOK /\ RequestTypes /\ TokensAreUnique
        /\ RowsAreKept /\ QuitIsRevoked /\ ChecksWereMade

-----------------------------------------------------------------------------
(* Types.                                                                  *)

LEMMA FreeSid == ASSUME FreeSids # {} PROVE (CHOOSE s \in FreeSids : TRUE) \in FreeSids
  OBVIOUS

(* The statements on user_sessions keep the type of its rows.              *)
LEMMA RowTypes ==
    ASSUME TypeOK,
           \/ CreateSession
           \/ \E s \in Sids : Rotate(s)
           \/ \E S \in SUBSET Sids : Revoke(S) /\ UNCHANGED issued
    PROVE  sess' \in [Sids -> SessionRows] /\ issued' \in 0..MaxTokens
<1> USE BoundAssumption DEF TypeOK, SessionRows
<1>1. CASE CreateSession
  <2>1. PICK s \in Sids : sess' = [sess EXCEPT ![s] = [st |-> "live", tok |-> issued + 1,
                                                       expired |-> FALSE]]
    BY <1>1, FreeSid DEF CreateSession, FreeSids
  <2>2. issued' = issued + 1 /\ issued < MaxTokens
    BY <1>1 DEF CreateSession
  <2> QED
    BY <2>1, <2>2
<1>2. ASSUME NEW s \in Sids, Rotate(s) PROVE sess' \in [Sids -> SessionRows] /\ issued' \in 0..MaxTokens
  <2>1. CASE Rotatable(s)
    <3>1. /\ sess' = [sess EXCEPT ![s] = [st |-> "live", tok |-> issued + 1, expired |-> FALSE]]
          /\ issued' = issued + 1 /\ issued < MaxTokens
      BY <1>2, <2>1 DEF Rotate
    <3> QED
      BY <3>1
  <2>2. CASE ~Rotatable(s)
    BY <1>2, <2>2 DEF Rotate, rows
  <2> QED
    BY <2>1, <2>2
<1>3. ASSUME NEW S \in SUBSET Sids, Revoke(S)
      PROVE  sess' \in [Sids -> SessionRows]
  <2>1. \A s \in Sids : sess[s] \in SessionRows /\ [sess[s] EXCEPT !.st = "revoked"] \in SessionRows
    OBVIOUS
  <2> QED
    BY <1>3, <2>1 DEF Revoke
<1> QED
  BY <1>1, <1>2, <1>3

LEMMA TypeStep == ASSUME TypeOK, RequestTypes, RowsAreKept, Next PROVE TypeOK' /\ RequestTypes'
<1> USE BoundAssumption
<1>1. since' \in [Requests -> SUBSET {"user", "member", "zone", "rotated"}]
  BY DEF Next, Observe, Facts, TypeOK
<1>2. ASSUME NEW p \in Requests, RequestStep(p) PROVE TypeOK' /\ RequestTypes'
  <2>1. ASSUME NEW step \in Steps, NEW r,
               GoTo(p, step, r),
               r \in RequestRows
        PROVE  RequestTypes' /\ pc' \in [Requests -> Steps]
    BY <2>1 DEF GoTo, RequestTypes, TypeOK, Steps
  <2>2. Blank \in RequestRows
    BY DEF Blank, RequestRows
  <2>3. CASE Login(p)
    <3>1. RequestTypes' /\ pc' \in [Requests -> Steps]
      <4>1. [op |-> "login", tok |-> 0, sid |-> 0, zone |-> zone, mode |-> mode] \in RequestRows
        BY DEF RequestRows, TypeOK
      <4> QED
        BY <2>1, <2>3, <4>1 DEF Login, Steps
    <3> QED
      BY <1>1, <2>3, <3>1 DEF Login, rows, world, TypeOK, Steps
  <2>4. CASE Refresh(p) \/ Logout(p)
    <3>1. RequestTypes' /\ pc' \in [Requests -> Steps]
      BY <2>1, <2>4 DEF Refresh, Logout, FindByToken, Blank, TypeOK, RequestRows, Steps
    <3> QED
      BY <1>1, <2>4, <3>1 DEF Refresh, Logout, rows, world, TypeOK, Steps
  <2>5. CASE RefreshResolve(p)
    <3>1. RequestTypes' /\ pc' \in [Requests -> Steps]
      <4>1. [req[p] EXCEPT !.zone = zone, !.mode = mode] \in RequestRows
        BY DEF RequestTypes, RequestRows, TypeOK
      <4> QED
        BY <2>1, <2>2, <2>5, <4>1 DEF RefreshResolve, Finish, Steps
    <3> QED
      BY <1>1, <2>5, <3>1 DEF RefreshResolve, rows, world, TypeOK, Steps
  <2>6. CASE CheckUser(p)
    <3>1. RequestTypes' /\ pc' \in [Requests -> Steps]
      BY <2>1, <2>2, <2>6 DEF CheckUser, Finish, RequestTypes, Steps
    <3> QED
      BY <1>1, <2>6, <3>1 DEF CheckUser, rows, world, TypeOK, Steps
  <2>7. CASE EnsureAccess(p)
    <3>1. RequestTypes' /\ pc' \in [Requests -> Steps]
      BY <2>1, <2>2, <2>7 DEF EnsureAccess, Finish, RequestTypes, Steps
    <3> QED
      BY <1>1, <2>7, <3>1 DEF EnsureAccess, rows, TypeOK, Steps
  <2>8. CASE Grant(p)
    <3>1. RequestTypes' /\ pc' \in [Requests -> Steps]
      BY <2>1, <2>2, <2>8 DEF Grant, Finish, Steps
    <3>2. req[p].op # "login" => req[p].sid \in Sids
      BY <2>8 DEF Grant, RowsAreKept
    <3>3. sess' \in [Sids -> SessionRows] /\ issued' \in 0..MaxTokens
      BY <2>8, <3>2, RowTypes DEF Grant
    <3> QED
      BY <1>1, <2>8, <3>1, <3>3 DEF Grant, world, TypeOK, SessionRows, Steps
  <2>9. CASE LogoutRevoke(p)
    <3>1. RequestTypes' /\ pc' \in [Requests -> Steps]
      BY <2>1, <2>2, <2>9 DEF LogoutRevoke, Finish, Steps
    <3>2. sess' \in [Sids -> SessionRows]
      BY <2>9, RowTypes DEF LogoutRevoke, FindByToken
    <3>3. quit' \subseteq Sids
      BY <2>9 DEF LogoutRevoke, RowsAreKept, TypeOK
    <3> QED
      BY <1>1, <2>9, <3>1, <3>2, <3>3 DEF LogoutRevoke, world, TypeOK, SessionRows, Steps
  <2> QED
    BY <1>2, <2>3, <2>4, <2>5, <2>6, <2>7, <2>8, <2>9 DEF RequestStep
<1>3. ASSUME \/ \E s \in Sids : RevokeSession(s)
             \/ RevokeAllSessions \/ SetZoneLifecycle
      PROVE  TypeOK' /\ RequestTypes'
  <2>1. sess' \in [Sids -> SessionRows]
    BY <1>3, RowTypes DEF RevokeSession, RevokeAllSessions, SetZoneLifecycle
  <2>2. changes' \in 0..MaxChanges
    <3>1. changes < MaxChanges /\ changes' = changes + 1
      BY <1>3 DEF RevokeSession, RevokeAllSessions, SetZoneLifecycle
    <3> QED
      BY <3>1 DEF TypeOK
  <2>3. zone' \in {"active", "suspended", "archived"}
    BY <1>3 DEF RevokeSession, RevokeAllSessions, SetZoneLifecycle, TypeOK, world
  <2>4. UNCHANGED <<issued, user, member, mode, pc, req, quit>>
    BY <1>3 DEF RevokeSession, RevokeAllSessions, SetZoneLifecycle, world
  <2> QED
    BY <1>1, <2>1, <2>2, <2>3, <2>4 DEF TypeOK, RequestTypes, SessionRows
<1>4. ASSUME NEW s \in Sids, SessionExpires(s) PROVE TypeOK' /\ RequestTypes'
  <2>1. sess' \in [Sids -> SessionRows]
    <3>1. sess \in [Sids -> SessionRows]
      BY DEF TypeOK, SessionRows
    <3>2. [sess[s] EXCEPT !.expired = TRUE] \in SessionRows
      BY <3>1 DEF SessionRows
    <3>3. sess' = [sess EXCEPT ![s] = [sess[s] EXCEPT !.expired = TRUE]]
      BY <1>4 DEF SessionExpires
    <3> QED
      BY <3>1, <3>2, <3>3
  <2> QED
    BY <1>1, <1>4, <2>1 DEF SessionExpires, TypeOK, RequestTypes, world, SessionRows
<1>5. CASE CleanupExpiredSessions
  <2>1. sess' \in [Sids -> SessionRows] /\ quit' \subseteq Sids
    <3>1. NoSess \in SessionRows
      BY DEF NoSess, SessionRows
    <3>2. PICK s \in Sids : sess' = [sess EXCEPT ![s] = NoSess] /\ quit' = quit \ {s}
      BY <1>5 DEF CleanupExpiredSessions
    <3> QED
      BY <3>1, <3>2 DEF TypeOK, SessionRows
  <2> QED
    BY <1>1, <1>5, <2>1 DEF CleanupExpiredSessions, TypeOK, RequestTypes, world, SessionRows
<1>6. CASE SetUserStatus \/ SetMemberStatus \/ AddMember \/ SetRegistrationMode
  <2>1. changes' \in 0..MaxChanges
    BY <1>6 DEF SetUserStatus, SetMemberStatus, AddMember, SetRegistrationMode, TypeOK
  <2> QED
    BY <1>1, <1>6, <2>1 DEF SetUserStatus, SetMemberStatus, AddMember, SetRegistrationMode,
                            TypeOK, RequestTypes, rows
<1> QED
  BY <1>2, <1>3, <1>4, <1>5, <1>6 DEF Next, AdminStep

-----------------------------------------------------------------------------
(* What a step may do to the table of sessions.                            *)

NewToken(s) ==
    /\ sess[s].st \in {"none", "live"}
    /\ sess' = [sess EXCEPT ![s] = [st |-> "live", tok |-> issued + 1, expired |-> FALSE]]
    /\ issued' = issued + 1

TableStep ==
    \/ UNCHANGED rows
    \/ \E s \in Sids : NewToken(s)
    \/ \E S \in SUBSET Sids : Revoke(S) /\ UNCHANGED issued
    \/ \E s \in Sids : SessionExpires(s)
    \/ CleanupExpiredSessions

LEMMA TableSteps == ASSUME TypeOK, RowsAreKept, Next PROVE TableStep
<1>1. ASSUME NEW p \in Requests, Grant(p) PROVE TableStep
  <2>1. CASE CreateSession
    <3>1. PICK s \in FreeSids :
             /\ sess' = [sess EXCEPT ![s] = [st |-> "live", tok |-> issued + 1, expired |-> FALSE]]
             /\ issued' = issued + 1
      BY <2>1, FreeSid DEF CreateSession
    <3> QED
      BY <3>1 DEF TableStep, NewToken, FreeSids
  <2>2. CASE req[p].op # "login"
    <3>1. req[p].sid \in Sids /\ Rotate(req[p].sid)
      BY <1>1, <2>2 DEF Grant, RowsAreKept
    <3> QED
      BY <3>1 DEF TableStep, NewToken, Rotate, Rotatable
  <2> QED
    BY <1>1, <2>1, <2>2 DEF Grant
<1>2. ASSUME NEW p \in Requests, LogoutRevoke(p) PROVE TableStep
  BY <1>2 DEF LogoutRevoke, FindByToken, TableStep
<1> QED
  BY <1>1, <1>2 DEF Next, RequestStep, AdminStep, Login, Refresh, RefreshResolve, CheckUser,
                    EnsureAccess, Logout, RevokeSession, RevokeAllSessions, SetUserStatus,
                    SetMemberStatus, AddMember, SetZoneLifecycle, SetRegistrationMode,
                    TableStep, rows

(* The same, for one session: revoked stays revoked until it is removed.   *)
LEMMA SessionMoves ==
    ASSUME TypeOK, TableStep, NEW s \in Sids
    PROVE  \/ sess'[s] = sess[s]
           \/ NewToken(s)
           \/ /\ sess[s].st = "live" /\ sess'[s].tok = sess[s].tok
              /\ sess'[s].st \in {"live", "revoked"}
           \/ CleanupExpiredSessions /\ sess'[s] = NoSess
<1> USE DEF TypeOK
<1>1. ASSUME NEW t \in Sids, NewToken(t), t # s PROVE sess'[s] = sess[s]
  BY <1>1 DEF NewToken
<1>2. ASSUME NEW S \in SUBSET Sids, Revoke(S)
      PROVE  \/ sess'[s] = sess[s]
             \/ sess[s].st = "live" /\ sess'[s].tok = sess[s].tok /\ sess'[s].st = "revoked"
  BY <1>2 DEF Revoke
<1>3. ASSUME NEW t \in Sids, SessionExpires(t)
      PROVE  \/ sess'[s] = sess[s]
             \/ sess[s].st = "live" /\ sess'[s].tok = sess[s].tok /\ sess'[s].st = "live"
  BY <1>3 DEF SessionExpires
<1>4. CASE CleanupExpiredSessions
  BY <1>4 DEF CleanupExpiredSessions
<1> QED
  BY <1>1, <1>2, <1>3, <1>4 DEF TableStep, rows

-----------------------------------------------------------------------------
(* Each conjunct of the invariant is preserved.                            *)

LEMMA TokenStep ==
    ASSUME TypeOK, TypeOK', TokensAreUnique, RowsAreKept, Next PROVE TokensAreUnique'
<1> USE BoundAssumption DEF TokensAreUnique
<1>1. /\ \A s \in Sids : sess[s] \in SessionRows /\ sess'[s] \in SessionRows
      /\ issued \in Nat /\ issued' \in Nat
  BY DEF TypeOK, SessionRows
<1>2. TableStep
  BY TableSteps
<1>3. ASSUME NEW s \in Sids, NewToken(s) PROVE TokensAreUnique'
  <2>1. \A t \in Sids \ {s} : sess'[t] = sess[t]
    BY <1>3 DEF NewToken, TypeOK
  <2>2. sess'[s].tok = issued + 1 /\ sess'[s].st = "live" /\ issued' = issued + 1
    BY <1>3 DEF NewToken, TypeOK
  <2>3. \A t \in Sids : sess[t].tok \in 0..issued
    OBVIOUS
  <2>4. \A t \in Sids \ {s} : sess[t].tok \in 0..(issued + 1) /\ sess[t].tok # issued + 1
    BY <1>1, <2>3
  <2>5. \A t \in Sids : sess'[t].tok \in 0..issued'
                           /\ (sess'[t].st = "none" <=> sess'[t].tok = 0)
    BY <1>1, <2>1, <2>2, <2>4
  <2>6. ASSUME NEW t \in Sids, NEW u \in Sids, t # u, sess'[t].st # "none"
        PROVE  sess'[t].tok # sess'[u].tok
    <3>1. CASE t = s
      BY <2>1, <2>2, <2>4, <2>6, <3>1
    <3>2. CASE u = s
      BY <2>1, <2>2, <2>4, <2>6, <3>2
    <3>3. CASE t # s /\ u # s
      BY <2>1, <2>6, <3>3
    <3> QED
      BY <3>1, <3>2, <3>3
  <2> QED
    BY <2>5, <2>6
<1>4. ASSUME issued' = issued,
             \A s \in Sids : \/ sess'[s].tok = sess[s].tok
                                /\ (sess'[s].st = "none" <=> sess[s].st = "none")
                             \/ sess'[s] = NoSess
      PROVE  TokensAreUnique'
  <2>1. NoSess.st = "none" /\ NoSess.tok = 0
    BY DEF NoSess
  <2> QED
    BY <1>1, <1>4, <2>1
<1>5. CASE ~\E s \in Sids : NewToken(s)
  <2>1. issued' = issued
    BY <1>2, <1>5 DEF TableStep, rows, SessionExpires, CleanupExpiredSessions
  <2> QED
    BY <1>2, <1>4, <1>5, <2>1, SessionMoves
<1> QED
  BY <1>3, <1>5

LEMMA RowsStep ==
    ASSUME TypeOK, RequestTypes, TypeOK', RequestTypes', RowsAreKept, Next PROVE RowsAreKept'
<1> USE DEF RowsAreKept
<1>1. TableStep
  BY TableSteps
<1>2. ASSUME NEW p \in Requests, req'[p] = req[p], pc'[p] = pc[p],
             req[p].op \in {"refresh", "logout"}
      PROVE  sess'[req[p].sid].st # "none"
  <2>1. req[p].sid \in Sids /\ sess[req[p].sid].st # "none"
    BY <1>2
  <2> QED
    <3> DEFINE s == req[p].sid
    <3>1. \/ sess'[s].st # "none"
          \/ CleanupExpiredSessions /\ sess'[s] # sess[s]
      BY <1>1, <2>1, SessionMoves DEF NewToken, TypeOK
    <3>2. CleanupExpiredSessions => sess'[s] = sess[s]
      BY <2>1 DEF CleanupExpiredSessions, TypeOK
    <3> QED
      BY <3>1, <3>2
<1>3. \A p \in Requests : since'[p] = IF pc'[p] = "idle" THEN {} ELSE since[p] \cup Facts(p)
  BY DEF Next, Observe
<1> DEFINE Kept(p) ==
             /\ pc'[p] = "idle" => since'[p] = {} /\ req'[p] = Blank
             /\ req'[p].op \in {"refresh", "logout"}
                   => req'[p].sid \in Sids /\ sess'[req'[p].sid].st # "none"
             /\ pc'[p] = "revoke" => /\ req'[p].op = "logout"
                                     /\ "rotated" \in since'[p] \/ sess'[req'[p].sid].tok = req'[p].tok
             /\ pc'[p] = "grant" => req'[p].op \in {"login", "refresh"}
             /\ pc'[p] \in {"resolve", "user", "access"} => req'[p].op \in {"login", "refresh"}
<1>4. ASSUME NEW p \in Requests, req'[p] = req[p], pc'[p] = pc[p] PROVE Kept(p)
  <2>1. pc[p] = "revoke" => req[p].sid # 0
    BY BoundAssumption
  <2>2. pc[p] = "revoke" => "rotated" \in since'[p] \/ sess'[req[p].sid].tok = req[p].tok
    BY <1>3, <1>4, <2>1 DEF Facts
  <2> QED
    BY <1>2, <1>3, <1>4, <2>2
<1>5. ASSUME NEW p \in Requests, GoTo(p, "idle", Blank) PROVE Kept(p)
  <2>1. pc'[p] = "idle" /\ req'[p] = Blank /\ Blank.op = "none"
    BY <1>5 DEF GoTo, TypeOK, RequestTypes, Blank
  <2> QED
    BY <1>3, <2>1
<1>6. ASSUME NEW p \in Requests, NEW step, NEW r, GoTo(p, step, r), UNCHANGED rows,
             step \in {"resolve", "user", "access", "grant"}, r.op \in {"login", "refresh"},
             r.op = "refresh" => r.sid \in Sids /\ sess[r.sid].st # "none"
      PROVE  Kept(p)
  <2>1. pc'[p] = step /\ req'[p] = r /\ sess' = sess
    BY <1>6 DEF GoTo, TypeOK, RequestTypes, rows
  <2> QED
    BY <1>6, <2>1
<1>7. ASSUME NEW p \in Requests, RequestStep(p) PROVE Kept(p)
  <2>1. CASE Login(p)
    BY <1>6, <2>1 DEF Login
  <2>2. CASE Refresh(p)
    <3>0. PICK t \in 1..issued : \E s \in FindByToken(t) :
             GoTo(p, "resolve", [Blank EXCEPT !.op = "refresh", !.tok = t, !.sid = s])
      BY <2>2 DEF Refresh
    <3>1. PICK s \in FindByToken(t) :
             GoTo(p, "resolve", [Blank EXCEPT !.op = "refresh", !.tok = t, !.sid = s])
      BY <3>0
    <3>2. UNCHANGED rows /\ s \in Sids /\ sess[s].st # "none"
      BY <2>2 DEF Refresh, FindByToken
    <3>3. /\ [Blank EXCEPT !.op = "refresh", !.tok = t, !.sid = s].op = "refresh"
          /\ [Blank EXCEPT !.op = "refresh", !.tok = t, !.sid = s].sid = s
      BY DEF Blank
    <3> QED
      BY <1>6, <3>1, <3>2, <3>3
  <2>3. ASSUME NEW step \in {"resolve", "user", "access"}, pc[p] = step,
               NEW to \in {"user", "access", "grant"}, NEW r \in RequestRows,
               r.op = req[p].op, r.sid = req[p].sid, GoTo(p, to, r), UNCHANGED rows
        PROVE  Kept(p)
    BY <1>6, <2>3
  <2>4. CASE RefreshResolve(p)
    <3>0. req[p] \in RequestRows /\ zone \in {"active", "suspended", "archived"}
          /\ mode \in {"open", "closed"}
      BY DEF RequestTypes, TypeOK
    <3>1. [req[p] EXCEPT !.zone = zone, !.mode = mode] \in RequestRows
      BY <3>0 DEF RequestRows
    <3>2. /\ [req[p] EXCEPT !.zone = zone, !.mode = mode].op = req[p].op
          /\ [req[p] EXCEPT !.zone = zone, !.mode = mode].sid = req[p].sid
      BY DEF RequestTypes, RequestRows
    <3> QED
      BY <1>5, <2>3, <2>4, <3>1, <3>2 DEF RefreshResolve, Finish
  <2>5. CASE CheckUser(p) \/ EnsureAccess(p)
    <3>1. req[p] \in RequestRows
      BY DEF RequestTypes
    <3> QED
      BY <1>5, <2>3, <2>5, <3>1 DEF CheckUser, EnsureAccess, Finish
  <2>6. CASE Grant(p) \/ LogoutRevoke(p)
    BY <1>5, <2>6 DEF Grant, LogoutRevoke, Finish
  <2>7. CASE Logout(p)
    <3>0. PICK t \in 1..issued : \E s \in FindByToken(t) :
             GoTo(p, "revoke", [Blank EXCEPT !.op = "logout", !.tok = t, !.sid = s])
      BY <2>7 DEF Logout
    <3>1. PICK s \in FindByToken(t) :
             GoTo(p, "revoke", [Blank EXCEPT !.op = "logout", !.tok = t, !.sid = s])
      BY <3>0
    <3>2. sess' = sess /\ s \in Sids /\ sess[s].st # "none" /\ sess[s].tok = t
      BY <2>7 DEF Logout, FindByToken, rows
    <3>3. /\ pc'[p] = "revoke" /\ req'[p].op = "logout" /\ req'[p].sid = s /\ req'[p].tok = t
      BY <3>1 DEF GoTo, Blank, TypeOK, RequestTypes
    <3> QED
      BY <3>2, <3>3
  <2> QED
    BY <1>7, <2>1, <2>2, <2>4, <2>5, <2>6, <2>7 DEF RequestStep
<1>8. ASSUME NEW p \in Requests, RequestStep(p), NEW q \in Requests \ {p}
      PROVE  req'[q] = req[q] /\ pc'[q] = pc[q]
  <2>1. \E step, r : GoTo(p, step, r)
    BY <1>8 DEF RequestStep, Login, Refresh, RefreshResolve, CheckUser, EnsureAccess, Grant,
                Logout, LogoutRevoke, Finish
  <2> QED
    BY <2>1, <1>8 DEF GoTo, TypeOK, RequestTypes
<1>9. CASE \E p \in Requests : RequestStep(p)
  BY <1>4, <1>7, <1>8, <1>9
<1>10. CASE UNCHANGED <<pc, req>>
  BY <1>4, <1>10
<1> QED
  BY <1>9, <1>10 DEF Next, AdminStep, RevokeSession, RevokeAllSessions, SetUserStatus,
                     SetMemberStatus, AddMember, SetZoneLifecycle, SetRegistrationMode,
                     CleanupExpiredSessions, SessionExpires

LEMMA QuitStep ==
    ASSUME TypeOK, RequestTypes, TypeOK', RowsAreKept, QuitIsRevoked, Next PROVE QuitIsRevoked'
<1> USE DEF QuitIsRevoked
<1>1. TableStep
  BY TableSteps
<1>2. ASSUME NEW s \in quit, ~CleanupExpiredSessions PROVE sess'[s].st = "revoked"
  <2>1. s \in Sids
    BY DEF TypeOK
  <2> QED
    BY <1>1, <1>2, <2>1, SessionMoves DEF NewToken
<1>3. ASSUME NEW p \in Requests, LogoutRevoke(p), "rotated" \notin since[p]
      PROVE  sess'[req[p].sid].st = "revoked"
  <2> DEFINE s == req[p].sid
  <2>1. /\ s \in Sids /\ sess[s].st # "none" /\ sess[s].tok = req[p].tok
    BY <1>3 DEF LogoutRevoke, RowsAreKept
  <2>2. s \in FindByToken(req[p].tok)
    BY <2>1 DEF FindByToken
  <2>3. sess[s].st \in {"live", "revoked"} /\ sess[s] \in SessionRows
    BY <2>1 DEF TypeOK, SessionRows
  <2>4. sess'[s] = IF sess[s].st = "live" THEN [sess[s] EXCEPT !.st = "revoked"] ELSE sess[s]
    BY <1>3, <2>1, <2>2 DEF LogoutRevoke, Revoke
  <2> QED
    BY <2>3, <2>4 DEF SessionRows
<1>4. CASE CleanupExpiredSessions
  BY <1>4 DEF CleanupExpiredSessions, TypeOK
<1>5. ASSUME NEW p \in Requests, LogoutRevoke(p) PROVE QuitIsRevoked'
  <2>1. ~CleanupExpiredSessions \/ QuitIsRevoked'
    BY <1>4
  <2>2. quit' \subseteq quit \cup (IF "rotated" \in since[p] THEN {} ELSE {req[p].sid})
    BY <1>5 DEF LogoutRevoke
  <2> QED
    BY <1>2, <1>3, <1>5, <2>1, <2>2
<1>6. CASE quit' = quit /\ ~CleanupExpiredSessions
  BY <1>2, <1>6
<1> QED
  BY <1>4, <1>5, <1>6
     DEF Next, RequestStep, AdminStep, Login, Refresh, RefreshResolve, CheckUser, EnsureAccess,
         Grant, Logout, RevokeSession, RevokeAllSessions, SetUserStatus, SetMemberStatus,
         AddMember, SetZoneLifecycle, SetRegistrationMode, SessionExpires

LEMMA CheckStep ==
    ASSUME TypeOK, RequestTypes, ChecksWereMade, Next PROVE ChecksWereMade'
<1> USE DEF ChecksWereMade
<1>1. \A p \in Requests : since'[p] = IF pc'[p] = "idle" THEN {} ELSE since[p] \cup Facts(p)
  BY DEF Next, Observe
<1> DEFINE Made(p) == /\ pc'[p] \in {"user", "access", "grant"} => "zone" \in since'[p]
                      /\ pc'[p] \in {"access", "grant"} => "user" \in since'[p]
                      /\ pc'[p] = "grant" => "member" \in since'[p]
<1>2. ASSUME NEW p \in Requests, pc'[p] = pc[p] \/ pc'[p] \in {"idle", "resolve", "revoke"}
      PROVE  Made(p)
  BY <1>1, <1>2
<1>3. ASSUME NEW p \in Requests, RequestStep(p) PROVE Made(p)
  <2>1. CASE (Login(p) \/ RefreshResolve(p)) /\ pc'[p] = "user"
    <3>1. pc'[p] = "user" /\ Resolvable /\ zone' = zone
      BY <2>1 DEF Login, RefreshResolve, world, Finish, GoTo, TypeOK
    <3>2. "zone" \in since'[p]
      BY <1>1, <3>1 DEF Resolvable, Facts
    <3> QED
      BY <3>1, <3>2
  <2>2. CASE CheckUser(p) /\ pc'[p] = "access"
    BY <1>1, <2>2 DEF CheckUser, Facts, world, Finish, GoTo, TypeOK
  <2>3. CASE EnsureAccess(p) /\ pc'[p] = "grant"
    BY <1>1, <2>3 DEF EnsureAccess, Facts, Finish, GoTo, TypeOK
  <2> QED
    BY <1>2, <1>3, <2>1, <2>2, <2>3
       DEF RequestStep, Login, Refresh, RefreshResolve, CheckUser, EnsureAccess, Grant, Logout,
           LogoutRevoke, Finish, GoTo, TypeOK
<1>4. ASSUME NEW p \in Requests, RequestStep(p), NEW q \in Requests \ {p} PROVE pc'[q] = pc[q]
  BY <1>4 DEF RequestStep, Login, Refresh, RefreshResolve, CheckUser, EnsureAccess, Grant,
              Logout, LogoutRevoke, Finish, GoTo, TypeOK
<1>5. CASE \E p \in Requests : RequestStep(p)
  BY <1>2, <1>3, <1>4, <1>5
<1>6. CASE pc' = pc
  BY <1>2, <1>6
<1> QED
  BY <1>5, <1>6 DEF Next, AdminStep, RevokeSession, RevokeAllSessions, SetUserStatus,
                    SetMemberStatus, AddMember, SetZoneLifecycle, SetRegistrationMode,
                    CleanupExpiredSessions, SessionExpires

-----------------------------------------------------------------------------
(* The theorems.                                                           *)

LEMMA Inductive == Spec => []IInv
<1>1. Init => IInv
  <2> SUFFICES ASSUME Init PROVE IInv
    OBVIOUS
  <2>1. NoSess \in SessionRows /\ NoSess.st = "none" /\ NoSess.tok = 0
    BY BoundAssumption DEF NoSess, SessionRows
  <2>2. Blank \in RequestRows /\ Blank.op = "none"
    BY BoundAssumption DEF Blank, RequestRows
  <2>3. TypeOK
    BY <2>1, BoundAssumption DEF Init, TypeOK, SessionRows
  <2>4. RequestTypes
    BY <2>2 DEF Init, RequestTypes
  <2> QED
    BY <2>1, <2>2, <2>3, <2>4, BoundAssumption
       DEF Init, IInv, TokensAreUnique, RowsAreKept, QuitIsRevoked, ChecksWereMade
<1>2. IInv /\ [Next]_vars => IInv'
  <2> SUFFICES ASSUME IInv, [Next]_vars PROVE IInv'
    OBVIOUS
  <2>1. CASE Next
    <3>1. TypeOK' /\ RequestTypes'
      BY <2>1, TypeStep DEF IInv
    <3> QED
      BY <2>1, <3>1, TokenStep, RowsStep, QuitStep, CheckStep DEF IInv
  <2>2. CASE UNCHANGED vars
    BY <2>2 DEF vars, rows, world, IInv, TypeOK, RequestTypes, TokensAreUnique, RowsAreKept,
                QuitIsRevoked, ChecksWereMade
  <2> QED
    BY <2>1, <2>2
<1> QED
  BY <1>1, <1>2, PTL DEF Spec

(* Every variable keeps its type, whatever the requests and the            *)
(* administrators do.                                                      *)
THEOREM TypeCorrect == Spec => []TypeOK
<1>1. IInv => TypeOK
  BY DEF IInv
<1> QED
  BY <1>1, Inductive, PTL

(* After a logout the session it was called for is over, unless a refresh  *)
(* rotated the token between the two statements of the logout; and no two  *)
(* sessions ever share a token.                                            *)
THEOREM LoggedOutStaysOutAlways == Spec => []LoggedOutStaysOut
<1>1. IInv => LoggedOutStaysOut
  BY DEF IInv, LoggedOutStaysOut, QuitIsRevoked, TokensAreUnique
<1> QED
  BY <1>1, Inductive, PTL

(* A session that was revoked stays revoked until its row is removed: no   *)
(* refresh that had read it as live brings it back.                        *)
THEOREM RevokedStaysRevoked == Spec => RevocationIsFinal
<1> DEFINE A == \A s \in Sids : sess[s].st = "revoked" =>
                    sess'[s] = sess[s] \/ sess'[s].st = "none"
<1>1. IInv /\ [Next]_vars => [A]_vars
  <2> SUFFICES ASSUME IInv, Next, NEW s \in Sids, sess[s].st = "revoked"
               PROVE  sess'[s] = sess[s] \/ sess'[s].st = "none"
    OBVIOUS
  <2>1. TypeOK /\ TableStep
    BY TableSteps DEF IInv
  <2>2. NoSess.st = "none"
    BY DEF NoSess
  <2> QED
    BY <2>1, <2>2, SessionMoves DEF NewToken
<1> QED
  BY <1>1, Inductive, PTL DEF Spec, RevocationIsFinal

(* A token is handed out only by a request while which the account was     *)
(* active, it was a member and its zone was reachable, each at some time.  *)
THEOREM GrantsWereAllowedAlways == Spec => GrantsWereAllowed
<1> DEFINE A == issued' > issued =>
                    \E p \in Requests : pc[p] = "grant" /\ pc'[p] = "idle"
                               /\ {"user", "member", "zone"} \subseteq since[p]
<1>1. IInv /\ [Next]_vars => [A]_vars
  <2> SUFFICES ASSUME IInv, Next, issued' > issued
               PROVE  \E p \in Requests : pc[p] = "grant" /\ pc'[p] = "idle"
                               /\ {"user", "member", "zone"} \subseteq since[p]
    OBVIOUS
  <2>1. issued' # issued
    BY BoundAssumption DEF IInv, TypeOK
  <2>2. PICK p \in Requests : Grant(p)
    BY <2>1 DEF Next, RequestStep, AdminStep, Login, Refresh, RefreshResolve, CheckUser,
                EnsureAccess, Logout, LogoutRevoke, RevokeSession, RevokeAllSessions,
                SetUserStatus, SetMemberStatus, AddMember, SetZoneLifecycle,
                SetRegistrationMode, CleanupExpiredSessions, SessionExpires, rows
  <2>3. pc[p] = "grant" /\ pc'[p] = "idle"
    BY <2>2 DEF Grant, Finish, GoTo, IInv, TypeOK
  <2> QED
    BY <2>2, <2>3 DEF IInv, ChecksWereMade
<1> QED
  BY <1>1, Inductive, PTL DEF Spec, GrantsWereAllowed

-----------------------------------------------------------------------------
(* Sets of naturals: their least element, and the greatest of bounded ones. *)
LEMMA LeastOf ==
    ASSUME NEW S \in SUBSET Nat, S # {}
    PROVE  \E m \in S : \A n \in S : m <= n
<1>1. PICK m \in S : \A n \in S : ~ (<<n, m>> \in OpToRel(<, Nat))
  BY NatLessThanWellFounded, WFMin
<1>2. \A n \in S : ~ (n < m)
  BY <1>1 DEF OpToRel
<1> QED
  BY <1>2

LEMMA GreatestOf ==
    ASSUME NEW S \in SUBSET Nat, S # {}, NEW b \in Nat, \A n \in S : n <= b
    PROVE  Max(S) \in S /\ \A n \in S : n <= Max(S)
<1> DEFINE Bounds == {k \in Nat : \A n \in S : n <= k}
<1>1. PICK k \in Bounds : \A l \in Bounds : k <= l
  BY LeastOf
<1>2. k \in S
  <2> SUFFICES ASSUME k \notin S PROVE FALSE
    OBVIOUS
  <2>1. \A n \in S : n < k
    OBVIOUS
  <2>2. k > 0
    <3>1. PICK n \in S : TRUE
      OBVIOUS
    <3>2. n \in Nat /\ n < k
      BY <2>1
    <3> QED
      BY <3>2
  <2>3. \A n \in S : n <= k - 1
    BY <2>1
  <2>4. k - 1 \in Bounds
    BY <2>2, <2>3
  <2> QED
    BY <2>4, <1>1
<1>3. \E m \in S : \A n \in S : m >= n
  BY <1>2
<1> QED
  BY <1>3 DEF Max

-----------------------------------------------------------------------------
(***************************************************************************)
(* The catch-up: what lies before a cursor and was not seen came late.     *)

(* A cursor is at an event that was committed once, and what is in the     *)
(* table before it has been received.                                      *)
Sound(c) ==
    /\ c \in Events \cup {None}
    /\ c # None => tx[c] \in {"committed", "pruned"}
    /\ \A e \in Visible \ late : e <= c => e \in got

CursorsSound ==
    /\ Sound(local) /\ Sound(acked)
    /\ \A p \in Loops : Sound(next[p]) /\ Sound(cur[p]) /\ Sound(base[p])

(* A catch-up that is going to ask for a page may have one more.           *)
PagesLeft == \A p \in Loops : stage[p] \notin {"save", "ack"} => pages[p] < MaxPages

SyncInv == SyncTypeOK /\ CursorsSound /\ PagesLeft

LEMMA EventsAreNumbers ==
    /\ IsFiniteSet(Events) /\ Events \subseteq Nat
    /\ \A e \in Events : 1 <= e /\ e <= LastEvent
<1>1. LastEvent \in Nat
  BY SyncAssumption
<1>2. IsFiniteSet(1..LastEvent)
  BY <1>1, FS_Interval
<1> QED
  BY <1>1, <1>2 DEF Events

(* The oldest events of a set have everything that is older with them.     *)
LEMMA OldestIsClosed ==
    ASSUME NEW S \in SUBSET Events, NEW n \in Nat,
           NEW m \in Oldest(S, n), NEW e \in S, e <= m
    PROVE  e \in Oldest(S, n)
<1>1. IsFiniteSet(Events) /\ S \subseteq Nat
  BY EventsAreNumbers
<1>2. IsFiniteSet({f \in S : f < m}) /\ {f \in S : f < e} \subseteq {f \in S : f < m}
  <2>1. IsFiniteSet(S)
    BY <1>1, FS_Subset
  <2>2. {f \in S : f < m} \subseteq S /\ m \in S
    BY DEF Oldest
  <2>3. IsFiniteSet({f \in S : f < m})
    BY <2>1, <2>2, FS_Subset
  <2>4. \A f \in S : f < e => f < m
    BY <1>1, <2>2
  <2> QED
    BY <2>3, <2>4
<1>3. /\ IsFiniteSet({f \in S : f < e})
      /\ Cardinality({f \in S : f < e}) <= Cardinality({f \in S : f < m})
  BY <1>2, FS_Subset
<1>4. Cardinality({f \in S : f < e}) \in Nat /\ Cardinality({f \in S : f < m}) \in Nat
  BY <1>2, <1>3, FS_CardinalityType
<1> QED
  BY <1>3, <1>4 DEF Oldest

(* There is an oldest event of a set that is not empty.                    *)
LEMMA OldestOfSome ==
    ASSUME NEW S \in SUBSET Events, NEW n \in Nat \ {0}, Oldest(S, n) = {}
    PROVE  S = {}
<1> SUFFICES ASSUME S # {} PROVE FALSE
  OBVIOUS
<1>1. S \in SUBSET Nat
  BY EventsAreNumbers
<1>2. PICK m \in S : \A f \in S : m <= f
  BY <1>1, LeastOf
<1>3. {f \in S : f < m} = {}
  <2> SUFFICES ASSUME NEW f \in S, f < m PROVE FALSE
    OBVIOUS
  <2>1. f \in Nat /\ m \in Nat /\ m <= f
    BY <1>1, <1>2
  <2> QED
    BY <2>1
<1> QED
  BY <1>3, FS_EmptySet DEF Oldest

(* If the n oldest of the n + 1 oldest are all of these, there is no more. *)
LEMMA OldestIsAll ==
    ASSUME NEW S \in SUBSET Events, NEW n \in Nat \ {0},
           Oldest(Oldest(S, n + 1), n) = Oldest(S, n + 1)
    PROVE  S \subseteq Oldest(S, n + 1)
<1> DEFINE R == Oldest(S, n + 1)
<1> SUFFICES ASSUME ~ (S \subseteq R) PROVE FALSE
  OBVIOUS
<1>1. S \in SUBSET Nat /\ R \subseteq S /\ IsFiniteSet(S)
  <2>1. IsFiniteSet(S) /\ S \subseteq Nat
    BY EventsAreNumbers, FS_Subset
  <2>2. R \subseteq S
    BY DEF Oldest
  <2> QED
    BY <2>1, <2>2
<1>2. PICK e \in S \ R : \A d \in S \ R : e <= d
  BY <1>1, LeastOf
<1> DEFINE T == {f \in S : f < e}
<1>3. T \subseteq R
  <2> SUFFICES ASSUME NEW f \in S, f < e, f \notin R PROVE FALSE
    OBVIOUS
  <2>1. e <= f /\ e \in Nat /\ f \in Nat
    BY <1>1, <1>2
  <2> QED
    BY <2>1
<1>4. IsFiniteSet(T) /\ Cardinality(T) \in Nat /\ Cardinality(T) >= n + 1
  <2>1. IsFiniteSet(T)
    BY <1>1, FS_Subset
  <2>2. Cardinality(T) \in Nat
    BY <2>1, FS_CardinalityType
  <2> QED
    BY <1>2, <2>1, <2>2 DEF Oldest
<1>5. T # {}
  BY <1>4, FS_EmptySet
<1>6. PICK m \in T : \A f \in T : f <= m
  <2>1. \A f \in T : f <= e
    BY <1>1
  <2>2. T \in SUBSET Nat /\ e \in Nat
    BY <1>1
  <2> HIDE DEF T
  <2> QED
    BY <1>5, <2>1, <2>2, GreatestOf
<1>7. {f \in R : f < m} = T \ {m}
  <2>1. m \in Nat /\ e \in Nat /\ m < e
    BY <1>1, <1>6
  <2>2. ASSUME NEW f \in R, f < m PROVE f \in T \ {m}
    <3>1. f \in S /\ f \in Nat
      BY <1>1
    <3> QED
      BY <2>1, <2>2, <3>1
  <2>3. ASSUME NEW f \in T \ {m} PROVE f \in R /\ f < m
    <3>1. f \in R /\ f \in Nat /\ f <= m /\ f # m
      BY <1>1, <1>3, <1>6
    <3> QED
      BY <2>1, <3>1
  <2> HIDE DEF R, T
  <2> QED
    BY <2>2, <2>3
<1>8. Cardinality(T \ {m}) = Cardinality(T) - 1
  BY <1>4, <1>6, FS_RemoveElement
<1>9. Cardinality({f \in R : f < m}) < n
  BY <1>3, <1>6 DEF Oldest
<1> QED
  BY <1>4, <1>7, <1>8, <1>9

(* The events after a cursor, as a page is taken from them.                *)
After(c) == {e \in Visible : c = None \/ (c \in Visible /\ e > c)}

LEMMA PageOfRows ==
    ASSUME SyncInv, NEW c \in Events \cup {None}, Sound(c), NEW page,
           page = Oldest(Rows(c), Limit)
    PROVE  /\ page \subseteq Visible /\ page \subseteq Nat /\ \A e \in page : e <= LastEvent
           /\ \A m \in page : \A e \in Visible \ late : e <= m => e \in got \cup page
           /\ Rows(c) = page /\ (c = None \/ c \in Visible)
              => \A e \in Visible \ late : e \in got \cup page
<1>1. Rows(c) = Oldest(After(c), Limit + 1) /\ After(c) \subseteq Visible /\ Visible \subseteq Events
  BY DEF Rows, After, Visible
<1>2. Limit \in Nat \ {0} /\ Limit + 1 \in Nat
  BY SyncAssumption
<1>3. Rows(c) \subseteq After(c) /\ page \subseteq Rows(c)
  BY <1>1 DEF Oldest
<1>4. page \subseteq Visible /\ page \subseteq Nat /\ \A e \in page : e <= LastEvent
  BY <1>1, <1>3, EventsAreNumbers
<1>5. \A m \in page : \A e \in After(c) : e <= m => e \in page
  <2> SUFFICES ASSUME NEW m \in page, NEW e \in After(c), e <= m PROVE e \in page
    OBVIOUS
  <2>1. e \in Rows(c)
    BY <1>1, <1>2, <1>3, OldestIsClosed
  <2>2. Rows(c) \in SUBSET Events
    BY <1>1, <1>3
  <2> QED
    BY <1>2, <2>1, <2>2, OldestIsClosed
<1>6. ASSUME NEW e \in Visible \ late, c = None \/ c \in Visible, e \notin After(c)
      PROVE  e \in got
  BY <1>6, <1>1, SyncAssumption DEF After, Sound, Events, None
<1>7. ASSUME NEW m \in page PROVE c = None \/ c \in Visible
  BY <1>3, <1>7 DEF After
<1>8. ASSUME Rows(c) = page PROVE After(c) \subseteq page
  <2>1. After(c) \subseteq Rows(c)
    BY <1>1, <1>2, <1>8, OldestIsAll
  <2> QED
    BY <1>8, <2>1
<1> QED
  BY <1>4, <1>5, <1>6, <1>7, <1>8

(* A step of the device leaves the table of events; what it has received   *)
(* only grows, so a cursor stays what it was.                              *)
LEMMA SoundStays ==
    ASSUME NEW c, Sound(c), UNCHANGED <<tx, late>>, got \subseteq got'
    PROVE  Sound(c)'
  BY DEF Sound, Visible, Events, None

LEMMA NoneIsSound == Sound(None)
  BY EventsAreNumbers DEF Sound, None, Visible

LEMMA SyncStarts == SyncInit => SyncInv
<1> SUFFICES ASSUME SyncInit PROVE SyncInv
  OBVIOUS
<1>1. SyncTypeOK
  <2>1. 0 \in 0..MaxPages /\ 0 \in 0..FaultBudget
    BY SyncAssumption
  <2>2. pages \in [Loops -> 0..MaxPages] /\ faults \in 0..FaultBudget
    BY <2>1 DEF SyncInit
  <2> QED
    BY <2>2 DEF SyncInit, SyncTypeOK
<1>2. CursorsSound
  BY NoneIsSound DEF SyncInit, CursorsSound
<1>3. PagesLeft
  BY SyncAssumption DEF SyncInit, PagesLeft
<1> QED
  BY <1>1, <1>2, <1>3 DEF SyncInv

(* The server: an event that becomes visible behind a cursor is late.      *)
LEMMA EventSteps ==
    ASSUME SyncInv, NEW e \in Events, Begin(e) \/ Commit(e)
    PROVE  SyncInv'
<1>1. UNCHANGED <<acked, device, loop, faults>>
  BY DEF Begin, Commit
<1>2. SyncTypeOK' /\ PagesLeft'
  <2>1. tx' \in [Events -> {"none", "open", "committed", "pruned"}] /\ late' \subseteq Events
    BY DEF Begin, Commit, SyncInv, SyncTypeOK
  <2> QED
    BY <1>1, <2>1 DEF SyncInv, SyncTypeOK, PagesLeft, device, loop
<1>3. ASSUME NEW c, Sound(c) PROVE Sound(c)'
  <2>1. CASE Begin(e)
    BY <1>1, <1>3, <2>1 DEF Begin, Sound, Visible, device, SyncInv, SyncTypeOK
  <2>2. CASE Commit(e)
    <3>1. Visible' = Visible \cup {e} /\ late \subseteq late'
      BY <2>2 DEF Commit, Visible, SyncInv, SyncTypeOK
    <3>2. c # None => c # e /\ tx'[c] \in {"committed", "pruned"}
      BY <1>3, <2>2 DEF Commit, Sound, SyncInv, SyncTypeOK, None
    <3>3. e <= c => e \in late'
      <4> SUFFICES ASSUME e <= c PROVE e \in late'
        OBVIOUS
      <4>1. c \in Events /\ e < c /\ tx[c] \in {"committed", "pruned"}
        BY <1>3, <3>2, EventsAreNumbers DEF Sound, None
      <4> QED
        BY <2>2, <4>1 DEF Commit
    <3> QED
      BY <1>1, <1>3, <3>1, <3>2, <3>3 DEF Sound, device
  <2> QED
    BY <2>1, <2>2
<1>4. CursorsSound'
  BY <1>1, <1>3 DEF SyncInv, CursorsSound, device, loop
<1> QED
  BY <1>2, <1>4 DEF SyncInv

LEMMA PruneStep ==
    ASSUME SyncInv, NEW S \in SUBSET Events, Prune(S)
    PROVE  SyncInv'
<1>1. UNCHANGED <<late, device, loop, faults>> /\ acked' \in {None, acked}
  BY DEF Prune
<1>2. SyncTypeOK' /\ PagesLeft'
  <2>1. tx' \in [Events -> {"none", "open", "committed", "pruned"}]
    BY DEF Prune, SyncInv, SyncTypeOK
  <2> QED
    BY <1>1, <2>1 DEF SyncInv, SyncTypeOK, PagesLeft, device, loop
<1>3. ASSUME NEW c, Sound(c) PROVE Sound(c)'
  <2>1. Visible' \subseteq Visible
    BY DEF Prune, Visible
  <2>2. c # None => tx'[c] \in {"committed", "pruned"}
    BY <1>3 DEF Prune, Sound, SyncInv, SyncTypeOK, None
  <2> QED
    BY <1>1, <1>3, <2>1, <2>2 DEF Sound, device
<1>4. Sound(acked)'
  BY <1>1, <1>3, NoneIsSound DEF SyncInv, CursorsSound
<1>5. CursorsSound'
  BY <1>1, <1>3, <1>4 DEF SyncInv, CursorsSound, device, loop
<1> QED
  BY <1>2, <1>5 DEF SyncInv

(* A catch-up: what it leaves in the cursors it had in one of them, or it  *)
(* is the last event of a page.                                            *)
LEMMA FinishIsSound ==
    ASSUME SyncInv, NEW p \in Loops, NEW d \in BOOLEAN, FinishCatchUp(p, d)
    PROVE  /\ stage' \in [Loops -> {"idle", "read", "ask", "list", "save", "ack"}]
           /\ cur' \in [Loops -> Events \cup {None}] /\ base' \in [Loops -> Events \cup {None}]
           /\ next' \in [Loops -> Events \cup {None}] /\ more' \in [Loops -> BOOLEAN]
           /\ pages' \in [Loops -> 0..MaxPages] /\ inFlight' \in BOOLEAN /\ degraded' \in BOOLEAN
           /\ \A q \in Loops :
                 /\ cur'[q] \in {cur[q], None} /\ base'[q] \in {base[q], None}
                 /\ next'[q] \in {next[q], None}
           /\ PagesLeft'
<1>1. 0 \in 0..MaxPages /\ 0 < MaxPages
  BY SyncAssumption
<1>2. PagesLeft'
  BY <1>1 DEF FinishCatchUp, GoesTo, SyncInv, SyncTypeOK, PagesLeft
<1>3. pages' \in [Loops -> 0..MaxPages]
  BY <1>1 DEF FinishCatchUp, SyncInv, SyncTypeOK
<1> QED
  BY <1>2, <1>3 DEF FinishCatchUp, GoesTo, SyncInv, SyncTypeOK

LEMMA ListStep ==
    ASSUME SyncInv, NEW p \in Loops, List(p)
    PROVE  SyncInv'
<1>1. PICK page : page = Oldest(Rows(base[p]), Limit)
  OBVIOUS
<1>2. got' = got \cup page /\ UNCHANGED <<server, local, faults>> /\ stage[p] = "list"
  BY <1>1 DEF List
<1>3. page \subseteq Visible /\ page \subseteq Nat /\ (\A e \in page : e <= LastEvent)
      /\ \A m \in page : \A e \in Visible \ late : e <= m => e \in got \cup page
  <2>1. base[p] \in Events \cup {None} /\ Sound(base[p])
    BY DEF SyncInv, SyncTypeOK, CursorsSound
  <2> QED
    BY <1>1, <2>1, PageOfRows
<1>4. ASSUME NEW c, Sound(c) PROVE Sound(c)'
  BY <1>2, <1>4, SoundStays DEF server
<1>5. got' \subseteq Events /\ Visible \subseteq Events
  BY <1>2, <1>3 DEF SyncInv, SyncTypeOK, Visible
<1>6. CASE page = {}
  <2>1. FinishCatchUp(p, FALSE)
    BY <1>1, <1>6 DEF List
  <2>2. SyncTypeOK' /\ PagesLeft'
    BY <1>2, <1>5, <2>1, FinishIsSound DEF SyncInv, SyncTypeOK, server
  <2>3. Sound(None)'
    BY <1>4, NoneIsSound
  <2>4. ASSUME NEW q \in Loops PROVE (Sound(next[q]) /\ Sound(cur[q]) /\ Sound(base[q]))'
    BY <1>4, <2>1, <2>3, FinishIsSound DEF SyncInv, CursorsSound
  <2>5. CursorsSound'
    BY <1>2, <1>4, <2>4 DEF SyncInv, CursorsSound, server
  <2> QED
    BY <2>2, <2>5 DEF SyncInv
<1>7. CASE page # {}
  <2>1. Max(page) \in page
    BY <1>3, <1>7, GreatestOf, SyncAssumption
  <2>2. PICK m \in page : m = Max(page)
    BY <2>1
  <2>3. /\ next' = [next EXCEPT ![p] = m] /\ pages' = [pages EXCEPT ![p] = @ + 1]
        /\ \E b \in BOOLEAN : more' = [more EXCEPT ![p] = b]
        /\ stage' = [stage EXCEPT ![p] = "save"]
        /\ UNCHANGED <<cur, base, inFlight, degraded>>
    BY <1>1, <1>7, <2>2 DEF List, GoesTo
  <2>4. pages[p] \in 0..MaxPages /\ pages[p] < MaxPages
    BY <1>2 DEF SyncInv, SyncTypeOK, PagesLeft
  <2>5. pages[p] + 1 \in 0..MaxPages
    BY <2>4, SyncAssumption
  <2>6. SyncTypeOK'
    BY <1>2, <1>3, <1>5, <2>3, <2>5 DEF SyncInv, SyncTypeOK, server
  <2>7. PagesLeft'
    BY <2>3 DEF SyncInv, SyncTypeOK, PagesLeft
  <2>8. Sound(m)'
    <3>1. m \in Events /\ tx'[m] = "committed"
      BY <1>2, <1>3, <1>5 DEF Visible, server
    <3>2. \A e \in Visible' \ late' : e <= m => e \in got'
      BY <1>2, <1>3 DEF Visible, server
    <3> QED
      BY <3>1, <3>2 DEF Sound
  <2>9. CursorsSound'
    BY <1>2, <1>4, <2>3, <2>8 DEF SyncInv, SyncTypeOK, CursorsSound, server
  <2> QED
    BY <2>6, <2>7, <2>9 DEF SyncInv
<1> QED
  BY <1>6, <1>7

LEMMA AppStopsStep ==
    ASSUME SyncInv, AppStops
    PROVE  SyncInv'
<1>1. UNCHANGED <<server, local, got>> /\ faults' = faults + 1 /\ faults < FaultBudget
  BY DEF AppStops, Fault
<1>2. 0 \in 0..MaxPages /\ 0 < MaxPages /\ faults' \in 0..FaultBudget
  BY <1>1, SyncAssumption DEF SyncInv, SyncTypeOK
<1>3. pages' \in [Loops -> 0..MaxPages]
  BY <1>2 DEF AppStops
<1>4. SyncTypeOK' /\ PagesLeft'
  BY <1>1, <1>2, <1>3 DEF AppStops, SyncInv, SyncTypeOK, PagesLeft, server
<1>5. ASSUME NEW c, Sound(c) PROVE Sound(c)'
  BY <1>1, <1>5, SoundStays DEF server
<1>6. CursorsSound'
  BY <1>1, <1>5, NoneIsSound DEF AppStops, SyncInv, CursorsSound, server
<1> QED
  BY <1>4, <1>6 DEF SyncInv

(* The steps that move a cursor from one place to another.                 *)
LEMMA AfterPersistIsSound ==
    ASSUME SyncInv, NEW p \in Loops, AfterPersist(p)
    PROVE  /\ stage' \in [Loops -> {"idle", "read", "ask", "list", "save", "ack"}]
           /\ cur' \in [Loops -> Events \cup {None}] /\ base' \in [Loops -> Events \cup {None}]
           /\ next' \in [Loops -> Events \cup {None}] /\ more' \in [Loops -> BOOLEAN]
           /\ pages' \in [Loops -> 0..MaxPages] /\ inFlight' \in BOOLEAN /\ degraded' \in BOOLEAN
           /\ \A q \in Loops :
                 /\ cur'[q] \in {cur[q], next[q], None} /\ base'[q] \in {base[q], None}
                 /\ next'[q] \in {next[q], None}
           /\ PagesLeft'
<1>1. CASE more[p] /\ pages[p] < MaxPages
  BY <1>1 DEF AfterPersist, GoesTo, SyncInv, SyncTypeOK, PagesLeft
<1>2. CASE ~ (more[p] /\ pages[p] < MaxPages)
  <2>1. FinishCatchUp(p, FALSE)
    BY <1>2 DEF AfterPersist
  <2> QED
    BY <2>1, FinishIsSound
<1> QED
  BY <1>1, <1>2

LEMMA CatchUpStep ==
    ASSUME SyncInv, NEW p \in Loops, Start(p) \/ Step(p) \/ FaultStep(p)
    PROVE  SyncInv'
<1>1. CASE List(p)
  BY <1>1, ListStep
<1> SUFFICES ASSUME ~ List(p) PROVE SyncInv'
  BY <1>1
<1>2. UNCHANGED <<tx, late, got>>
  BY DEF Start, Step, FaultStep, ReadCursor, Ask, SaveCursor, Ack, ReadFails, RequestFails,
         SaveFails, AckFails, server, device
<1>3. ASSUME NEW c, Sound(c) PROVE Sound(c)'
  BY <1>2, <1>3, SoundStays
<1>4. Sound(None)'
  BY <1>3, NoneIsSound
<1>5. faults' \in 0..FaultBudget
  <2>1. faults' = faults \/ Fault
    BY DEF Start, Step, FaultStep, ReadCursor, Ask, SaveCursor, Ack, ReadFails, RequestFails,
           SaveFails, AckFails
  <2> QED
    BY <2>1, SyncAssumption DEF Fault, SyncInv, SyncTypeOK
<1>6. CASE Start(p) \/ ReadCursor(p) \/ ReadFails(p)
  <2>1. SyncTypeOK' /\ PagesLeft'
    <3>1. CASE Start(p)
      BY <1>5, <3>1 DEF Start, GoesTo, SyncInv, SyncTypeOK, PagesLeft, server
    <3>2. CASE ReadCursor(p)
      BY <1>5, <3>2 DEF ReadCursor, GoesTo, SyncInv, SyncTypeOK, PagesLeft, server, device
    <3>3. CASE ReadFails(p)
      BY <1>5, <3>3 DEF ReadFails, GoesTo, SyncInv, SyncTypeOK, PagesLeft, server, device
    <3> QED
      BY <1>6, <3>1, <3>2, <3>3
  <2>2. CursorsSound'
    BY <1>3, <1>4, <1>6 DEF Start, ReadCursor, ReadFails, SyncInv, SyncTypeOK, CursorsSound,
       server, device
  <2> QED
    BY <2>1, <2>2 DEF SyncInv
<1>7. CASE Ask(p)
  <2>1. SyncTypeOK' /\ PagesLeft'
    BY <1>5, <1>7 DEF Ask, GoesTo, SyncInv, SyncTypeOK, PagesLeft, server, device
  <2>2. CursorsSound'
    BY <1>3, <1>7 DEF Ask, SyncInv, SyncTypeOK, CursorsSound, server, device
  <2> QED
    BY <2>1, <2>2 DEF SyncInv
<1>8. CASE SaveCursor(p) \/ SaveFails(p)
  <2>1. SyncTypeOK' /\ PagesLeft'
    BY <1>5, <1>8 DEF SaveCursor, SaveFails, GoesTo, SyncInv, SyncTypeOK, PagesLeft, server, device
  <2>2. CursorsSound'
    BY <1>3, <1>8 DEF SaveCursor, SaveFails, SyncInv, SyncTypeOK, CursorsSound, server, device
  <2> QED
    BY <2>1, <2>2 DEF SyncInv
<1>9. CASE Ack(p) \/ AckFails(p)
  <2>1. AfterPersist(p) /\ local' = local /\ (acked' = acked \/ acked' = next[p])
    BY <1>9 DEF Ack, AckFails, server
  <2>2. SyncTypeOK' /\ PagesLeft'
    BY <1>2, <1>5, <2>1, AfterPersistIsSound DEF SyncInv, SyncTypeOK
  <2>3. ASSUME NEW q \in Loops PROVE (Sound(next[q]) /\ Sound(cur[q]) /\ Sound(base[q]))'
    BY <1>3, <1>4, <2>1, AfterPersistIsSound DEF SyncInv, CursorsSound
  <2>4. (Sound(local) /\ Sound(acked))'
    BY <1>3, <2>1 DEF SyncInv, CursorsSound
  <2> QED
    BY <2>2, <2>3, <2>4 DEF SyncInv, CursorsSound
<1>10. CASE RequestFails(p)
  <2>1. PICK d \in BOOLEAN : FinishCatchUp(p, d)
    BY <1>10 DEF RequestFails
  <2>2. UNCHANGED <<local, acked>>
    BY <1>10 DEF RequestFails, server
  <2>3. SyncTypeOK' /\ PagesLeft'
    BY <1>2, <1>5, <2>1, <2>2, FinishIsSound DEF SyncInv, SyncTypeOK
  <2>4. ASSUME NEW q \in Loops PROVE (Sound(next[q]) /\ Sound(cur[q]) /\ Sound(base[q]))'
    BY <1>3, <1>4, <2>1, FinishIsSound DEF SyncInv, CursorsSound
  <2>5. (Sound(local) /\ Sound(acked))'
    BY <1>3, <2>2 DEF SyncInv, CursorsSound
  <2> QED
    BY <2>3, <2>4, <2>5 DEF SyncInv, CursorsSound
<1> QED
  BY <1>6, <1>7, <1>8, <1>9, <1>10 DEF Step, FaultStep

LEMMA SyncInvStep == SyncInv /\ [SyncNext]_syncVars => SyncInv'
<1> SUFFICES ASSUME SyncInv, [SyncNext]_syncVars PROVE SyncInv'
  OBVIOUS
<1>1. CASE UNCHANGED syncVars
  <2>1. ASSUME NEW c, Sound(c) PROVE Sound(c)'
    BY <1>1, <2>1, SoundStays DEF syncVars, server, device
  <2>2. CursorsSound'
    BY <1>1, <2>1 DEF SyncInv, CursorsSound, syncVars, server, device, loop
  <2> QED
    BY <1>1, <2>2 DEF SyncInv, SyncTypeOK, PagesLeft, syncVars, server, device, loop
<1> QED
  BY <1>1, EventSteps, PruneStep, CatchUpStep, AppStopsStep DEF SyncNext

LEMMA SyncInvAlways == SyncSpec => []SyncInv
  BY SyncStarts, SyncInvStep, PTL DEF SyncSpec

(* However catch-ups of a device overlap, fail and move its cursors        *)
(* backwards, and whatever the clean-up deletes: an event behind a cursor  *)
(* was received, or was committed after a younger one.                     *)
THEOREM OnlyLateEventsAreSkippedAlways == SyncSpec => []OnlyLateEventsAreSkipped
<1>1. SyncInv => OnlyLateEventsAreSkipped
  BY DEF SyncInv, CursorsSound, Sound, OnlyLateEventsAreSkipped, Cursors
<1> QED
  BY <1>1, SyncInvAlways, PTL

(* A page that has nothing after it leaves only late events unseen, from   *)
(* whichever cursor that still exists it was asked for.                    *)
THEOREM LastPageCompletesAlways == SyncSpec => LastPageCompletes
<1> DEFINE Completes ==
      \A p \in Loops :
          /\ List(p) /\ ~more'[p]
          /\ base[p] = None \/ base[p] \in Visible
          => Visible \ late \subseteq got'
<1>1. SyncInv /\ [SyncNext]_syncVars => [Completes]_syncVars
  <2> SUFFICES ASSUME SyncInv, NEW p \in Loops, List(p), ~more'[p],
                      base[p] = None \/ base[p] \in Visible
               PROVE  Visible \ late \subseteq got'
    OBVIOUS
  <2>1. PICK page : page = Oldest(Rows(base[p]), Limit)
    OBVIOUS
  <2>2. got' = got \cup page
    BY <2>1 DEF List
  <2>3. page = Rows(base[p])
    <3>1. CASE page # {}
      BY <2>1, <3>1 DEF List, SyncInv, SyncTypeOK
    <3>2. CASE page = {}
      <4>1. Rows(base[p]) \in SUBSET Events
        BY DEF Rows, Oldest, Visible
      <4> QED
        BY <2>1, <3>2, <4>1, OldestOfSome, SyncAssumption
    <3> QED
      BY <3>1, <3>2
  <2>4. base[p] \in Events \cup {None} /\ Sound(base[p])
    BY DEF SyncInv, SyncTypeOK, CursorsSound
  <2> QED
    BY <2>1, <2>2, <2>3, <2>4, PageOfRows
<1> QED
  BY <1>1, SyncInvAlways, PTL DEF SyncSpec, LastPageCompletes

-----------------------------------------------------------------------------
(***************************************************************************)
(* The outbox of a room: items are kept until they are delivered.          *)

(* Lists of items, of what the user has sent; and what a controller's      *)
(* load, send and retry have in hand.                                      *)
ItemLists ==
    {l \in [Texts -> {"none", "failed", "sending"}] : \A t \in Texts : l[t] # "none" => t \notin unsent}
SentTexts == Texts \ unsent
LoadHands == [pc : {"idle", "page", "retry"}, list : ItemLists]
SendHands == [pc : {"idle", "post", "list", "write"}, text : SentTexts \cup {"none"}, list : ItemLists]
RetryHands ==
    [pc : {"idle", "next", "mark", "post", "attach", "delete", "fail", "remove", "restore"},
     text : SentTexts \cup {"none"}, todo : SUBSET SentTexts, list : ItemLists]

(* An item is removed when its text and its file have arrived.             *)
SendInHand(s) == s \in SendHands /\ (s.pc # "idle" => s.text \in Texts)
RetryInHand(r) ==
    /\ r \in RetryHands
    /\ IF r.pc \in {"idle", "next"} THEN r.text = "none" ELSE r.text \in Texts
    /\ r.pc \in {"attach", "delete", "remove"} => r.text \in atServer
    /\ r.pc \in {"delete", "remove"} => Arrived(r.text)

ControllersOK ==
    /\ savedItems \in ItemLists /\ items \in [Controllers -> ItemLists]
    /\ loading \in [Controllers -> LoadHands]
    /\ sending \in [Controllers -> SendHands] /\ \A c \in Controllers : SendInHand(sending[c])
    /\ retrying \in [Controllers -> RetryHands] /\ \A c \in Controllers : RetryInHand(retrying[c])

BesideItems ==
    /\ open = {} \/ \E c \in Controllers : open = {c}
    /\ unsent \subseteq Texts /\ atServer \subseteq SentTexts /\ filesAttached \subseteq atServer
    /\ queued \subseteq Texts /\ outboxFaults \in 0..MaxOutboxFaults

OutboxInv == ControllersOK /\ BesideItems /\ KeptUntilSent /\ SendingMeansTrying

LEMMA HandsAtRest ==
    NoItems \in ItemLists /\ NoLoad \in LoadHands /\ SendInHand(NoSend) /\ RetryInHand(NoRetry)
<1>1. NoItems \in ItemLists
  BY DEF NoItems, ItemLists
<1> QED
  BY <1>1 DEF LoadHands, SendHands, RetryHands, SendInHand, RetryInHand, NoLoad, NoSend, NoRetry

LEMMA OutboxStarts == OutboxInit => OutboxInv
<1> SUFFICES ASSUME OutboxInit PROVE OutboxInv
  OBVIOUS
<1>1. savedItems \in ItemLists
  BY DEF OutboxInit, ItemLists
<1>2. ControllersOK
  BY <1>1, HandsAtRest DEF OutboxInit, ControllersOK, SendInHand, RetryInHand
<1>3. BesideItems
  BY OutboxAssumption DEF OutboxInit, BesideItems, SentTexts
<1>4. KeptUntilSent /\ SendingMeansTrying
  BY DEF OutboxInit, KeptUntilSent, SendingMeansTrying
<1> QED
  BY <1>2, <1>3, <1>4 DEF OutboxInv

(* What is sent stays sent, what has arrived stays, and histories grow.    *)
Forward ==
    /\ unsent' \subseteq unsent /\ atServer \subseteq atServer'
    /\ filesAttached \subseteq filesAttached' /\ queued \subseteq queued'
    /\ overwritten \subseteq overwritten' /\ interrupted \subseteq interrupted'

LEMMA OutboxGoesForward == ASSUME [OutboxNext]_outboxVars PROVE Forward
<1>1. CASE UNCHANGED outboxVars
  BY <1>1 DEF outboxVars, Forward
<1>2. CASE AppDies
  BY <1>2 DEF AppDies, Forward
<1>3. ASSUME NEW c \in Controllers, RetryStep(c) PROVE Forward
  BY <1>3 DEF RetryStep, NextItem, MarkSending, RetryPosts, AttachOutboxFiles, ListAgain,
     RemoveOutboxItem, SaveFailed, WriteList, Forward
<1>4. ASSUME NEW c \in Controllers, SendStep(c) \/ LoadStep(c) PROVE Forward
  BY <1>4 DEF SendStep, LoadStep, SendPosts, EnqueueReads, EnqueueFailedSend, LoadApplies,
     AutoRetry, WriteList, Forward
<1>5. ASSUME NEW c \in Controllers,
             OpenRoom(c) \/ LeaveRoom(c) \/ Load(c) \/ SendCurrentDraft(c) \/ TapRetry(c)
      PROVE  Forward
  BY <1>5 DEF OpenRoom, LeaveRoom, Load, SendCurrentDraft, TapRetry, Forward
<1> QED
  BY <1>1, <1>2, <1>3, <1>4, <1>5 DEF OutboxNext

(* What is in hand stays right while others go on.                         *)
LEMMA HandsStay ==
    ASSUME Forward
    PROVE  /\ ItemLists \subseteq ItemLists' /\ LoadHands \subseteq LoadHands'
           /\ SentTexts \subseteq SentTexts'
           /\ SendHands \subseteq SendHands' /\ RetryHands \subseteq RetryHands'
           /\ \A s : SendInHand(s) => SendInHand(s)'
           /\ \A r : RetryInHand(r) => RetryInHand(r)'
<1>1. ItemLists \subseteq ItemLists' /\ SentTexts \subseteq SentTexts'
  BY DEF Forward, ItemLists, SentTexts
<1>2. LoadHands \subseteq LoadHands'
  BY <1>1 DEF LoadHands
<1>3. SendHands \subseteq SendHands'
  BY <1>1 DEF SendHands
<1>4. RetryHands \subseteq RetryHands'
  BY <1>1 DEF RetryHands
<1> QED
  BY <1>1, <1>2, <1>3, <1>4 DEF SendInHand, RetryInHand, Arrived, Forward

(* A step of the retry of a controller: what it has in hand then, which is *)
(* the same text unless the item is done with or is the next.              *)
LEMMA RetryMoves ==
    ASSUME OutboxInv, NEW c \in Controllers, RetryStep(c), Forward
    PROVE  \E x : /\ retrying' = [retrying EXCEPT ![c] = x] /\ RetryInHand(x)'
                  /\ \/ x.text = retrying[c].text
                     \/ retrying[c].text = "none"
                     \/ RemoveOutboxItem(c) \/ SaveFailed(c)
<1>1. PICK r : r = retrying[c]
  OBVIOUS
<1>2. RetryInHand(r) /\ r \in RetryHands' /\ savedItems \in ItemLists' /\ NoItems \in ItemLists'
  BY <1>1, HandsStay, HandsAtRest DEF OutboxInv, ControllersOK, RetryInHand
<1>3. CASE NextItem(c)
  <2>1. CASE r.todo = {}
    BY <1>1, <1>2, <1>3, <2>1, HandsAtRest, HandsStay DEF NextItem, NoRetry, RetryInHand
  <2>2. CASE r.todo # {}
    <3>1. PICK t \in r.todo :
             retrying' = [retrying EXCEPT ![c] =
                 [pc |-> "mark", text |-> t, todo |-> r.todo \ {t}, list |-> savedItems]]
      BY <1>1, <1>3, <2>2 DEF NextItem
    <3>2. r.text = "none" /\ t \in SentTexts' /\ t \in Texts /\ r.todo \subseteq SentTexts'
      BY <1>1, <1>2, <1>3, HandsStay DEF NextItem, RetryInHand, RetryHands, SentTexts
    <3>3. PICK x : x = [pc |-> "mark", text |-> t, todo |-> r.todo \ {t}, list |-> savedItems]
      OBVIOUS
    <3>4. RetryInHand(x)'
      <4>1. x \in RetryHands'
        BY <1>2, <3>2, <3>3 DEF RetryHands
      <4>2. x.pc = "mark" /\ x.text = t
        BY <3>3
      <4> QED
        BY <3>2, <4>1, <4>2 DEF RetryInHand
    <3>5. retrying' = [retrying EXCEPT ![c] = x]
      BY <3>1, <3>3
    <3> QED
      BY <1>1, <3>2, <3>4, <3>5
  <2> QED
    BY <2>1, <2>2
<1>4. CASE MarkSending(c)
  <2>1. PICK x : x = [r EXCEPT !.pc = "post"]
    OBVIOUS
  <2>2. x \in RetryHands' /\ x.pc = "post" /\ x.text = r.text
    BY <1>2, <2>1 DEF RetryHands
  <2>3. r.pc = "mark" /\ retrying' = [retrying EXCEPT ![c] = x]
    BY <1>1, <1>4, <2>1 DEF MarkSending
  <2> QED
    BY <1>1, <1>2, <2>2, <2>3 DEF RetryInHand
<1>5. CASE RetryPosts(c)
  <2>1. PICK to \in {AfterPost(r.text), "fail"} :
           /\ retrying' = [retrying EXCEPT ![c] = [r EXCEPT !.pc = to]]
           /\ to # "fail" => r.text \in atServer'
    BY <1>1, <1>5 DEF RetryPosts
  <2>2. PICK x : x = [r EXCEPT !.pc = to]
    OBVIOUS
  <2>3. x \in RetryHands' /\ x.pc = to /\ x.text = r.text /\ r.pc = "post"
    BY <1>1, <1>2, <1>5, <2>2 DEF RetryHands, AfterPost, RetryPosts
  <2>4. RetryInHand(x)'
    BY <1>2, <2>1, <2>3 DEF RetryInHand, AfterPost, Arrived
  <2> QED
    BY <1>1, <2>1, <2>2, <2>3, <2>4
<1>6. CASE AttachOutboxFiles(c)
  <2>1. PICK to \in {"delete", "fail"} :
           /\ retrying' = [retrying EXCEPT ![c] = [r EXCEPT !.pc = to]]
           /\ to # "fail" => r.text \in filesAttached'
    BY <1>1, <1>6 DEF AttachOutboxFiles
  <2>2. PICK x : x = [r EXCEPT !.pc = to]
    OBVIOUS
  <2>3. x \in RetryHands' /\ x.pc = to /\ x.text = r.text /\ r.pc = "attach"
    BY <1>1, <1>2, <1>6, <2>2 DEF RetryHands, AttachOutboxFiles
  <2>4. RetryInHand(x)'
    BY <1>2, <2>1, <2>3 DEF RetryInHand, Arrived, Forward
  <2> QED
    BY <1>1, <2>1, <2>2, <2>3, <2>4
<1>7. CASE ListAgain(c)
  <2>1. PICK x : x = [[r EXCEPT !.pc = AfterList(r.pc)] EXCEPT !.list = savedItems]
    OBVIOUS
  <2>2. x \in RetryHands' /\ x.pc = AfterList(r.pc) /\ x.text = r.text /\ r.pc \in {"delete", "fail"}
    BY <1>1, <1>2, <1>7, <2>1 DEF RetryHands, AfterList, ListAgain
  <2>3. retrying' = [retrying EXCEPT ![c] = x]
    BY <1>1, <1>7, <2>1 DEF ListAgain
  <2>4. RetryInHand(x)'
    BY <1>2, <2>2 DEF RetryInHand, AfterList, Arrived, Forward
  <2> QED
    BY <1>1, <2>2, <2>3, <2>4
<1>8. CASE RemoveOutboxItem(c) \/ SaveFailed(c)
  <2>1. PICK x : x = [[[r EXCEPT !.pc = "next"] EXCEPT !.text = "none"] EXCEPT !.list = NoItems]
    OBVIOUS
  <2>2. x \in RetryHands' /\ x.pc = "next" /\ x.text = "none"
    BY <1>2, <2>1 DEF RetryHands
  <2>3. retrying' = [retrying EXCEPT ![c] = x]
    BY <1>1, <1>8, <2>1 DEF RemoveOutboxItem, SaveFailed
  <2> QED
    BY <1>8, <2>2, <2>3 DEF RetryInHand
<1> QED
  BY <1>3, <1>4, <1>5, <1>6, <1>7, <1>8 DEF RetryStep

LEMMA RetryStepKeeps ==
    ASSUME OutboxInv, NEW c \in Controllers, RetryStep(c), Forward
    PROVE  ControllersOK' /\ BesideItems'
<1>1. UNCHANGED <<open, loading, sending, unsent, queued, interrupted>>
  BY DEF RetryStep, NextItem, MarkSending, RetryPosts, AttachOutboxFiles, ListAgain,
     RemoveOutboxItem, SaveFailed
<1>2. retrying' \in [Controllers -> RetryHands'] /\ \A b \in Controllers : RetryInHand(retrying[b])'
  <2>1. PICK x : retrying' = [retrying EXCEPT ![c] = x] /\ RetryInHand(x)'
    BY RetryMoves
  <2>2. retrying \in [Controllers -> RetryHands'] /\ x \in RetryHands'
    BY <2>1, HandsStay DEF OutboxInv, ControllersOK, RetryInHand
  <2>3. \A b \in Controllers : RetryInHand(retrying[b])'
    BY <2>1, <2>2, HandsStay DEF OutboxInv, ControllersOK
  <2> QED
    BY <2>1, <2>2, <2>3
<1>3. /\ retrying[c] \in RetryHands /\ retrying[c].list \in ItemLists
      /\ retrying[c].pc \notin {"idle", "next"} => retrying[c].text \in SentTexts
  <2>1. retrying[c] \in RetryHands /\ RetryInHand(retrying[c])
    BY DEF OutboxInv, ControllersOK
  <2> QED
    BY <2>1, OutboxAssumption DEF RetryInHand, RetryHands, SentTexts
<1>4. ASSUME NEW l \in ItemLists, NEW t \in SentTexts, NEW st \in {"none", "failed", "sending"}
      PROVE  [l EXCEPT ![t] = st] \in ItemLists'
  BY <1>1 DEF ItemLists, SentTexts
<1>5. savedItems' \in ItemLists'
  <2>1. \/ savedItems' = savedItems
        \/ \E t \in SentTexts, st \in {"none", "failed", "sending"} :
              savedItems' = [retrying[c].list EXCEPT ![t] = st]
    BY <1>3 DEF RetryStep, NextItem, MarkSending, RetryPosts, AttachOutboxFiles,
       ListAgain, RemoveOutboxItem, SaveFailed, WriteList
  <2>2. savedItems \in ItemLists'
    BY HandsStay DEF OutboxInv, ControllersOK
  <2>3. ASSUME NEW t \in SentTexts, NEW st \in {"none", "failed", "sending"}
        PROVE  [retrying[c].list EXCEPT ![t] = st] \in ItemLists'
    <3>1. retrying[c].list \in ItemLists
      BY <1>3
    <3> QED
      BY <1>4, <3>1
  <2> QED
    BY <2>1, <2>2, <2>3
<1>6. items' \in [Controllers -> ItemLists']
  <2>1. items \in [Controllers -> ItemLists] /\ items \in [Controllers -> ItemLists']
    BY HandsStay DEF OutboxInv, ControllersOK
  <2>2. \/ items' = items
        \/ \E t \in SentTexts, st \in {"none", "failed", "sending"} :
              items' = [items EXCEPT ![c] = [items[c] EXCEPT ![t] = st]]
    BY <1>3 DEF RetryStep, NextItem, MarkSending, RetryPosts, AttachOutboxFiles, ListAgain,
       RemoveOutboxItem, SaveFailed, Replaced
  <2>3. ASSUME NEW t \in SentTexts, NEW st \in {"none", "failed", "sending"}
        PROVE  [items[c] EXCEPT ![t] = st] \in ItemLists'
    BY <1>4, <2>1
  <2> QED
    BY <2>1, <2>2, <2>3
<1>7. ControllersOK'
  BY <1>1, <1>2, <1>5, <1>6, HandsStay DEF OutboxInv, ControllersOK
<1>8. BesideItems'
  <2>1. atServer' \subseteq SentTexts'
    BY <1>1, <1>3 DEF RetryStep, NextItem, MarkSending, RetryPosts, AttachOutboxFiles, ListAgain,
       RemoveOutboxItem, SaveFailed, OutboxInv, BesideItems, SentTexts
  <2>2. filesAttached' \subseteq atServer'
    BY DEF RetryStep, NextItem, MarkSending, RetryPosts, AttachOutboxFiles, ListAgain,
       RemoveOutboxItem, SaveFailed, OutboxInv, BesideItems, ControllersOK, RetryInHand
  <2>3. outboxFaults' = outboxFaults \/ OutboxFault
    BY DEF RetryStep, NextItem, MarkSending, RetryPosts, AttachOutboxFiles, ListAgain,
       RemoveOutboxItem, SaveFailed
  <2>4. outboxFaults' \in 0..MaxOutboxFaults
    BY <2>3, OutboxAssumption DEF OutboxFault, OutboxInv, BesideItems
  <2> QED
    BY <1>1, <2>1, <2>2, <2>4 DEF OutboxInv, BesideItems
<1> QED
  BY <1>7, <1>8

LEMMA SendStepKeeps ==
    ASSUME OutboxInv, NEW c \in Controllers, SendStep(c) \/ SendCurrentDraft(c), Forward
    PROVE  ControllersOK' /\ BesideItems' /\ retrying' = retrying
<1>1. UNCHANGED <<open, loading, retrying, filesAttached, interrupted>>
  BY DEF SendStep, SendPosts, EnqueueReads, EnqueueFailedSend, SendCurrentDraft
<1>2. PICK s : s = sending[c]
  OBVIOUS
<1>3. SendInHand(s) /\ s \in SendHands' /\ savedItems \in ItemLists' /\ NoItems \in ItemLists'
  BY <1>2, HandsStay, HandsAtRest DEF OutboxInv, ControllersOK, SendInHand
<1>4. \E x : sending' = [sending EXCEPT ![c] = x] /\ SendInHand(x)'
  <2>1. CASE SendPosts(c)
    <3>1. PICK x : x = [s EXCEPT !.pc = "list"]
      OBVIOUS
    <3>2. x \in SendHands' /\ x.text = s.text /\ s.pc = "post"
      BY <1>2, <1>3, <2>1, <3>1 DEF SendHands, SendPosts
    <3>3. SendInHand(x)' /\ SendInHand(NoSend)'
      BY <1>3, <3>2, HandsAtRest, HandsStay DEF SendInHand
    <3> QED
      BY <1>2, <2>1, <3>1, <3>3 DEF SendPosts
  <2>2. CASE EnqueueReads(c)
    <3>1. PICK x : x = [[s EXCEPT !.pc = "write"] EXCEPT !.list = savedItems]
      OBVIOUS
    <3>2. x \in SendHands' /\ x.text = s.text /\ s.pc = "list"
      BY <1>2, <1>3, <2>2, <3>1 DEF SendHands, EnqueueReads
    <3>3. SendInHand(x)'
      BY <1>3, <3>2 DEF SendInHand
    <3> QED
      BY <1>2, <2>2, <3>1, <3>3 DEF EnqueueReads
  <2>3. CASE EnqueueFailedSend(c)
    BY <2>3, HandsAtRest, HandsStay DEF EnqueueFailedSend
  <2>4. CASE SendCurrentDraft(c)
    <3>1. PICK t \in unsent :
             /\ unsent' = unsent \ {t}
             /\ sending' = [sending EXCEPT ![c] = [NoSend EXCEPT !.pc = "post", !.text = t]]
      BY <2>4 DEF SendCurrentDraft
    <3>2. PICK x : x = [NoSend EXCEPT !.pc = "post", !.text = t]
      OBVIOUS
    <3>3. t \in Texts /\ t \in SentTexts'
      BY <3>1 DEF SentTexts, OutboxInv, BesideItems
    <3>4. x \in SendHands' /\ x.text = t
      BY <1>3, <3>2, <3>3 DEF SendHands, NoSend
    <3> QED
      BY <3>1, <3>2, <3>3, <3>4 DEF SendInHand
  <2> QED
    BY <2>1, <2>2, <2>3, <2>4 DEF SendStep
<1>5. sending' \in [Controllers -> SendHands'] /\ \A b \in Controllers : SendInHand(sending[b])'
  <2>1. PICK x : sending' = [sending EXCEPT ![c] = x] /\ SendInHand(x)'
    BY <1>4
  <2>2. sending \in [Controllers -> SendHands'] /\ x \in SendHands'
    BY <2>1, HandsStay DEF OutboxInv, ControllersOK, SendInHand
  <2>3. \A b \in Controllers : SendInHand(sending[b])'
    BY <2>1, <2>2, HandsStay DEF OutboxInv, ControllersOK
  <2> QED
    BY <2>1, <2>2, <2>3
<1>6. s.pc # "idle" => s.text \in SentTexts /\ s.text \in SentTexts'
  BY <1>3, HandsStay, OutboxAssumption DEF SendInHand, SendHands, SentTexts
<1>7. ASSUME NEW l \in ItemLists, NEW t \in SentTexts
      PROVE  [l EXCEPT ![t] = "failed"] \in ItemLists'
  BY DEF ItemLists, SentTexts, Forward
<1>8. savedItems' \in ItemLists' /\ items' \in [Controllers -> ItemLists']
  <2>1. items \in [Controllers -> ItemLists] /\ items \in [Controllers -> ItemLists']
    BY HandsStay DEF OutboxInv, ControllersOK
  <2>2. CASE EnqueueFailedSend(c)
    <3>1. s.list \in ItemLists /\ s.text \in SentTexts
      BY <1>2, <1>3, <1>6, <2>2 DEF EnqueueFailedSend, SendInHand, SendHands
    <3>2. savedItems' = [s.list EXCEPT ![s.text] = "failed"]
          /\ items' = [items EXCEPT ![c] = [items[c] EXCEPT ![s.text] = "failed"]]
      BY <1>2, <2>2 DEF EnqueueFailedSend, WriteList
    <3> QED
      BY <1>7, <2>1, <3>1, <3>2
  <2>3. CASE ~ EnqueueFailedSend(c)
    <3>1. UNCHANGED <<savedItems, items>>
      BY <2>3 DEF SendStep, SendPosts, EnqueueReads, SendCurrentDraft
    <3> QED
      BY <1>3, <2>1, <3>1
  <2> QED
    BY <2>2, <2>3
<1>9. ControllersOK'
  BY <1>1, <1>5, <1>8, HandsStay DEF OutboxInv, ControllersOK
<1>10. BesideItems'
  <2>1. atServer' \subseteq SentTexts'
    BY <1>2, <1>6, HandsStay DEF SendStep, SendPosts, EnqueueReads, EnqueueFailedSend, SendCurrentDraft,
       OutboxInv, BesideItems
  <2>2. queued' \subseteq Texts
    BY <1>2, <1>6 DEF SendStep, SendPosts, EnqueueReads, EnqueueFailedSend, SendCurrentDraft,
       OutboxInv, BesideItems, SentTexts
  <2>3. outboxFaults' = outboxFaults \/ OutboxFault
    BY DEF SendStep, SendPosts, EnqueueReads, EnqueueFailedSend, SendCurrentDraft
  <2>4. outboxFaults' \in 0..MaxOutboxFaults
    BY <2>3, OutboxAssumption DEF OutboxFault, OutboxInv, BesideItems
  <2>5. filesAttached' \subseteq atServer' /\ unsent' \subseteq Texts
    BY <1>1 DEF Forward, OutboxInv, BesideItems
  <2> QED
    BY <1>1, <2>1, <2>2, <2>4, <2>5 DEF OutboxInv, BesideItems
<1> QED
  BY <1>1, <1>9, <1>10

LEMMA RoomStepKeeps ==
    ASSUME OutboxInv, NEW c \in Controllers, Forward,
           OpenRoom(c) \/ LeaveRoom(c) \/ Load(c) \/ TapRetry(c) \/ LoadStep(c)
    PROVE  /\ ControllersOK' /\ BesideItems' /\ UNCHANGED <<savedItems, queued, overwritten, interrupted>>
           /\ \A b \in Controllers : retrying[b].text \in Texts => retrying'[b].text = retrying[b].text
<1>1. UNCHANGED <<savedItems, sending, unsent, atServer, filesAttached, queued, overwritten, interrupted>>
  BY DEF OpenRoom, LeaveRoom, Load, TapRetry, LoadStep, LoadApplies, AutoRetry
<1>2. \/ retrying' = retrying
      \/ /\ retrying[c].pc = "idle"
         /\ retrying' = [retrying EXCEPT ![c] = [NoRetry EXCEPT !.pc = "next", !.todo = Candidates(c)]]
  BY DEF OpenRoom, LeaveRoom, Load, TapRetry, LoadStep, LoadApplies, AutoRetry, RetryOutbox
<1>3. /\ retrying' \in [Controllers -> RetryHands'] /\ \A b \in Controllers : RetryInHand(retrying[b])'
      /\ \A b \in Controllers : retrying[b].text \in Texts => retrying'[b].text = retrying[b].text
  <2>1. CASE retrying' = retrying
    BY <2>1, HandsStay DEF OutboxInv, ControllersOK
  <2>2. CASE retrying' # retrying
    <3>1. PICK x : x = [NoRetry EXCEPT !.pc = "next", !.todo = Candidates(c)]
      OBVIOUS
    <3>2. Candidates(c) \subseteq SentTexts'
      BY <1>1 DEF Candidates, SentTexts, OutboxInv, ControllersOK, ItemLists
    <3>3. x \in RetryHands' /\ x.pc = "next" /\ x.text = "none"
      BY <3>1, <3>2, HandsAtRest, HandsStay DEF RetryHands, NoRetry
    <3>4. RetryInHand(x)' /\ retrying' = [retrying EXCEPT ![c] = x] /\ retrying[c].text = "none"
      BY <1>2, <2>2, <3>1, <3>3 DEF RetryInHand, OutboxInv, ControllersOK
    <3>5. retrying \in [Controllers -> RetryHands'] /\ \A b \in Controllers \ {c} : RetryInHand(retrying[b])'
      BY <3>4, HandsStay DEF OutboxInv, ControllersOK
    <3> QED
      BY <3>3, <3>4, <3>5, OutboxAssumption
  <2> QED
    BY <2>1, <2>2
<1>4. items' \in [Controllers -> ItemLists']
  <2>1. items \in [Controllers -> ItemLists'] /\ NoItems \in ItemLists' /\ loading[c].list \in ItemLists'
    BY HandsStay, HandsAtRest DEF OutboxInv, ControllersOK, LoadHands
  <2> QED
    BY <2>1 DEF OpenRoom, LeaveRoom, Load, TapRetry, LoadStep, LoadApplies, AutoRetry
<1>5. loading' \in [Controllers -> LoadHands']
  <2>1. loading \in [Controllers -> LoadHands'] /\ NoLoad \in LoadHands' /\ NoItems \in ItemLists'
        /\ savedItems \in ItemLists'
    BY HandsStay, HandsAtRest DEF OutboxInv, ControllersOK
  <2>2. [pc |-> "page", list |-> savedItems] \in LoadHands'
    BY <2>1 DEF LoadHands
  <2>3. [NoLoad EXCEPT !.pc = "retry"] \in LoadHands'
    BY <2>1 DEF LoadHands, NoLoad
  <2> QED
    BY <2>1, <2>2, <2>3 DEF OpenRoom, LeaveRoom, Load, TapRetry, LoadStep, LoadApplies, AutoRetry
<1>6. ControllersOK'
  BY <1>1, <1>3, <1>4, <1>5, HandsStay DEF OutboxInv, ControllersOK
<1>7. BesideItems'
  <2>1. open' \in {open, {}, {c}}
    BY DEF OpenRoom, LeaveRoom, Load, TapRetry, LoadStep, LoadApplies, AutoRetry
  <2>2. outboxFaults' = outboxFaults \/ OutboxFault
    BY DEF OpenRoom, LeaveRoom, Load, TapRetry, LoadStep, LoadApplies, AutoRetry
  <2>3. outboxFaults' \in 0..MaxOutboxFaults
    BY <2>2, OutboxAssumption DEF OutboxFault, OutboxInv, BesideItems
  <2> QED
    BY <1>1, <2>1, <2>3 DEF OutboxInv, BesideItems, SentTexts
<1> QED
  BY <1>1, <1>3, <1>6, <1>7

LEMMA AppDiesKeeps ==
    ASSUME OutboxInv, AppDies, Forward
    PROVE  ControllersOK' /\ BesideItems'
<1>1. ControllersOK'
  BY HandsAtRest, HandsStay DEF AppDies, OutboxInv, ControllersOK, SendInHand, RetryInHand
<1>2. outboxFaults' \in 0..MaxOutboxFaults
  BY OutboxAssumption DEF AppDies, OutboxFault, OutboxInv, BesideItems
<1> QED
  BY <1>1, <1>2 DEF AppDies, OutboxInv, BesideItems, SentTexts

(* A list that is written changes one item, or another in 'overwritten'.   *)
LEMMA WriteChangesOne ==
    ASSUME NEW l \in ItemLists, NEW t \in Texts, NEW st, WriteList(l, t, st)
    PROVE  /\ savedItems'[t] = st
           /\ \A x \in Texts \ (overwritten' \cup {t}) : savedItems'[x] = savedItems[x]
<1>1. l \in [Texts -> {"none", "failed", "sending"}]
  BY DEF ItemLists
<1> QED
  BY <1>1 DEF WriteList

(* A step writes the list for a retry or a send, or leaves the items and   *)
(* the texts that are tried as they are; when the app dies none is tried.  *)
Trying(t) == \E c \in Controllers : retrying[c].text = t
Quiet ==
    /\ savedItems' = savedItems /\ queued' = queued
    /\ \A t \in Texts : savedItems[t] = "sending" /\ Trying(t) => Trying(t)' \/ t \in interrupted'

LEMMA QuietKeeps ==
    ASSUME OutboxInv, Forward, Quiet
    PROVE  KeptUntilSent' /\ SendingMeansTrying'
  BY DEF OutboxInv, Forward, Quiet, KeptUntilSent, SendingMeansTrying, Arrived, Trying

(* A write of the list: an item that is taken out has arrived, one marked  *)
(* 'sending' is tried, and no other is given up.                           *)
LEMMA WriteKeeps ==
    ASSUME OutboxInv, Forward, NEW l \in ItemLists, NEW t \in Texts, NEW st, WriteList(l, t, st),
           queued' \subseteq queued \cup {t}, st = "none" => Arrived(t),
           st = "sending" => Trying(t)',
           \A x \in Texts \ {t} : Trying(x) => Trying(x)'
    PROVE  KeptUntilSent' /\ SendingMeansTrying'
<1>1. /\ savedItems'[t] = st
      /\ \A x \in Texts \ (overwritten' \cup {t}) : savedItems'[x] = savedItems[x]
  BY WriteChangesOne
<1>2. KeptUntilSent'
  <2> SUFFICES ASSUME NEW x \in queued' \ overwritten', ~ Arrived(x)' PROVE savedItems'[x] # "none"
    BY DEF KeptUntilSent
  <2>1. ~ Arrived(x)
    BY DEF Arrived, Forward
  <2>2. CASE x = t
    BY <1>1, <2>1, <2>2
  <2>3. CASE x # t
    BY <1>1, <2>1, <2>3 DEF OutboxInv, BesideItems, KeptUntilSent, Forward
  <2> QED
    BY <2>2, <2>3
<1>3. SendingMeansTrying'
  BY <1>1 DEF OutboxInv, SendingMeansTrying, Forward, Trying
<1> QED
  BY <1>2, <1>3

LEMMA RetryTells ==
    ASSUME OutboxInv, NEW c \in Controllers, RetryStep(c), Forward
    PROVE  KeptUntilSent' /\ SendingMeansTrying'
<1>1. PICK r : r = retrying[c]
  OBVIOUS
<1>2. PICK y : /\ retrying' = [retrying EXCEPT ![c] = y]
               /\ \/ y.text = r.text \/ r.text = "none"
                  \/ RemoveOutboxItem(c) \/ SaveFailed(c)
  BY <1>1, RetryMoves
<1>3. RetryInHand(r) /\ r.list \in ItemLists /\ DOMAIN retrying = Controllers
  BY <1>1 DEF OutboxInv, ControllersOK, RetryInHand, RetryHands
<1>4. ASSUME NEW x \in Texts, x # r.text \/ y.text = r.text, Trying(x) PROVE Trying(x)'
  <2>1. PICK b \in Controllers : retrying[b].text = x
    BY <1>4 DEF Trying
  <2>2. retrying'[b].text = x
    BY <1>1, <1>2, <1>3, <1>4, <2>1
  <2> QED
    BY <2>2 DEF Trying
<1>5. CASE NextItem(c) \/ RetryPosts(c) \/ AttachOutboxFiles(c) \/ ListAgain(c)
  <2>1. savedItems' = savedItems /\ queued' = queued
    BY <1>5 DEF NextItem, RetryPosts, AttachOutboxFiles, ListAgain
  <2>2. y.text = r.text \/ r.text = "none"
    BY <1>1, <1>2, <1>5 DEF NextItem, RetryPosts, AttachOutboxFiles, ListAgain, RemoveOutboxItem, SaveFailed
  <2>3. Quiet
    BY <1>4, <2>1, <2>2, OutboxAssumption DEF Quiet
  <2> QED
    BY <2>3, QuietKeeps
<1>6. CASE MarkSending(c)
  <2>1. r.pc = "mark" /\ WriteList(r.list, r.text, "sending") /\ queued' = queued /\ r.text \in Texts
    BY <1>1, <1>3, <1>6 DEF MarkSending, RetryInHand
  <2>2. y.text = r.text
    BY <1>1, <1>2, <1>6, <2>1, OutboxAssumption DEF MarkSending, RemoveOutboxItem, SaveFailed
  <2>3. Trying(r.text)'
    BY <1>2, <1>3, <2>2 DEF Trying
  <2> QED
    BY <1>3, <1>4, <2>1, <2>2, <2>3, WriteKeeps
<1>7. CASE RemoveOutboxItem(c)
  <2>1. r.pc = "remove" /\ WriteList(r.list, r.text, "none") /\ queued' = queued
    BY <1>1, <1>7 DEF RemoveOutboxItem
  <2>2. r.text \in Texts /\ Arrived(r.text)
    BY <1>3, <2>1 DEF RetryInHand
  <2> QED
    BY <1>3, <1>4, <2>1, <2>2, WriteKeeps
<1>8. CASE SaveFailed(c)
  <2>1. r.pc = "restore" /\ WriteList(r.list, r.text, "failed") /\ queued' = queued
    BY <1>1, <1>8 DEF SaveFailed
  <2>2. r.text \in Texts
    BY <1>3, <2>1 DEF RetryInHand
  <2> QED
    BY <1>3, <1>4, <2>1, <2>2, WriteKeeps
<1> QED
  BY <1>5, <1>6, <1>7, <1>8 DEF RetryStep

LEMMA SendTells ==
    ASSUME OutboxInv, NEW c \in Controllers, SendStep(c) \/ SendCurrentDraft(c), Forward
    PROVE  KeptUntilSent' /\ SendingMeansTrying'
<1>1. retrying' = retrying
  BY SendStepKeeps
<1>2. \A t \in Texts : Trying(t)' = Trying(t)
  BY <1>1 DEF Trying
<1>3. CASE EnqueueFailedSend(c)
  <2>1. PICK s : s = sending[c]
    OBVIOUS
  <2>2. s.list \in ItemLists /\ s.text \in Texts
    BY <1>3, <2>1 DEF EnqueueFailedSend, OutboxInv, ControllersOK, SendInHand, SendHands
  <2>3. WriteList(s.list, s.text, "failed") /\ queued' = queued \cup {s.text}
    BY <1>3, <2>1 DEF EnqueueFailedSend
  <2> QED
    BY <1>2, <2>2, <2>3, WriteKeeps
<1>4. CASE ~ EnqueueFailedSend(c)
  <2>1. Quiet
    BY <1>2, <1>4 DEF SendStep, SendPosts, EnqueueReads, SendCurrentDraft, Quiet
  <2> QED
    BY <2>1, QuietKeeps
<1> QED
  BY <1>3, <1>4

LEMMA OutboxInvStep == OutboxInv /\ [OutboxNext]_outboxVars => OutboxInv'
<1> SUFFICES ASSUME OutboxInv, [OutboxNext]_outboxVars PROVE OutboxInv'
  OBVIOUS
<1> Forward
  BY OutboxGoesForward
<1>1. CASE UNCHANGED outboxVars
  <2>1. ControllersOK'
    BY <1>1, HandsStay DEF OutboxInv, ControllersOK, outboxVars, stateOf
  <2>2. BesideItems' /\ Quiet
    BY <1>1 DEF OutboxInv, BesideItems, SentTexts, Quiet, Trying, outboxVars, stateOf
  <2> QED
    BY <2>1, <2>2, QuietKeeps DEF OutboxInv
<1>2. CASE AppDies
  <2>1. Quiet
    BY <1>2 DEF AppDies, Quiet
  <2> QED
    BY <1>2, <2>1, AppDiesKeeps, QuietKeeps DEF OutboxInv
<1>3. ASSUME NEW c \in Controllers, RetryStep(c) PROVE OutboxInv'
  BY <1>3, RetryStepKeeps, RetryTells DEF OutboxInv
<1>4. ASSUME NEW c \in Controllers, SendStep(c) \/ SendCurrentDraft(c) PROVE OutboxInv'
  BY <1>4, SendStepKeeps, SendTells DEF OutboxInv
<1>5. ASSUME NEW c \in Controllers,
             OpenRoom(c) \/ LeaveRoom(c) \/ Load(c) \/ TapRetry(c) \/ LoadStep(c)
      PROVE  OutboxInv'
  <2>1. ControllersOK' /\ BesideItems' /\ UNCHANGED <<savedItems, queued>>
        /\ \A b \in Controllers : retrying[b].text \in Texts => retrying'[b].text = retrying[b].text
    BY <1>5, RoomStepKeeps
  <2>2. Quiet
    BY <2>1 DEF Quiet, Trying
  <2> QED
    BY <2>1, <2>2, QuietKeeps DEF OutboxInv
<1> QED
  BY <1>1, <1>2, <1>3, <1>4, <1>5 DEF OutboxNext

(* However sends and retries of overlapping rooms write the stored list    *)
(* over each other, requests fail and the app dies: a text that was queued *)
(* stays stored until it and its file have arrived, and what is stored as  *)
(* 'sending' is being sent, but for what a stale list replaced or a death  *)
(* interrupted.                                                            *)
THEOREM OutboxKeepsItems == OutboxSpec => [](OutboxTypeOK /\ KeptUntilSent /\ SendingMeansTrying)
<1>1. OutboxInv => OutboxTypeOK
  <2> SUFFICES ASSUME OutboxInv PROVE OutboxTypeOK
    OBVIOUS
  <2>1. Cardinality(open) <= 1 /\ open \subseteq Controllers
    <3>1. CASE open = {}
      BY <3>1, FS_EmptySet
    <3>2. ASSUME NEW c \in Controllers, open = {c} PROVE Cardinality(open) <= 1
      <4>1. Cardinality({c}) = 1
        BY FS_Singleton
      <4> QED
        BY <3>2, <4>1
    <3> QED
      BY <3>1, <3>2 DEF OutboxInv, BesideItems
  <2> QED
    BY <2>1 DEF OutboxInv, ControllersOK, BesideItems, ItemLists, SentTexts, OutboxTypeOK
<1>2. OutboxInv => KeptUntilSent /\ SendingMeansTrying
  BY DEF OutboxInv
<1> QED
  BY <1>1, <1>2, OutboxStarts, OutboxInvStep, PTL DEF OutboxSpec

-----------------------------------------------------------------------------
(***************************************************************************)
(* The messages of a room: what is shown last is true when no event is on  *)
(* its way or was lost.                                                    *)

RoomRows   == [v : 1..MaxVersion, deleted : BOOLEAN]
Entries    == [v : 0..MaxVersion, as : {"absent", "live", "deleted"}]
RoomEvents == [m : RoomMessages, v : 1..MaxVersion, deleted : BOOLEAN]

(* What was said of a message at one of its versions: a deletion is the    *)
(* last; and an entry of a page or of the room is right for its version.   *)
Tells(m, v, gone) == v <= row[m].v /\ (gone <=> row[m].deleted /\ v = row[m].v)
EntryOK(m, x) ==
    /\ x \in Entries /\ x.v <= row[m].v
    /\ x.v = row[m].v => IF row[m].deleted THEN x.as # "live" ELSE x.as = "live"
PageOK(page) == page \in [RoomMessages -> Entries] /\ \A m \in RoomMessages : EntryOK(m, page[m])

OnTheWay == broadcasts \cup UNION {QueueOf(s) : s \in Sockets}

NetOK ==
    /\ socket \in [Sockets -> [st : {"off", "connecting", "joined", "closing"}, queue : Seq(RoomEvents)]]
    /\ \A s \in Sockets : socket[s].st \in {"off", "connecting"} => socket[s].queue = <<>>
    /\ current \in Sockets \cup {NoSocket}
    /\ broadcasts \subseteq RoomEvents
    /\ heard \in [RoomMessages -> 0..MaxVersion]

EventsOK == \A e \in OnTheWay : e \in RoomEvents /\ Tells(e.m, e.v, e.deleted)

(* The last change of a message is on its way or came by.                  *)
ToldAll ==
    \A m \in RoomMessages :
        \/ row[m].v = 1 \/ heard[m] >= row[m].v
        \/ \E e \in OnTheWay : e.m = m /\ e.v = row[m].v

PagesOK ==
    /\ loads # NoPage => PageOK(loads.page) /\ loads.save \in BOOLEAN
    /\ older # NoPage => PageOK(older)
    /\ cached # NoPage => PageOK(cached)
    /\ answer # NoPage =>
          /\ answer.m \in RoomMessages /\ answer.v \in 1..MaxVersion /\ answer.deleted \in BOOLEAN
          /\ Tells(answer.m, answer.v, answer.deleted)
          /\ answer.page # NoPage => PageOK(answer.page)

ViewOK ==
    /\ view \in [RoomMessages -> Entries] /\ shown \in [RoomMessages -> 0..MaxVersion]
    /\ \A m \in RoomMessages : shown[m] <= row[m].v /\ (shown[m] = row[m].v => Right(m))

BesideRoom ==
    /\ row \in [RoomMessages -> RoomRows]
    /\ disposed \in BOOLEAN /\ subscribed \in BOOLEAN /\ active \in BOOLEAN /\ hasMore \in BOOLEAN
    /\ roomChanges \in 0..MaxRoomChanges /\ roomFaults \in 0..MaxRoomFaults

RoomInv == BesideRoom /\ NetOK /\ EventsOK /\ ToldAll /\ PagesOK /\ ViewOK

LEMMA RoomStarts == RoomInit => RoomInv
<1> SUFFICES ASSUME RoomInit PROVE RoomInv
  OBVIOUS
<1>1. 1 \in 1..MaxVersion /\ 0 \in 0..MaxVersion /\ 0 \in 0..MaxRoomChanges /\ 0 \in 0..MaxRoomFaults
  BY RoomAssumption
<1>2. BesideRoom
  BY <1>1 DEF RoomInit, BesideRoom, RoomRows
<1>3. NetOK
  BY <1>1 DEF RoomInit, NetOK, ClosedSocket, NoSocket
<1>4. OnTheWay = {}
  <2>1. \A s \in Sockets : QueueOf(s) = {}
    BY DEF RoomInit, QueueOf, ClosedSocket
  <2> QED
    BY <2>1 DEF RoomInit, OnTheWay
<1>5. ToldAll /\ EventsOK /\ PagesOK
  BY <1>4 DEF RoomInit, ToldAll, EventsOK, PagesOK
<1>6. ViewOK
  BY <1>1 DEF RoomInit, ViewOK, Entries, Absent
<1> QED
  BY <1>2, <1>3, <1>5, <1>6 DEF RoomInv

(* Events that are lost or handled are heard.                              *)
LEMMA HearsAll ==
    ASSUME heard \in [RoomMessages -> 0..MaxVersion], NEW E \in SUBSET RoomEvents, Hear(E)
    PROVE  /\ heard' \in [RoomMessages -> 0..MaxVersion]
           /\ \A m \in RoomMessages : heard'[m] >= heard[m]
           /\ \A e \in E : heard'[e.m] >= e.v
<1> DEFINE S(m) == {heard[m]} \cup {e.v : e \in {x \in E : x.m = m}}
<1>1. ASSUME NEW m \in RoomMessages
      PROVE  Max(S(m)) \in 0..MaxVersion /\ \A n \in S(m) : n <= Max(S(m))
  <2>1. S(m) \subseteq 0..MaxVersion
    BY RoomAssumption DEF RoomEvents
  <2>2. S(m) \in SUBSET Nat /\ MaxVersion \in Nat /\ S(m) # {} /\ \A n \in S(m) : n <= MaxVersion
    BY <2>1, RoomAssumption
  <2> HIDE DEF S
  <2> QED
    BY <2>1, <2>2, GreatestOf
<1>2. heard' = [m \in RoomMessages |-> Max(S(m))]
  BY DEF Hear
<1>3. \A m \in RoomMessages : heard[m] \in S(m)
  OBVIOUS
<1>4. \A e \in E : e.m \in RoomMessages /\ e.v \in S(e.m)
  BY DEF RoomEvents
<1>5. \A m \in RoomMessages : \A n \in S(m) : n \in Nat
  BY RoomAssumption DEF RoomEvents
<1> HIDE DEF S
<1>6. heard' \in [RoomMessages -> 0..MaxVersion]
  BY <1>1, <1>2
<1>7. ASSUME NEW m \in RoomMessages PROVE heard'[m] >= heard[m]
  <2>1. heard[m] <= Max(S(m))
    BY <1>1, <1>3
  <2> QED
    BY <1>2, <2>1
<1>8. ASSUME NEW e \in E PROVE heard'[e.m] >= e.v
  <2>1. e.v <= Max(S(e.m))
    BY <1>1, <1>4
  <2> QED
    BY <1>2, <1>4, <2>1
<1> QED
  BY <1>6, <1>7, <1>8

(* Queues of events.                                                       *)
InQueue(q) == {q[i] : i \in DOMAIN q}

LEMMA AppendAdds ==
    ASSUME NEW q \in Seq(RoomEvents), NEW e \in RoomEvents
    PROVE  Append(q, e) \in Seq(RoomEvents) /\ InQueue(Append(q, e)) = InQueue(q) \cup {e}
<1>1. Append(q, e) \in Seq(RoomEvents) /\ Len(Append(q, e)) = Len(q) + 1 /\ Len(q) \in Nat
  OBVIOUS
<1>2. DOMAIN q = 1..Len(q) /\ DOMAIN Append(q, e) = 1..(Len(q) + 1)
  BY <1>1
<1>3. \A i \in 1..Len(q) : Append(q, e)[i] = q[i]
  OBVIOUS
<1>4. Append(q, e)[Len(q) + 1] = e
  OBVIOUS
<1>5. \A i \in 1..(Len(q) + 1) : i \in 1..Len(q) \/ i = Len(q) + 1
  BY <1>1
<1>6. 1..Len(q) \subseteq 1..(Len(q) + 1) /\ Len(q) + 1 \in 1..(Len(q) + 1)
  BY <1>1
<1> QED
  BY <1>1, <1>2, <1>3, <1>4, <1>5, <1>6 DEF InQueue

LEMMA TailDropsHead ==
    ASSUME NEW q \in Seq(RoomEvents), q # <<>>
    PROVE  /\ Tail(q) \in Seq(RoomEvents) /\ Head(q) \in RoomEvents
           /\ InQueue(q) = InQueue(Tail(q)) \cup {Head(q)}
<1>1. Len(q) \in Nat \ {0} /\ DOMAIN q = 1..Len(q) /\ Head(q) = q[1] /\ Head(q) \in RoomEvents
  OBVIOUS
<1>2. Tail(q) \in Seq(RoomEvents) /\ Len(Tail(q)) = Len(q) - 1 /\ DOMAIN Tail(q) = 1..(Len(q) - 1)
  BY <1>1
<1>3. \A i \in 1..(Len(q) - 1) : Tail(q)[i] = q[i + 1]
  BY <1>1, <1>2
<1>4. ASSUME NEW i \in 1..Len(q) PROVE i = 1 \/ (i - 1 \in 1..(Len(q) - 1) /\ q[i] = Tail(q)[i - 1])
  <2>1. i # 1 => i - 1 \in 1..(Len(q) - 1) /\ (i - 1) + 1 = i
    BY <1>1
  <2> QED
    BY <1>3, <2>1
<1>5. ASSUME NEW i \in 1..(Len(q) - 1) PROVE i + 1 \in 1..Len(q)
  BY <1>1
<1>6. 1 \in 1..Len(q)
  BY <1>1
<1>7. InQueue(q) \subseteq InQueue(Tail(q)) \cup {Head(q)}
  <2> SUFFICES ASSUME NEW i \in DOMAIN q PROVE q[i] \in InQueue(Tail(q)) \cup {Head(q)}
    BY DEF InQueue
  <2>1. CASE i = 1
    BY <1>1, <2>1
  <2>2. CASE i # 1
    <3>1. i - 1 \in DOMAIN Tail(q) /\ q[i] = Tail(q)[i - 1]
      BY <1>1, <1>2, <1>4, <2>2
    <3> QED
      BY <3>1 DEF InQueue
  <2> QED
    BY <2>1, <2>2
<1>8. InQueue(Tail(q)) \cup {Head(q)} \subseteq InQueue(q)
  BY <1>1, <1>2, <1>3, <1>5, <1>6 DEF InQueue
<1> QED
  BY <1>1, <1>2, <1>7, <1>8

(* A step that leaves the rows moves events on their way, or lets them be  *)
(* heard.                                                                  *)
Carried ==
    /\ row' = row /\ OnTheWay' \subseteq OnTheWay /\ heard' \in [RoomMessages -> 0..MaxVersion]
    /\ \A m \in RoomMessages : heard'[m] >= heard[m]
    /\ \A e \in OnTheWay \ OnTheWay' : heard'[e.m] >= e.v

LEMMA CarriedTells ==
    ASSUME RoomInv, Carried
    PROVE  EventsOK' /\ ToldAll'
<1>1. \A m, v, gone : Tells(m, v, gone)' = Tells(m, v, gone)
  BY DEF Tells, Carried
<1>2. EventsOK'
  BY <1>1 DEF RoomInv, EventsOK, Carried
<1>3. ASSUME NEW m \in RoomMessages
      PROVE  \/ row'[m].v = 1 \/ heard'[m] >= row'[m].v
             \/ \E e \in OnTheWay' : e.m = m /\ e.v = row'[m].v
  <2>1. row'[m] = row[m] /\ row[m].v \in Nat /\ heard[m] \in Nat /\ heard'[m] \in Nat /\ heard'[m] >= heard[m]
    BY RoomAssumption DEF Carried, RoomInv, BesideRoom, NetOK, RoomRows
  <2>2. CASE heard[m] >= row[m].v
    BY <2>1, <2>2
  <2>3. ASSUME NEW e \in OnTheWay, e.m = m, e.v = row[m].v
        PROVE  heard'[m] >= row'[m].v \/ e \in OnTheWay'
    BY <2>1, <2>3 DEF Carried
  <2> QED
    BY <2>1, <2>2, <2>3 DEF RoomInv, ToldAll
<1>4. ToldAll'
  BY <1>3 DEF ToldAll
<1> QED
  BY <1>2, <1>4

LEMMA QueuesAre ==
    /\ \A s : QueueOf(s) = InQueue(socket[s].queue)
    /\ NetOK => \A s \in Sockets : QueueOf(s) \in SUBSET RoomEvents
    /\ InQueue(<<>>) = {}
<1>1. \A s : QueueOf(s) = InQueue(socket[s].queue)
  BY DEF QueueOf, InQueue
<1>2. ASSUME NEW q \in Seq(RoomEvents) PROVE InQueue(q) \subseteq RoomEvents
  BY DEF InQueue
<1>3. InQueue(<<>>) = {}
  BY DEF InQueue
<1>4. NetOK => \A s \in Sockets : socket[s].queue \in Seq(RoomEvents)
  BY DEF NetOK
<1> QED
  BY <1>1, <1>2, <1>3, <1>4

(* Nothing is heard, and no queue becomes another but by growing less.     *)
LEMMA UnheardIsCarried ==
    ASSUME RoomInv, UNCHANGED <<row, broadcasts, heard>>,
           \A s \in Sockets : QueueOf(s)' = QueueOf(s)
    PROVE  Carried
<1>1. OnTheWay' = OnTheWay
  BY DEF OnTheWay
<1> QED
  BY <1>1, RoomAssumption DEF Carried, RoomInv, NetOK

SocketTypes == [st : {"off", "connecting", "joined", "closing"}, queue : Seq(RoomEvents)]

(* The steps of one socket.                                                *)
LEMMA OneSocketMoves ==
    ASSUME RoomInv, NEW s \in Sockets, NEW x \in SocketTypes, NEW gone \in SUBSET RoomEvents,
           socket' = [socket EXCEPT ![s] = x], UNCHANGED <<row, broadcasts>>, Hear(gone),
           InQueue(x.queue) \subseteq QueueOf(s), QueueOf(s) \subseteq InQueue(x.queue) \cup gone,
           x.st \in {"off", "connecting"} => x.queue = <<>>, current' \in Sockets \cup {NoSocket}
    PROVE  NetOK' /\ Carried
<1>1. socket \in [Sockets -> SocketTypes] /\ heard \in [RoomMessages -> 0..MaxVersion]
  BY DEF RoomInv, NetOK, SocketTypes
<1>2. socket' \in [Sockets -> SocketTypes] /\ socket'[s] = x /\ \A z \in Sockets \ {s} : socket'[z] = socket[z]
  BY <1>1
<1>3. QueueOf(s)' = InQueue(x.queue) /\ \A z \in Sockets \ {s} : QueueOf(z)' = QueueOf(z)
  BY <1>2 DEF QueueOf, InQueue
<1>4. /\ heard' \in [RoomMessages -> 0..MaxVersion]
      /\ \A m \in RoomMessages : heard'[m] >= heard[m]
      /\ \A e \in gone : heard'[e.m] >= e.v
  BY <1>1, HearsAll
<1>5. NetOK'
  BY <1>2, <1>4 DEF RoomInv, NetOK, SocketTypes
<1>6. \A z \in Sockets : QueueOf(z)' \subseteq QueueOf(z) /\ QueueOf(z) \subseteq QueueOf(z)' \cup gone
  BY <1>3
<1>7. OnTheWay' \subseteq OnTheWay /\ OnTheWay \subseteq OnTheWay' \cup gone
  BY <1>6 DEF OnTheWay
<1>8. Carried
  BY <1>4, <1>7 DEF Carried
<1> QED
  BY <1>5, <1>8

LEMMA NothingHeard == ASSUME RoomInv, heard' = heard PROVE Hear({})
<1>1. ASSUME NEW m \in RoomMessages PROVE Max({heard[m]} \cup {e.v : e \in {x \in {} : x.m = m}}) = heard[m]
  <2>1. {heard[m]} \cup {e.v : e \in {x \in {} : x.m = m}} = {heard[m]}
    OBVIOUS
  <2>2. {heard[m]} \in SUBSET Nat /\ heard[m] \in Nat /\ \A n \in {heard[m]} : n <= heard[m]
    BY RoomAssumption DEF RoomInv, NetOK
  <2>3. Max({heard[m]}) \in {heard[m]}
    BY <2>2, GreatestOf
  <2> QED
    BY <2>1, <2>3
<1>2. heard = [m \in RoomMessages |-> heard[m]]
  BY DEF RoomInv, NetOK
<1> QED
  BY <1>1, <1>2 DEF Hear

LEMMA SocketStepCarries ==
    ASSUME RoomInv, NEW s \in Sockets, SocketStep(s)
    PROVE  NetOK' /\ Carried
<1>1. PICK k : k = socket[s]
  OBVIOUS
<1>2. k \in SocketTypes /\ QueueOf(s) = InQueue(k.queue) /\ QueueOf(s) \in SUBSET RoomEvents
      /\ {} \in SUBSET RoomEvents /\ (k.st \in {"off", "connecting"} => k.queue = <<>>)
  BY <1>1, QueuesAre DEF RoomInv, NetOK, SocketTypes
<1>3. ClosedSocket \in SocketTypes /\ ClosedSocket.queue = <<>> /\ InQueue(<<>>) = {}
  BY QueuesAre DEF ClosedSocket, SocketTypes
<1>4. UNCHANGED <<row, broadcasts>> /\ current \in Sockets \cup {NoSocket}
  BY DEF SocketStep, Connected, ScheduleReconnect, HandleRealtimeEvent, RoomInv, NetOK
<1>5. CASE Connected(s)
  <2>1. Hear({}) /\ k.st = "connecting" /\ current' \in Sockets \cup {NoSocket}
    BY <1>1, <1>4, <1>5, NothingHeard DEF Connected
  <2>2. CASE disposed
    <3>1. socket' = [socket EXCEPT ![s] = ClosedSocket]
      BY <1>5, <2>2 DEF Connected
    <3> QED
      BY <1>2, <1>3, <1>4, <2>1, <3>1, OneSocketMoves
  <2>3. CASE ~ disposed
    <3>1. PICK x : x = [k EXCEPT !.st = "joined"]
      OBVIOUS
    <3>2. x \in SocketTypes /\ x.queue = k.queue /\ x.st = "joined"
      BY <1>2, <3>1 DEF SocketTypes
    <3>3. socket' = [socket EXCEPT ![s] = x]
      BY <1>1, <1>5, <2>3, <3>1 DEF Connected
    <3> QED
      BY <1>2, <1>4, <2>1, <3>2, <3>3, OneSocketMoves
  <2> QED
    BY <2>2, <2>3
<1>6. CASE ScheduleReconnect(s)
  <2>1. PICK x : x = [ClosedSocket EXCEPT !.st = IF Reconnects THEN "connecting" ELSE "off"]
    OBVIOUS
  <2>2. x \in SocketTypes /\ x.queue = <<>>
    BY <1>3, <2>1 DEF SocketTypes
  <2>3. socket' = [socket EXCEPT ![s] = x] /\ Hear(QueueOf(s)) /\ current' = current
    BY <1>6, <2>1 DEF ScheduleReconnect
  <2> QED
    BY <1>2, <1>3, <1>4, <2>2, <2>3, OneSocketMoves
<1>7. CASE HandleRealtimeEvent(s)
  <2>1. PICK x : x = [k EXCEPT !.queue = Tail(k.queue)]
    OBVIOUS
  <2>2. k.queue \in Seq(RoomEvents) /\ k.queue # <<>> /\ k.st \in {"joined", "closing"}
    BY <1>1, <1>2, <1>7 DEF HandleRealtimeEvent, SocketTypes
  <2>3. /\ Tail(k.queue) \in Seq(RoomEvents) /\ Head(k.queue) \in RoomEvents
        /\ InQueue(k.queue) = InQueue(Tail(k.queue)) \cup {Head(k.queue)}
    BY <2>2, TailDropsHead
  <2>4. x \in SocketTypes /\ x.queue = Tail(k.queue) /\ x.st = k.st
    BY <1>2, <2>1, <2>3 DEF SocketTypes
  <2>5. socket' = [socket EXCEPT ![s] = x] /\ Hear({Head(k.queue)}) /\ current' = current
    BY <1>1, <1>7, <2>1 DEF HandleRealtimeEvent
  <2>6. /\ InQueue(x.queue) \subseteq QueueOf(s) /\ QueueOf(s) \subseteq InQueue(x.queue) \cup {Head(k.queue)}
        /\ {Head(k.queue)} \in SUBSET RoomEvents /\ x.st \notin {"off", "connecting"}
    BY <1>2, <2>2, <2>3, <2>4
  <2> QED
    BY <1>4, <2>4, <2>5, <2>6, OneSocketMoves
<1> QED
  BY <1>5, <1>6, <1>7 DEF SocketStep

LEMMA SubscriptionCarries ==
    ASSUME RoomInv, SuspendRealtime \/ ApplyPage
    PROVE  NetOK' /\ Carried
<1>1. UNCHANGED <<row, broadcasts, heard>> /\ Hear({}) /\ {} \in SUBSET RoomEvents
  BY NothingHeard DEF SuspendRealtime, ApplyPage
<1>2. current' \in Sockets \cup {NoSocket}
  BY DEF SuspendRealtime, ApplyPage, SubscribeRealtime, net, RoomInv, NetOK
<1>3. CASE socket' = socket
  <2>1. Carried
    BY <1>1, <1>3, UnheardIsCarried DEF QueueOf
  <2> QED
    BY <1>1, <1>2, <1>3, <2>1 DEF RoomInv, NetOK
<1>4. CASE socket' # socket
  <2>1. PICK s \in Sockets, x \in SocketTypes :
           /\ socket' = [socket EXCEPT ![s] = x] /\ InQueue(x.queue) = QueueOf(s)
           /\ x.st \in {"off", "connecting"} => x.queue = <<>>
    <3>1. CASE SuspendRealtime
      <4>1. current \in Sockets /\ socket[current].st = "joined"
            /\ socket' = [socket EXCEPT ![current].st = "closing"]
        BY <1>4, <3>1 DEF SuspendRealtime, net, RoomInv, NetOK
      <4>2. PICK s \in Sockets : s = current
        BY <4>1
      <4>3. PICK k : k = socket[s]
        OBVIOUS
      <4>4. PICK x : x = [k EXCEPT !.st = "closing"]
        OBVIOUS
      <4>5. k \in SocketTypes
        BY <4>3 DEF RoomInv, NetOK, SocketTypes
      <4>6. x \in SocketTypes /\ x.queue = k.queue /\ x.st = "closing"
        BY <4>4, <4>5 DEF SocketTypes
      <4>7. socket' = [socket EXCEPT ![s] = x] /\ InQueue(x.queue) = QueueOf(s)
        BY <4>1, <4>2, <4>3, <4>4, <4>6, QueuesAre
      <4> QED
        BY <4>6, <4>7
    <3>2. CASE ApplyPage
      <4>1. PICK s \in FreeSockets : Connect(s)
        BY <1>4, <3>2 DEF ApplyPage, SubscribeRealtime, net
      <4>2. s \in Sockets /\ socket[s].st = "off" /\ socket[s].queue = <<>>
        BY <4>1 DEF FreeSockets, RoomInv, NetOK
      <4>3. PICK x : x = [ClosedSocket EXCEPT !.st = "connecting"]
        OBVIOUS
      <4>4. x \in SocketTypes /\ x.queue = <<>>
        <5>1. ClosedSocket \in SocketTypes /\ ClosedSocket.queue = <<>>
          BY DEF SocketTypes, ClosedSocket
        <5> QED
          BY <4>3, <5>1 DEF SocketTypes
      <4>5. socket' = [socket EXCEPT ![s] = x] /\ InQueue(x.queue) = QueueOf(s)
        BY <4>1, <4>2, <4>3, <4>4, QueuesAre DEF Connect
      <4> QED
        BY <4>2, <4>4, <4>5
    <3> QED
      BY <3>1, <3>2
  <2> QED
    BY <1>1, <1>2, <2>1, OneSocketMoves
<1> QED
  BY <1>3, <1>4

LEMMA BroadcastCarries ==
    ASSUME RoomInv, Broadcast
    PROVE  NetOK' /\ Carried
<1>1. PICK e \in broadcasts, full \in SUBSET Joined :
        /\ broadcasts' = broadcasts \ {e}
        /\ socket' = [s \in Sockets |->
               IF s \in Joined \ full THEN [socket[s] EXCEPT !.queue = Append(@, e)] ELSE socket[s]]
        /\ IF full # {} \/ Joined = {} THEN Hear({e}) ELSE UNCHANGED heard
        /\ UNCHANGED <<row, current>>
  BY DEF Broadcast
<1>2. e \in RoomEvents /\ socket \in [Sockets -> SocketTypes] /\ heard \in [RoomMessages -> 0..MaxVersion]
  BY DEF RoomInv, NetOK, SocketTypes
<1>3. ASSUME NEW s \in Sockets
      PROVE  /\ socket'[s] \in SocketTypes
             /\ socket'[s].st \in {"off", "connecting"} => socket'[s].queue = <<>>
             /\ QueueOf(s)' = IF s \in Joined \ full THEN QueueOf(s) \cup {e} ELSE QueueOf(s)
  <2>1. PICK k : k = socket[s]
    OBVIOUS
  <2>2. k \in SocketTypes /\ (k.st \in {"off", "connecting"} => k.queue = <<>>)
    BY <1>2, <2>1 DEF RoomInv, NetOK
  <2>3. CASE s \in Joined \ full
    <3>1. PICK x : x = [k EXCEPT !.queue = Append(k.queue, e)]
      OBVIOUS
    <3>2. Append(k.queue, e) \in Seq(RoomEvents)
          /\ InQueue(Append(k.queue, e)) = InQueue(k.queue) \cup {e}
      BY <1>2, <2>2, AppendAdds DEF SocketTypes
    <3>3. x \in SocketTypes /\ x.queue = Append(k.queue, e) /\ x.st = "joined"
      BY <2>1, <2>2, <2>3, <3>1, <3>2 DEF SocketTypes, Joined
    <3>4. socket'[s] = x
      BY <1>1, <2>1, <2>3, <3>1
    <3>5. QueueOf(s)' = InQueue(x.queue) /\ QueueOf(s) = InQueue(k.queue)
      BY <2>1, <3>4 DEF QueueOf, InQueue
    <3> QED
      BY <2>3, <3>2, <3>3, <3>4, <3>5
  <2>4. CASE s \notin Joined \ full
    <3>1. socket'[s] = k
      BY <1>1, <2>1, <2>4
    <3> QED
      BY <2>1, <2>2, <2>4, <3>1 DEF QueueOf
  <2> QED
    BY <2>3, <2>4
<1>4. /\ heard' \in [RoomMessages -> 0..MaxVersion]
      /\ \A m \in RoomMessages : heard'[m] >= heard[m]
      /\ full # {} \/ Joined = {} => heard'[e.m] >= e.v
  <2>1. CASE full # {} \/ Joined = {}
    <3>1. Hear({e}) /\ {e} \in SUBSET RoomEvents
      BY <1>1, <1>2, <2>1
    <3> QED
      BY <1>2, <3>1, HearsAll
  <2>2. CASE ~ (full # {} \/ Joined = {})
    BY <1>1, <1>2, <2>2, RoomAssumption
  <2> QED
    BY <2>1, <2>2
<1>5. NetOK'
  <2>1. socket' \in [Sockets -> SocketTypes]
    BY <1>1, <1>3
  <2> QED
    BY <1>1, <1>3, <1>4, <2>1 DEF RoomInv, NetOK, SocketTypes
<1>6. OnTheWay' \subseteq OnTheWay
  <2>1. broadcasts' \subseteq broadcasts /\ e \in broadcasts
    BY <1>1
  <2>2. \A s \in Sockets : QueueOf(s)' \subseteq QueueOf(s) \cup {e}
    BY <1>3
  <2> QED
    BY <2>1, <2>2 DEF OnTheWay
<1>7. ASSUME NEW d \in OnTheWay \ OnTheWay' PROVE heard'[d.m] >= d.v
  <2>1. d = e
    <3>1. \A s \in Sockets : QueueOf(s) \subseteq QueueOf(s)'
      BY <1>3
    <3>2. broadcasts \subseteq broadcasts' \cup {e}
      BY <1>1
    <3> QED
      BY <1>7, <3>1, <3>2 DEF OnTheWay
  <2>2. \A s \in Joined : s \in full
    BY <1>3, <1>7, <2>1 DEF OnTheWay, Joined
  <2> QED
    BY <1>4, <2>1, <2>2
<1> QED
  BY <1>1, <1>4, <1>5, <1>6, <1>7 DEF Carried

(* What a step shows of a message is right for the version it shows, or is *)
(* what was shown.                                                         *)
Shows(m, x, v) ==
    /\ x \in Entries /\ v \in 0..MaxVersion /\ v <= row[m].v
    /\ v = row[m].v => IF row[m].deleted THEN x.as # "live" ELSE x = [v |-> row[m].v, as |-> "live"]

LEMMA EntryShows ==
    ASSUME RoomInv, NEW m \in RoomMessages, NEW x, EntryOK(m, x)
    PROVE  Shows(m, x, x.v)
<1>1. x = [v |-> x.v, as |-> x.as] /\ x.v \in 0..MaxVersion
  BY DEF EntryOK, Entries
<1> QED
  BY <1>1 DEF EntryOK, Shows

LEMMA ReducedShows ==
    ASSUME RoomInv, NEW e, e.m \in RoomMessages, e.v \in 1..MaxVersion, e.deleted \in BOOLEAN,
           Tells(e.m, e.v, e.deleted)
    PROVE  Shows(e.m, Reduced(e), e.v)
<1>1. view[e.m] \in Entries /\ e.v \in 0..MaxVersion
  BY RoomAssumption DEF RoomInv, ViewOK
<1>2. CASE ~ e.deleted
  <2>1. Reduced(e) = [v |-> e.v, as |-> "live"]
    BY <1>2 DEF Reduced
  <2> QED
    BY <1>1, <1>2, <2>1 DEF Tells, Shows, Entries
<1>3. CASE e.deleted
  <2>1. PICK x : x = [view[e.m] EXCEPT !.as = "deleted"]
    OBVIOUS
  <2>2. x \in Entries /\ x.as = "deleted"
    BY <1>1, <2>1 DEF Entries
  <2>3. Reduced(e) \in Entries /\ Reduced(e).as # "live"
    BY <1>1, <1>3, <2>1, <2>2 DEF Reduced
  <2> QED
    BY <1>1, <1>3, <2>3 DEF Tells, Shows
<1> QED
  BY <1>2, <1>3

LEMMA ShownStays ==
    ASSUME RoomInv, row' = row,
           view' \in [RoomMessages -> Entries], shown' \in [RoomMessages -> 0..MaxVersion],
           \A m \in RoomMessages :
               \/ view'[m] = view[m] /\ shown'[m] = shown[m]
               \/ Shows(m, view'[m], shown'[m])
    PROVE  ViewOK'
<1>1. ASSUME NEW m \in RoomMessages PROVE shown'[m] <= row[m].v /\ (shown'[m] = row[m].v => Right(m)')
  BY <1>1 DEF RoomInv, ViewOK, Shows, Right
<1> QED
  BY <1>1 DEF ViewOK

(* What the pages say stays, as long as the rows do.                       *)
LEMMA PagesStay ==
    ASSUME RoomInv, row' = row
    PROVE  /\ \A page : PageOK(page)' = PageOK(page)
           /\ \A m, v, gone : Tells(m, v, gone)' = Tells(m, v, gone)
  BY DEF PageOK, EntryOK, Tells

LEMMA PageOfIsOK == ASSUME RoomInv, NEW msgs PROVE PageOK(PageOf(msgs))
<1>1. ASSUME NEW m \in RoomMessages PROVE PageOf(msgs)[m] \in Entries /\ EntryOK(m, PageOf(msgs)[m])
  <2>1. row[m] \in RoomRows /\ row[m].v \in 1..MaxVersion /\ row[m].v \in 0..MaxVersion /\ 0 \in 0..MaxVersion
    BY RoomAssumption DEF RoomInv, BesideRoom, RoomRows
  <2>2. PageOf(msgs)[m] = IF m \notin msgs THEN Absent
                          ELSE [v |-> row[m].v, as |-> IF row[m].deleted THEN "absent" ELSE "live"]
    BY DEF PageOf
  <2>3. CASE m \notin msgs
    BY <2>1, <2>2, <2>3 DEF Absent, Entries, EntryOK
  <2>4. CASE m \in msgs
    BY <2>1, <2>2, <2>4 DEF Entries, EntryOK
  <2> QED
    BY <2>3, <2>4
<1>2. PageOf(msgs) \in [RoomMessages -> Entries]
  BY <1>1 DEF PageOf
<1> QED
  BY <1>1, <1>2 DEF PageOK

(* The steps that leave the rows and are no socket's.                      *)
LEMMA LoadKeeps ==
    ASSUME RoomInv, LoadMessages \/ LoadOlder \/ OlderFails \/ Resume
    PROVE  RoomInv'
<1>1. UNCHANGED <<row, broadcasts, net, heard, view, shown, answer, cached, roomChanges>>
  BY DEF LoadMessages, LoadOlder, OlderFails, Resume, roomState
<1>2. NetOK' /\ Carried
  BY <1>1, UnheardIsCarried DEF RoomInv, NetOK, QueueOf, net
<1>3. BesideRoom'
  <2>1. roomFaults' = roomFaults \/ RoomFault
    BY DEF LoadMessages, LoadOlder, OlderFails, Resume
  <2>2. roomFaults' \in 0..MaxRoomFaults
    BY <2>1, RoomAssumption DEF RoomFault, RoomInv, BesideRoom
  <2>3. active' \in BOOLEAN /\ hasMore' = hasMore
    BY DEF LoadMessages, LoadOlder, OlderFails, Resume, RoomInv, BesideRoom, roomState
  <2> QED
    BY <1>1, <2>2, <2>3 DEF RoomInv, BesideRoom, net
<1>4. ViewOK'
  BY <1>1 DEF RoomInv, ViewOK, Right
<1>5. PagesOK'
  <2>1. loads' # NoPage => PageOK(loads'.page) /\ loads'.save \in BOOLEAN
    <3>1. CASE LoadMessages
      <4>1. \/ loads' = [page |-> PageOf(Latest), save |-> TRUE]
            \/ loads' = NoPage
            \/ cached # NoPage /\ loads' = [page |-> cached, save |-> FALSE]
        BY <3>1 DEF LoadMessages
      <4>2. PageOK(PageOf(Latest)) /\ (cached # NoPage => PageOK(cached))
        BY PageOfIsOK DEF RoomInv, PagesOK
      <4>3. CASE loads' = NoPage
        BY <4>3
      <4>4. ASSUME NEW page, PageOK(page), NEW b \in BOOLEAN, loads' = [page |-> page, save |-> b]
            PROVE  PageOK(loads'.page) /\ loads'.save \in BOOLEAN
        <5>1. loads'.page = page /\ loads'.save = b
          BY <4>4
        <5> QED
          BY <4>4, <5>1
      <4> QED
        BY <4>1, <4>2, <4>3, <4>4
    <3>2. CASE ~ LoadMessages
      BY <3>2 DEF LoadOlder, OlderFails, Resume, roomState, RoomInv, PagesOK
    <3> QED
      BY <3>1, <3>2
  <2>2. older' # NoPage => PageOK(older')
    BY PageOfIsOK DEF LoadMessages, LoadOlder, OlderFails, Resume, roomState, RoomInv, PagesOK
  <2>3. PICK l, o : l = loads' /\ o = older'
    OBVIOUS
  <2>4. (l # NoPage => PageOK(l.page)' /\ l.save \in BOOLEAN) /\ (o # NoPage => PageOK(o)')
    BY <1>1, <2>1, <2>2, <2>3, PagesStay
  <2> QED
    BY <1>1, <2>3, <2>4, PagesStay DEF RoomInv, PagesOK
<1> QED
  BY <1>2, <1>3, <1>4, <1>5, CarriedTells DEF RoomInv

LEMMA ApplyPageKeeps == ASSUME RoomInv, ApplyPage PROVE RoomInv'
<1>1. UNCHANGED <<row, broadcasts, heard, older, answer, active, roomChanges, roomFaults>> /\ loads # NoPage
      /\ loads' = NoPage
  BY DEF ApplyPage
<1>2. NetOK' /\ Carried
  BY SubscriptionCarries
<1>3. BesideRoom'
  BY <1>1 DEF ApplyPage, SubscribeRealtime, net, RoomInv, BesideRoom
<1>4. PICK page : page = loads.page
  OBVIOUS
<1>5. PageOK(page) /\ view' = page /\ shown' = [m \in RoomMessages |-> page[m].v]
      /\ cached' \in {page, cached}
  BY <1>1, <1>4 DEF ApplyPage, ReplacedBy, RoomInv, PagesOK
<1>6. ViewOK'
  <2>1. \A m \in RoomMessages : Shows(m, page[m], page[m].v)
    BY <1>5, EntryShows DEF PageOK
  <2>2. view' \in [RoomMessages -> Entries] /\ \A m \in RoomMessages : view'[m] = page[m] /\ shown'[m] = page[m].v
    BY <1>5 DEF PageOK
  <2>3. shown' \in [RoomMessages -> 0..MaxVersion]
    BY <1>5, <2>2 DEF PageOK, Entries
  <2> QED
    BY <1>1, <2>1, <2>2, <2>3, ShownStays
<1>7. PagesOK'
  <2>1. cached' # NoPage => PageOK(cached)' \/ cached' = page
    BY <1>1, <1>5, PagesStay DEF RoomInv, PagesOK
  <2>2. PageOK(page)'
    BY <1>1, <1>5, PagesStay
  <2>3. cached' # NoPage => PageOK(cached)'
    BY <2>1, <2>2
  <2> QED
    BY <1>1, <2>3, PagesStay DEF RoomInv, PagesOK
<1> QED
  BY <1>2, <1>3, <1>6, <1>7, CarriedTells DEF RoomInv

LEMMA MergeOlderKeeps == ASSUME RoomInv, MergeOlder PROVE RoomInv'
<1>1. UNCHANGED <<row, broadcasts, net, heard, active, loads, answer, cached, roomChanges, roomFaults>>
      /\ older # NoPage /\ older' = NoPage /\ hasMore' = FALSE
  BY DEF MergeOlder
<1>2. NetOK' /\ Carried
  BY <1>1, UnheardIsCarried DEF RoomInv, NetOK, QueueOf, net
<1>3. BesideRoom'
  BY <1>1 DEF RoomInv, BesideRoom, net
<1>4. PagesOK'
  BY <1>1, PagesStay DEF RoomInv, PagesOK
<1>5. PICK filled \in SUBSET RoomMessages :
         /\ view' = [m \in RoomMessages |-> IF m \in filled THEN older[m] ELSE view[m]]
         /\ shown' = [m \in RoomMessages |-> IF m \in filled THEN older[m].v ELSE shown[m]]
  BY DEF MergeOlder, OldMessages
<1>6. PageOK(older)
  BY <1>1 DEF RoomInv, PagesOK
<1>7. \A m \in filled : Shows(m, older[m], older[m].v)
  BY <1>6, EntryShows DEF PageOK
<1>8. view' \in [RoomMessages -> Entries] /\ shown' \in [RoomMessages -> 0..MaxVersion]
  BY <1>5, <1>6 DEF PageOK, Entries, RoomInv, ViewOK
<1>9. ViewOK'
  BY <1>1, <1>5, <1>7, <1>8, ShownStays
<1> QED
  BY <1>2, <1>3, <1>4, <1>9, CarriedTells DEF RoomInv

LEMMA SuspendKeeps == ASSUME RoomInv, SuspendRealtime PROVE RoomInv'
<1>1. UNCHANGED <<row, broadcasts, roomState, heard, roomChanges, roomFaults>>
  BY DEF SuspendRealtime
<1>2. NetOK' /\ Carried
  BY SubscriptionCarries
<1>3. BesideRoom'
  BY <1>1 DEF SuspendRealtime, net, roomState, RoomInv, BesideRoom
<1>4. ViewOK' /\ PagesOK'
  BY <1>1, PagesStay DEF RoomInv, ViewOK, Right, PagesOK, roomState
<1> QED
  BY <1>2, <1>3, <1>4, CarriedTells DEF RoomInv

LEMMA BroadcastKeeps == ASSUME RoomInv, Broadcast PROVE RoomInv'
<1>1. UNCHANGED <<row, current, disposed, subscribed, active, roomState, roomChanges>>
      /\ (roomFaults' = roomFaults \/ RoomFault)
  BY DEF Broadcast
<1>2. NetOK' /\ Carried
  BY BroadcastCarries
<1>3. roomFaults' \in 0..MaxRoomFaults
  BY <1>1, RoomAssumption DEF RoomFault, RoomInv, BesideRoom
<1>4. BesideRoom'
  BY <1>1, <1>3 DEF roomState, RoomInv, BesideRoom
<1>5. ViewOK' /\ PagesOK'
  BY <1>1, PagesStay DEF RoomInv, ViewOK, Right, PagesOK, roomState
<1> QED
  BY <1>2, <1>4, <1>5, CarriedTells DEF RoomInv

LEMMA SocketStepKeeps == ASSUME RoomInv, NEW s \in Sockets, SocketStep(s) PROVE RoomInv'
<1>1. UNCHANGED <<row, broadcasts, disposed, subscribed, active, hasMore, loads, older, answer, cached, roomChanges>>
      /\ (roomFaults' = roomFaults \/ RoomFault)
  BY DEF SocketStep, Connected, ScheduleReconnect, HandleRealtimeEvent, roomState
<1>2. NetOK' /\ Carried
  BY SocketStepCarries
<1>3. roomFaults' \in 0..MaxRoomFaults
  BY <1>1, RoomAssumption DEF RoomFault, RoomInv, BesideRoom
<1>4. BesideRoom'
  BY <1>1, <1>3 DEF RoomInv, BesideRoom
<1>5. PagesOK'
  BY <1>1, PagesStay DEF RoomInv, PagesOK
<1>6. ViewOK'
  <2>1. CASE UNCHANGED <<view, shown>>
    BY <1>1, <2>1 DEF RoomInv, ViewOK, Right
  <2>2. CASE ~ UNCHANGED <<view, shown>>
    <3>1. PICK e : e = Head(socket[s].queue)
      OBVIOUS
    <3>2. /\ HandleRealtimeEvent(s)
          /\ view' = [view EXCEPT ![e.m] = Reduced(e)] /\ shown' = [shown EXCEPT ![e.m] = e.v]
      BY <2>2, <3>1 DEF SocketStep, Connected, ScheduleReconnect, HandleRealtimeEvent, roomState
    <3>3. e \in OnTheWay /\ e \in RoomEvents
      <4>1. socket[s].queue \in Seq(RoomEvents) /\ socket[s].queue # <<>>
        BY <3>2 DEF HandleRealtimeEvent, RoomInv, NetOK
      <4>2. PICK q \in Seq(RoomEvents) : q = socket[s].queue /\ q # <<>>
        BY <4>1
      <4>3. Head(q) \in RoomEvents /\ Head(q) \in InQueue(q)
        BY <4>2, TailDropsHead
      <4> QED
        BY <3>1, <4>2, <4>3, QueuesAre DEF OnTheWay
    <3>4. Shows(e.m, Reduced(e), e.v) /\ e.m \in RoomMessages
      <4>1. Tells(e.m, e.v, e.deleted)
        BY <3>3 DEF RoomInv, EventsOK
      <4>2. e.m \in RoomMessages /\ e.v \in 1..MaxVersion /\ e.deleted \in BOOLEAN
        BY <3>3 DEF RoomEvents
      <4> QED
        BY <4>1, <4>2, ReducedShows
    <3>5. view' \in [RoomMessages -> Entries] /\ shown' \in [RoomMessages -> 0..MaxVersion]
      BY <3>2, <3>4 DEF Shows, RoomInv, ViewOK
    <3>6. \A m \in RoomMessages \ {e.m} : view'[m] = view[m] /\ shown'[m] = shown[m]
      BY <3>2, <3>4 DEF RoomInv, ViewOK
    <3>7. view'[e.m] = Reduced(e) /\ shown'[e.m] = e.v
      BY <3>2, <3>4 DEF RoomInv, ViewOK
    <3> QED
      BY <1>1, <3>4, <3>5, <3>6, <3>7, ShownStays
  <2> QED
    BY <2>1, <2>2
<1> QED
  BY <1>2, <1>4, <1>5, <1>6, CarriedTells DEF RoomInv

LEMMA UpsertLocalKeeps == ASSUME RoomInv, UpsertLocal PROVE RoomInv'
<1>1. UNCHANGED <<row, broadcasts, net, heard, active, hasMore, loads, older, roomChanges, roomFaults>>
      /\ answer # NoPage /\ answer' = NoPage
  BY DEF UpsertLocal
<1>2. NetOK' /\ Carried
  BY <1>1, UnheardIsCarried DEF RoomInv, NetOK, QueueOf, net
<1>3. BesideRoom'
  BY <1>1 DEF RoomInv, BesideRoom, net
<1>4. PICK a : a = answer
  OBVIOUS
<1>5. /\ a.m \in RoomMessages /\ a.v \in 1..MaxVersion /\ a.deleted \in BOOLEAN
      /\ Tells(a.m, a.v, a.deleted) /\ (a.page # NoPage => PageOK(a.page))
  BY <1>1, <1>4 DEF RoomInv, PagesOK
<1>6. view' = [view EXCEPT ![a.m] = Reduced(a)] /\ shown' = [shown EXCEPT ![a.m] = a.v]
  BY <1>4 DEF UpsertLocal
<1>7. ViewOK'
  <2>1. Shows(a.m, Reduced(a), a.v)
    BY <1>5, ReducedShows
  <2>2. view' \in [RoomMessages -> Entries] /\ shown' \in [RoomMessages -> 0..MaxVersion]
    BY <1>5, <1>6, <2>1 DEF Shows, RoomInv, ViewOK
  <2>3. \A m \in RoomMessages \ {a.m} : view'[m] = view[m] /\ shown'[m] = shown[m]
    BY <1>5, <1>6 DEF RoomInv, ViewOK
  <2>4. view'[a.m] = Reduced(a) /\ shown'[a.m] = a.v
    BY <1>5, <1>6 DEF RoomInv, ViewOK
  <2> QED
    BY <1>1, <2>1, <2>2, <2>3, <2>4, ShownStays
<1>8. ASSUME NEW page, PageOK(page),
             cached' = [page EXCEPT ![a.m] = [v |-> a.v, as |-> IF a.deleted THEN "absent" ELSE "live"]]
      PROVE  PageOK(cached')
  <2>1. PICK x : x = [v |-> a.v, as |-> IF a.deleted THEN "absent" ELSE "live"]
    OBVIOUS
  <2>2. x \in Entries /\ EntryOK(a.m, x)
    <3>1. a.v \in 0..MaxVersion
      BY <1>5, RoomAssumption
    <3> QED
      BY <1>5, <2>1, <3>1 DEF Entries, EntryOK, Tells
  <2>3. cached' = [page EXCEPT ![a.m] = x]
    BY <1>8, <2>1
  <2> QED
    BY <1>5, <1>8, <2>2, <2>3 DEF PageOK
<1>9. cached' # NoPage => PageOK(cached')
  <2>1. \/ cached' = cached
        \/ cached # NoPage
           /\ cached' = [cached EXCEPT ![a.m] = [v |-> a.v, as |-> IF a.deleted THEN "absent" ELSE "live"]]
        \/ a.page # NoPage
           /\ cached' = [a.page EXCEPT ![a.m] = [v |-> a.v, as |-> IF a.deleted THEN "absent" ELSE "live"]]
    BY <1>4 DEF UpsertLocal, SaveAnswer
  <2> QED
    BY <1>5, <1>8, <2>1 DEF RoomInv, PagesOK
<1>10. cached' # NoPage => PageOK(cached)'
  <2>1. PICK c : c = cached'
    OBVIOUS
  <2>2. c # NoPage => PageOK(c)'
    BY <1>1, <1>9, <2>1, PagesStay
  <2> QED
    BY <2>1, <2>2
<1>11. PagesOK'
  BY <1>1, <1>10, PagesStay DEF RoomInv, PagesOK
<1> QED
  BY <1>2, <1>3, <1>7, <1>11, CarriedTells DEF RoomInv

(* A change of a message: what was said of it before is said of an earlier *)
(* version.                                                                *)
LEMMA ChangeKeeps ==
    ASSUME RoomInv, NEW m \in RoomMessages, NEW gone \in BOOLEAN, Changed(m, gone),
           UNCHANGED <<net, heard, roomFaults, active, view, hasMore, loads, older, cached, shown>>,
           \/ answer' = answer
           \/ answer' = [m |-> m, v |-> row[m].v + 1, deleted |-> gone, page |-> cached]
    PROVE  RoomInv'
<1>1. PICK v : v = row[m].v
  OBVIOUS
<1>2. row[m] \in RoomRows /\ v \in 1..MaxVersion /\ v < MaxVersion /\ ~ row[m].deleted
      /\ v + 1 \in 1..MaxVersion /\ v \in Nat /\ v + 1 > v
  BY <1>1, RoomAssumption DEF Changed, RoomInv, BesideRoom, RoomRows
<1>3. PICK x : x = [v |-> v + 1, deleted |-> gone]
  OBVIOUS
<1>4. x \in RoomRows /\ x.v = v + 1 /\ x.deleted = gone /\ row' = [row EXCEPT ![m] = x]
  BY <1>1, <1>2, <1>3 DEF RoomRows, Changed
<1>5. PICK e : e = EventOf(m, v + 1, gone)
  OBVIOUS
<1>6. broadcasts' = broadcasts \cup {e} /\ e.m = m /\ e.v = v + 1 /\ e.deleted = gone /\ e \in RoomEvents
  BY <1>1, <1>2, <1>5 DEF Changed, EventOf, RoomEvents
<1>7. /\ row' \in [RoomMessages -> RoomRows] /\ row'[m] = x
      /\ \A n \in RoomMessages \ {m} : row'[n] = row[n]
      /\ \A n \in RoomMessages : row[n].v \in Nat
  BY <1>4, RoomAssumption DEF RoomInv, BesideRoom, RoomRows
<1>8. BesideRoom'
  <2>1. roomChanges' \in 0..MaxRoomChanges
    BY RoomAssumption DEF Changed, RoomInv, BesideRoom
  <2> QED
    BY <1>7, <2>1 DEF RoomInv, BesideRoom, net
<1>9. NetOK'
  BY <1>6 DEF RoomInv, NetOK, net
<1>10. OnTheWay' = OnTheWay \cup {e}
  BY <1>6 DEF OnTheWay, QueueOf, net
<1>11. ASSUME NEW n \in RoomMessages, NEW w \in Nat, NEW d \in BOOLEAN, Tells(n, w, d) PROVE Tells(n, w, d)'
  BY <1>1, <1>2, <1>4, <1>7, <1>11 DEF Tells
<1>12. Tells(m, v + 1, gone)'
  BY <1>2, <1>4, <1>7 DEF Tells
<1>13. EventsOK'
  <2>1. \A d \in OnTheWay : d \in RoomEvents /\ Tells(d.m, d.v, d.deleted)'
    BY <1>11, RoomAssumption DEF RoomInv, EventsOK, RoomEvents
  <2> QED
    BY <1>6, <1>10, <1>12, <2>1 DEF EventsOK
<1>14. ToldAll'
  <2>1. ASSUME NEW n \in RoomMessages
        PROVE  \/ row'[n].v = 1 \/ heard[n] >= row'[n].v
               \/ \E d \in OnTheWay' : d.m = n /\ d.v = row'[n].v
    BY <1>4, <1>6, <1>7, <1>10 DEF RoomInv, ToldAll
  <2> QED
    BY <2>1 DEF ToldAll
<1>15. ASSUME NEW n \in RoomMessages, NEW y, EntryOK(n, y) PROVE EntryOK(n, y)'
  <2>1. y.v \in Nat
    BY <1>15, RoomAssumption DEF EntryOK, Entries
  <2> QED
    BY <1>1, <1>2, <1>4, <1>7, <1>15, <2>1 DEF EntryOK
<1>16. ASSUME NEW page, PageOK(page) PROVE PageOK(page)'
  BY <1>15, <1>16 DEF PageOK
<1>17. ViewOK'
  <2>1. ASSUME NEW n \in RoomMessages
        PROVE  shown[n] <= row'[n].v /\ (shown[n] = row'[n].v => Right(n)')
    <3>1. shown[n] <= row[n].v /\ shown[n] \in Nat /\ (shown[n] = row[n].v => Right(n))
      BY RoomAssumption DEF RoomInv, ViewOK
    <3> QED
      BY <1>1, <1>2, <1>4, <1>7, <3>1 DEF Right
  <2> QED
    BY <2>1 DEF RoomInv, ViewOK
<1>18. PagesOK'
  <2>1. PICK a : a = answer'
    OBVIOUS
  <2>2. a # NoPage =>
          /\ a.m \in RoomMessages /\ a.v \in 1..MaxVersion /\ a.deleted \in BOOLEAN
          /\ Tells(a.m, a.v, a.deleted)'
          /\ a.page # NoPage => PageOK(a.page)'
    <3>1. CASE a = answer
      BY <1>11, <1>16, <3>1, RoomAssumption DEF RoomInv, PagesOK
    <3>2. CASE a = [m |-> m, v |-> v + 1, deleted |-> gone, page |-> cached]
      <4>1. a.m = m /\ a.v = v + 1 /\ a.deleted = gone /\ a.page = cached
        BY <3>2
      <4> QED
        BY <1>2, <1>12, <1>16, <4>1 DEF RoomInv, PagesOK
    <3> QED
      BY <1>1, <2>1, <3>1, <3>2
  <2>3. /\ loads # NoPage => PageOK(loads.page)' /\ loads.save \in BOOLEAN
        /\ older # NoPage => PageOK(older)'
        /\ cached # NoPage => PageOK(cached)'
    BY <1>16 DEF RoomInv, PagesOK
  <2> QED
    BY <2>1, <2>2, <2>3 DEF PagesOK
<1> QED
  BY <1>8, <1>9, <1>13, <1>14, <1>17, <1>18 DEF RoomInv

LEMMA RoomInvStep == RoomInv /\ [RoomNext]_roomVars => RoomInv'
<1> SUFFICES ASSUME RoomInv, [RoomNext]_roomVars PROVE RoomInv'
  OBVIOUS
<1>1. CASE UNCHANGED roomVars
  <2>1. NetOK' /\ Carried
    BY <1>1, UnheardIsCarried DEF RoomInv, NetOK, QueueOf, net, roomVars
  <2>2. BesideRoom' /\ ViewOK' /\ PagesOK'
    BY <1>1, PagesStay DEF RoomInv, BesideRoom, ViewOK, Right, PagesOK, roomVars, roomState, net
  <2> QED
    BY <2>1, <2>2, CarriedTells DEF RoomInv
<1>2. CASE OthersChange
  <2>1. PICK m \in RoomMessages, gone \in BOOLEAN : Changed(m, gone)
    BY <1>2 DEF OthersChange
  <2> QED
    BY <1>2, <2>1, ChangeKeeps DEF OthersChange, roomState
<1>3. CASE OwnRequest
  <2>1. PICK m \in RoomMessages, gone \in BOOLEAN :
           /\ Changed(m, gone)
           /\ answer' = [m |-> m, v |-> row[m].v + 1, deleted |-> gone, page |-> cached]
    BY <1>3 DEF OwnRequest
  <2> QED
    BY <1>3, <2>1, ChangeKeeps DEF OwnRequest
<1>4. CASE LoadMessages \/ LoadOlder \/ OlderFails \/ Resume
  BY <1>4, LoadKeeps
<1>5. CASE Broadcast \/ UpsertLocal \/ ApplyPage \/ MergeOlder \/ SuspendRealtime
  BY <1>5, BroadcastKeeps, UpsertLocalKeeps, ApplyPageKeeps, MergeOlderKeeps, SuspendKeeps
<1>6. ASSUME NEW s \in Sockets, SocketStep(s) PROVE RoomInv'
  BY <1>6, SocketStepKeeps
<1> QED
  BY <1>1, <1>2, <1>3, <1>4, <1>5, <1>6 DEF RoomNext

(* Whatever pages, events and answers arrive, in which order and on which  *)
(* sockets: what the room shows of a message is what the server has,       *)
(* unless an event of it is on its way, was lost, or was overtaken by an   *)
(* older page.                                                             *)
THEOREM RoomStaysTrue == RoomSpec => [](RoomTypeOK /\ RoomIsTrue)
<1>1. RoomInv => RoomTypeOK
  BY DEF RoomInv, BesideRoom, RoomRows, NetOK, ViewOK, Entries, RoomTypeOK
<1>2. RoomInv => RoomIsTrue
  <2> SUFFICES ASSUME RoomInv, NEW m \in RoomMessages, ~Pending(m), shown[m] >= heard[m], shown[m] > 0
               PROVE  Right(m)
    BY DEF RoomIsTrue
  <2>1. shown[m] \in Nat /\ heard[m] \in Nat /\ row[m].v \in Nat /\ shown[m] <= row[m].v
    BY RoomAssumption DEF RoomInv, ViewOK, NetOK, BesideRoom, RoomRows
  <2>2. \A e \in OnTheWay : e.m # m
    BY DEF OnTheWay, Pending
  <2>3. row[m].v = 1 \/ heard[m] >= row[m].v
    BY <2>2 DEF RoomInv, ToldAll
  <2>4. shown[m] = row[m].v
    BY <2>1, <2>3
  <2> QED
    BY <2>4 DEF RoomInv, ViewOK
<1> QED
  BY <1>1, <1>2, RoomStarts, RoomInvStep, PTL DEF RoomSpec

-----------------------------------------------------------------------------
(* The outbox and the chat room of a device at any time: a text the server *)
(* has not taken stays listed and is tried on, and what a room shows of a  *)
(* message is true of it, whatever arrives late, twice or not at all.      *)
THEOREM DeviceStaysRight == OutboxSpec /\ RoomSpec => []DeviceIsRight
BY OutboxKeepsItems, RoomStaysTrue, PTL DEF DeviceIsRight
=============================================================================
