------------------------------- MODULE Sessions -------------------------------
(***************************************************************************)
(* The login sessions of one account in one zone (modules/auth), with what *)
(* other modules do to the account under them: users change its status,    *)
(* workspaces its membership, tenancy suspends or archives the zone, a     *)
(* cron job deletes dead sessions.                                         *)
(*                                                                         *)
(* A request is a chain of statements, each committed on its own: what it  *)
(* read (the session row, the zone, the account) may have changed before   *)
(* the statement that hands out a token.  The rotation of a refresh names  *)
(* the session, not the token it was asked with, so two refreshes with one *)
(* token may both be answered.                                             *)
(***************************************************************************)
EXTENDS Integers

CONSTANTS
    Requests,      \* handlers that may run at the same time
    Sids,          \* bound: rows of user_sessions
    MaxTokens,     \* bound: refresh tokens ever made
    MaxChanges     \* bound: administrative changes

ASSUME BoundAssumption == Sids \subseteq Nat \ {0} /\ MaxTokens \in Nat /\ MaxChanges \in Nat

VARIABLES
    sess,         \* user_sessions: state, current token (its hash), past expires_at
    issued,       \* tokens made; token n is the n-th
    user,         \* users.status
    member,       \* workspace_members.status of the account
    zone, mode,   \* zones.status, zones.registration_mode
    pc, req,      \* per request: next statement, and what it read
    since,        \* history, per request: what held at some time since it began
    quit,         \* history: sessions a logout has ended
    changes

rows  == <<sess, issued>>
world == <<user, member, zone, mode>>
vars  == <<rows, world, pc, req, since, quit, changes>>

Blank   == [op |-> "none", tok |-> 0, sid |-> 0, zone |-> "none", mode |-> "none"]
NoSess  == [st |-> "none", tok |-> 0, expired |-> FALSE]

TypeOK ==
    /\ sess \in [Sids -> [st : {"none", "live", "revoked"}, tok : 0..MaxTokens,
                          expired : BOOLEAN]]
    /\ issued \in 0..MaxTokens
    /\ user \in {"active", "locked", "disabled"}
    /\ member \in {"none", "active", "left", "disabled"}
    /\ zone \in {"active", "suspended", "archived"}
    /\ mode \in {"open", "closed"}
    /\ pc \in [Requests -> {"idle", "resolve", "user", "access", "grant", "revoke"}]
    /\ since \in [Requests -> SUBSET {"user", "member", "zone", "rotated"}]
    /\ quit \subseteq Sids
    /\ changes \in 0..MaxChanges

Init ==
    /\ sess = [s \in Sids |-> NoSess] /\ issued = 0
    /\ user = "active" /\ member \in {"none", "active"}
    /\ zone = "active" /\ mode \in {"open", "closed"}
    /\ pc = [p \in Requests |-> "idle"] /\ req = [p \in Requests |-> Blank]
    /\ since = [p \in Requests |-> {}] /\ quit = {} /\ changes = 0

-----------------------------------------------------------------------------
(* Statements on user_sessions.                                            *)

(* FindSessionByRefreshTokenHash: the row that holds this token now.       *)
FindByToken(t) == {s \in Sids : sess[s].st # "none" /\ sess[s].tok = t}

(* Session.Active.                                                         *)
Active(s) == sess[s].st = "live" /\ ~sess[s].expired

FreeSids == {s \in Sids : sess[s].st = "none"}

(* CreateSession: one more row, with a token never used before.            *)
CreateSession ==
    /\ issued < MaxTokens /\ FreeSids # {}
    /\ sess' = [sess EXCEPT ![CHOOSE s \in FreeSids : TRUE] =
                    [st |-> "live", tok |-> issued + 1, expired |-> FALSE]]
    /\ issued' = issued + 1

(* Mutant: the rotation does not ask for revoked_at IS NULL.               *)
RotatableAnyway(s) == sess[s].st # "none"

(* The condition of RotateSessionRefreshToken.                             *)
Rotatable(s) == sess[s].st = "live"

(* RotateSessionRefreshToken: a new token for the row; without a row no    *)
(* token leaves the server.                                                *)
Rotate(s) ==
    IF Rotatable(s)
    THEN /\ issued < MaxTokens
         /\ sess' = [sess EXCEPT ![s] = [st |-> "live", tok |-> issued + 1,
                                         expired |-> FALSE]]
         /\ issued' = issued + 1
    ELSE UNCHANGED rows

(* UPDATE user_sessions SET revoked_at on the rows of S that have none.    *)
Revoke(S) ==
    sess' = [s \in Sids |-> IF s \in S /\ sess[s].st = "live"
                            THEN [sess[s] EXCEPT !.st = "revoked"] ELSE sess[s]]

-----------------------------------------------------------------------------
(* The access of the account to the workspace of the zone.                 *)

(* resolveZoneAccessByDomain.                                              *)
Resolvable == zone \in {"active", "suspended"}

(* ensureZoneWorkspaceAccess: validateZoneTarget, then the membership; an  *)
(* account without one joins on its own when the zone was active and open  *)
(* at the time the request resolved it.                                    *)
Joins(r)    == member = "none" /\ r.zone = "active" /\ r.mode = "open"
Admitted(r) == Resolvable /\ (member = "active" \/ Joins(r))

-----------------------------------------------------------------------------
(* Requests.                                                               *)

GoTo(p, step, r) == pc' = [pc EXCEPT ![p] = step] /\ req' = [req EXCEPT ![p] = r]
Finish(p)        == GoTo(p, "idle", Blank)

(* Service.Login: resolve the zone of the domain.                          *)
Login(p) ==
    /\ pc[p] = "idle" /\ Resolvable /\ issued < MaxTokens /\ FreeSids # {}
    /\ GoTo(p, "user", [op |-> "login", tok |-> 0, sid |-> 0, zone |-> zone, mode |-> mode])
    /\ UNCHANGED <<rows, world, quit, changes>>

(* Service.Refresh, with any token a client may hold: the session that has *)
(* it must be there, unrevoked and unexpired.                              *)
Refresh(p) ==
    /\ pc[p] = "idle"
    /\ \E t \in 1..issued : \E s \in FindByToken(t) :
          /\ Active(s)
          /\ GoTo(p, "resolve", [Blank EXCEPT !.op = "refresh", !.tok = t, !.sid = s])
    /\ UNCHANGED <<rows, world, quit, changes>>

(* Service.Refresh: the zone of the session's domain.                      *)
RefreshResolve(p) ==
    /\ pc[p] = "resolve"
    /\ IF Resolvable
       THEN GoTo(p, "user", [req[p] EXCEPT !.zone = zone, !.mode = mode])
       ELSE Finish(p)
    /\ UNCHANGED <<rows, world, quit, changes>>

(* Mutant: the status of the account is not looked at.                     *)
CheckUserNot(p) ==
    /\ pc[p] = "user" /\ GoTo(p, "access", req[p])
    /\ UNCHANGED <<rows, world, quit, changes>>

(* Login, Refresh: the account must be active.                             *)
CheckUser(p) ==
    /\ pc[p] = "user"
    /\ IF user = "active" THEN GoTo(p, "access", req[p]) ELSE Finish(p)
    /\ UNCHANGED <<rows, world, quit, changes>>

(* Login, Refresh: EnsureZoneWorkspaceAccess, one transaction.             *)
EnsureAccess(p) ==
    /\ pc[p] = "access"
    /\ IF Admitted(req[p])
       THEN GoTo(p, "grant", req[p]) /\ member' = "active"
       ELSE Finish(p) /\ UNCHANGED member
    /\ UNCHANGED <<rows, user, zone, mode, quit, changes>>

(* issueTokens after a login, the rotation after a refresh; the answer.    *)
Grant(p) ==
    /\ pc[p] = "grant" /\ Finish(p)
    /\ IF req[p].op = "login" THEN CreateSession ELSE Rotate(req[p].sid)
    /\ UNCHANGED <<world, quit, changes>>

(* Service.Logout: the session is looked up for the audit entry only.      *)
Logout(p) ==
    /\ pc[p] = "idle"
    /\ \E t \in 1..issued : \E s \in FindByToken(t) :
          GoTo(p, "revoke", [Blank EXCEPT !.op = "logout", !.tok = t, !.sid = s])
    /\ UNCHANGED <<rows, world, quit, changes>>

(* Mutant: the logout revokes nothing.                                     *)
LogoutLeavesSession(p) ==
    /\ pc[p] = "revoke" /\ Finish(p)
    /\ quit' = quit \cup (IF "rotated" \in since[p] THEN {} ELSE {req[p].sid})
    /\ UNCHANGED <<rows, world, changes>>

(* RevokeSessionByRefreshTokenHash; no row matched is success as well.     *)
LogoutRevoke(p) ==
    /\ pc[p] = "revoke" /\ Finish(p)
    /\ Revoke(FindByToken(req[p].tok))
    /\ quit' = quit \cup (IF "rotated" \in since[p] THEN {} ELSE {req[p].sid})
    /\ UNCHANGED <<issued, world, changes>>

(* Service.RevokeSession of one session, RevokeAllSessions of the zone.    *)
RevokeSession(s) ==
    /\ changes < MaxChanges /\ sess[s].st = "live"
    /\ Revoke({s}) /\ changes' = changes + 1
    /\ UNCHANGED <<issued, world, pc, req, quit>>

RevokeAllSessions ==
    /\ changes < MaxChanges /\ \E s \in Sids : sess[s].st = "live"
    /\ Revoke(Sids) /\ changes' = changes + 1
    /\ UNCHANGED <<issued, world, pc, req, quit>>

-----------------------------------------------------------------------------
(* What other modules do to the account, the membership and the zone.      *)

(* users: Service.Update sets a status, Service.Delete disables; the       *)
(* sessions stay.                                                          *)
SetUserStatus ==
    /\ changes < MaxChanges /\ changes' = changes + 1
    /\ user' \in {"active", "locked", "disabled"} \ {user}
    /\ UNCHANGED <<rows, member, zone, mode, pc, req, quit>>

(* workspaces: UpdateMemberStatus of a member, AddMember of anyone.        *)
SetMemberStatus ==
    /\ changes < MaxChanges /\ changes' = changes + 1
    /\ member # "none" /\ member' \in {"active", "left", "disabled"} \ {member}
    /\ UNCHANGED <<rows, user, zone, mode, pc, req, quit>>

AddMember ==
    /\ changes < MaxChanges /\ changes' = changes + 1
    /\ member # "active" /\ member' = "active"
    /\ UNCHANGED <<rows, user, zone, mode, pc, req, quit>>

(* tenancy: SetZoneLifecycle revokes every session when the status moves.  *)
SetZoneLifecycle ==
    /\ changes < MaxChanges /\ changes' = changes + 1
    /\ \/ zone = "active" /\ zone' = "suspended"
       \/ zone = "suspended" /\ zone' = "active"
       \/ zone # "archived" /\ zone' = "archived"
    /\ Revoke(Sids)
    /\ UNCHANGED <<issued, user, member, mode, pc, req, quit>>

(* tenancy: the settings of the zone.                                      *)
SetRegistrationMode ==
    /\ changes < MaxChanges /\ changes' = changes + 1
    /\ zone # "archived" /\ mode' \in {"open", "closed"} \ {mode}
    /\ UNCHANGED <<rows, user, member, zone, pc, req, quit>>

(* cronjobs: CleanupExpiredSessions; the retention time, longer than any   *)
(* request, is left out but for that.                                      *)
CleanupExpiredSessions ==
    /\ \E s \in Sids :
          /\ sess[s].st = "revoked" \/ (sess[s].st = "live" /\ sess[s].expired)
          /\ \A p \in Requests : req[p].sid # s
          /\ sess' = [sess EXCEPT ![s] = NoSess]
          /\ quit' = quit \ {s}
    /\ UNCHANGED <<issued, world, pc, req, changes>>

SessionExpires(s) ==
    /\ sess[s].st = "live" /\ ~sess[s].expired
    /\ sess' = [sess EXCEPT ![s].expired = TRUE]
    /\ UNCHANGED <<issued, world, pc, req, quit, changes>>

-----------------------------------------------------------------------------
(* What a request could see, at one time or another, while it ran.         *)
Facts(p) ==
    {f \in {"user", "member", "zone", "rotated"} :
        \/ f = "user" /\ user' = "active"
        \/ f = "member" /\ member' = "active"
        \/ f = "zone" /\ zone' \in {"active", "suspended"}
        \/ f = "rotated" /\ req[p].sid # 0 /\ sess'[req[p].sid].tok # req[p].tok}

Observe ==
    since' = [p \in Requests |-> IF pc'[p] = "idle" THEN {} ELSE since[p] \cup Facts(p)]

RequestStep(p) ==
    \/ Login(p) \/ Refresh(p) \/ RefreshResolve(p) \/ CheckUser(p) \/ EnsureAccess(p)
    \/ Grant(p) \/ Logout(p) \/ LogoutRevoke(p)

AdminStep ==
    \/ RevokeAllSessions \/ SetUserStatus \/ SetMemberStatus \/ AddMember
    \/ SetZoneLifecycle \/ SetRegistrationMode \/ CleanupExpiredSessions

Next ==
    /\ \/ \E p \in Requests : RequestStep(p)
       \/ \E s \in Sids : RevokeSession(s) \/ SessionExpires(s)
       \/ AdminStep
    /\ Observe

Spec == Init /\ [][Next]_vars

-----------------------------------------------------------------------------
(* A session that was revoked, by its owner, by a logout or because the    *)
(* zone changed its status, stays revoked: no refresh that had read it as  *)
(* live brings it back or gets a token from it.  Only the clean-up removes *)
(* the row.                                                                *)
RevocationIsFinal ==
    [][\A s \in Sids : sess[s].st = "revoked" =>
           sess'[s] = sess[s] \/ sess'[s].st = "none"]_vars

(* After a logout the session it was called for is over, unless a refresh  *)
(* rotated the token between the two statements of the logout; and the     *)
(* rows are well formed: one session per token.                            *)
LoggedOutStaysOut ==
    /\ TypeOK
    /\ \A s \in quit : sess[s].st # "live"
    /\ \A s, t \in Sids : s # t /\ sess[s].st # "none" => sess[s].tok # sess[t].tok

(* A token is handed out only if, while the request ran, the account was   *)
(* active, it was a member and its zone was reachable, each at some time:  *)
(* an account locked before a refresh begins gets nothing from it.         *)
GrantsWereAllowed ==
    [][issued' > issued =>
           \E p \in Requests : pc[p] = "grant" /\ pc'[p] = "idle"
                               /\ {"user", "member", "zone"} \subseteq since[p]]_vars
=============================================================================
