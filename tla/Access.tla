-------------------------------- MODULE Access --------------------------------
(***************************************************************************)
(* Who gets into the primary workspace of a zone: registration, invites,   *)
(* the claim of the ownership, a login that joins on its own, Google and   *)
(* OIDC sign-in (modules/auth), with the administration of members         *)
(* (modules/workspaces), of their roles (modules/rbac), of accounts        *)
(* (modules/users) and of the zone (modules/tenancy).  A person is one     *)
(* e-mail address.                                                         *)
(*                                                                         *)
(* Every request first resolves the zone of its domain.  Registration      *)
(* locks the zone and reads it again; a login and an OIDC sign-in go on    *)
(* with what they resolved.  An OIDC authorization passes through two      *)
(* one-time rows, its state and its result; browsers may repeat a step.    *)
(***************************************************************************)
EXTENDS Integers, FiniteSets

CONSTANTS
    People,        \* e-mail addresses, at most one account each
    Requests,      \* handlers that may run at the same time
    Auths,         \* OIDC authorizations
    Kind,          \* zones.kind: customer_dedicated, vpsttt_internal, customer_shared
    MaxChanges     \* bound: administrative changes

ASSUME KindAssumption ==
    Kind \in {"customer_dedicated", "vpsttt_internal", "customer_shared"}
ASSUME ChangesAssumption == MaxChanges \in Nat

VARIABLES
    account,      \* users.status, "none" without a row
    member,       \* workspace_members.status
    roles,        \* workspace_member_roles
    inPublic,     \* channel_members.status in the public channel
    owner,        \* workspaces.owner_id
    zone, mode,   \* zones.status, registration_mode
    invite,       \* the invite of a person: none, open, accepted, expired
    provider,     \* the OIDC provider of the zone: off, on, jit
    linked,       \* zone_oidc_identities: subject -> account; a subject is a person
    auth,         \* the authorizations: subject, whether its e-mail is verified, stage
    pc, req,      \* per request: next statement, what it read
    revoked,      \* history: roles an administrator took away, until they are given again
    wasOpen,      \* history: the zone was active and open while the request ran
    logins,       \* history: sessions given for an authorization
    changes

people == <<account, member, roles, revoked, inPublic>>
space  == <<owner, zone, mode, invite, provider>>
sso    == <<linked, auth, logins>>
vars   == <<people, space, sso, pc, req, wasOpen, changes>>

Nobody == "nobody"
Roles  == {"member", "owner"}
Stages == {"none", "started", "exchange", "result", "redeemed", "over"}
Blank  == [op |-> "none", who |-> Nobody, auth |-> Nobody, zone |-> "none", mode |-> "none"]

Steps  == {"idle", "create", "status", "access", "exchange", "sso", "grant"}
InHand == [op : {"none", "register", "google", "login"}, who : People \cup {Nobody},
           auth : Auths \cup {Nobody}, zone : {"none", "active", "suspended", "archived"},
           mode : {"none", "open", "invite_only", "closed"}]

TypeOK ==
    /\ account \in [People -> {"none", "active", "locked"}]
    /\ member \in [People -> {"none", "active", "left", "disabled"}]
    /\ roles \in [People -> SUBSET Roles] /\ revoked \in [People -> SUBSET Roles]
    /\ inPublic \in [People -> {"none", "active", "left"}]
    /\ owner \in People \cup {Nobody}
    /\ zone \in {"active", "suspended", "archived"}
    /\ mode \in {"open", "invite_only", "closed"}
    /\ invite \in [People -> {"none", "open", "accepted", "expired"}]
    /\ provider \in {"off", "on", "jit"}
    /\ linked \in [People -> People \cup {Nobody}]
    /\ auth \in [Auths -> [subject : People, verified : BOOLEAN, stage : Stages]]
    /\ pc \in [Requests -> Steps] /\ req \in [Requests -> InHand]
    /\ wasOpen \in [Requests -> BOOLEAN] /\ logins \in [Auths -> Nat]
    /\ changes \in 0..MaxChanges

(* A provisioned zone: nobody owns the workspace yet.                      *)
Init ==
    /\ account \in [People -> {"none", "active"}]
    /\ member = [u \in People |-> "none"]
    /\ roles = [u \in People |-> {}] /\ revoked = [u \in People |-> {}]
    /\ inPublic = [u \in People |-> "none"] /\ owner = Nobody
    /\ zone = "active" /\ mode = "open" /\ invite = [u \in People |-> "none"]
    /\ provider \in {"off", "jit"} /\ linked = [u \in People |-> Nobody]
    /\ auth \in [Auths -> [subject : People, verified : BOOLEAN, stage : {"none"}]]
    /\ pc = [p \in Requests |-> "idle"] /\ req = [p \in Requests |-> Blank]
    /\ wasOpen = [p \in Requests |-> FALSE] /\ logins = [a \in Auths |-> 0]
    /\ changes = 0

-----------------------------------------------------------------------------
(* Operators of the repository.                                            *)

(* resolveZoneAccessByDomain; ResolveOIDCProvider.                         *)
Resolvable    == zone \in {"active", "suspended"}
ProviderReady == zone = "active" /\ provider # "off"

(* A role given is no longer one that was taken.                           *)
Give(u, given) ==
    /\ roles' = [roles EXCEPT ![u] = @ \cup given]
    /\ revoked' = [revoked EXCEPT ![u] = @ \ given]

(* Mutant: an account joins with the roles it was asked to have, or none.  *)
AsAsked(u, extra) == extra

(* repairWorkspaceAccess: the member role for an account without a role,   *)
(* and the public channels it never was in.                                *)
Baseline(u, extra) == IF roles[u] \cup extra = {} THEN {"member"} ELSE extra

Repair(u, extra) ==
    /\ Give(u, Baseline(u, extra))
    /\ inPublic' = [inPublic EXCEPT ![u] = IF @ = "none" THEN "active" ELSE @]

(* Mutant: the upsert takes back a disabled member.                        *)
AnyoneMayJoin(u) == TRUE

(* The WHERE of the upsert in addWorkspaceMembership.                      *)
MayJoin(u) == member[u] # "disabled"

(* addWorkspaceMembership, with the roles the caller adds.                 *)
AddMembership(u, extra) ==
    /\ MayJoin(u)
    /\ member' = [member EXCEPT ![u] = "active"]
    /\ Repair(u, extra)

(* Mutant: registration goes by the mode it resolved before the lock.      *)
StaleMode(r) == r.mode

(* lockRegistrationTarget: the mode is read again under the zone's lock.   *)
CurrentMode(r) == IF zone = "active" THEN mode ELSE "closed"

(* provisionRegistrationAccess: open, or an open invite for the address.   *)
Welcome(r) == \/ CurrentMode(r) = "open"
              \/ CurrentMode(r) = "invite_only" /\ invite[r.who] = "open"

(* claimInitialWorkspaceOwnership: the first account of a zone of its own. *)
Claims == owner = Nobody /\ Kind \in {"vpsttt_internal", "customer_dedicated"}

(* CreateUser: the account, its membership, the claim, which closes a      *)
(* dedicated zone, and the invite, in one transaction.                     *)
CreateUser(r) ==
    /\ account' = [account EXCEPT ![r.who] = "active"]
    /\ AddMembership(r.who, IF Claims THEN {"member", "owner"} ELSE {"member"})
    /\ owner' = IF Claims THEN r.who ELSE owner
    /\ mode' = IF Claims /\ Kind = "customer_dedicated" /\ mode = "open"
               THEN "invite_only" ELSE mode
    /\ invite' = IF CurrentMode(r) = "invite_only"
                 THEN [invite EXCEPT ![r.who] = "accepted"] ELSE invite

(* ensureZoneWorkspaceAccess: an account without membership joins when the *)
(* zone was active and open when the request resolved it.                  *)
Joins(r) == member[r.who] = "none" /\ r.zone = "active" /\ r.mode = "open"

-----------------------------------------------------------------------------
(* Requests with a password or a Google credential.                        *)

GoTo(p, step, r) == pc' = [pc EXCEPT ![p] = step] /\ req' = [req EXCEPT ![p] = r]
Finish(p)        == GoTo(p, "idle", Blank)
Request(kind, u) == [Blank EXCEPT !.op = kind, !.who = u, !.zone = zone, !.mode = mode]

(* Service.Register.                                                       *)
Register(p) ==
    /\ pc[p] = "idle" /\ zone = "active"
    /\ \E u \in People : GoTo(p, "create", Request("register", u))
    /\ UNCHANGED <<people, space, sso, changes>>

(* Service.LoginWithGoogle: an unknown address of an active zone registers.*)
LoginWithGoogle(p) ==
    /\ pc[p] = "idle" /\ Resolvable
    /\ \E u \in People :
          IF account[u] = "none"
          THEN zone = "active" /\ GoTo(p, "create", Request("google", u))
          ELSE GoTo(p, "status", Request("google", u))
    /\ UNCHANGED <<people, space, sso, changes>>

(* Service.Login.                                                          *)
Login(p) ==
    /\ pc[p] = "idle" /\ Resolvable
    /\ \E u \in People : account[u] # "none" /\ GoTo(p, "status", Request("login", u))
    /\ UNCHANGED <<people, space, sso, changes>>

(* Register, LoginWithGoogle: CreateUser; the address is unique.           *)
Create(p) ==
    LET r == req[p] IN
    /\ pc[p] = "create"
    /\ \/ /\ account[r.who] = "none" /\ Welcome(r) /\ CreateUser(r)
          /\ IF r.op = "google" THEN GoTo(p, "status", r) ELSE Finish(p)
          /\ UNCHANGED <<zone, provider>>
       \/ /\ account[r.who] = "none" /\ ~Welcome(r)
          /\ Finish(p) /\ UNCHANGED <<people, space>>
       \/ /\ account[r.who] # "none"
          /\ IF r.op = "google" THEN GoTo(p, "status", r) ELSE Finish(p)
          /\ UNCHANGED <<people, space>>
    /\ UNCHANGED <<sso, changes>>

CheckStatus(p) ==
    /\ pc[p] = "status"
    /\ IF account[req[p].who] = "active" THEN GoTo(p, "access", req[p]) ELSE Finish(p)
    /\ UNCHANGED <<people, space, sso, changes>>

(* Login, LoginWithGoogle, Refresh, Me: EnsureZoneWorkspaceAccess.         *)
EnsureAccess(p) ==
    LET r == req[p] IN
    /\ pc[p] = "access" /\ Finish(p)
    /\ \/ /\ Resolvable /\ member[r.who] = "active"
          /\ Repair(r.who, {}) /\ UNCHANGED member
       \/ Resolvable /\ Joins(r) /\ AddMembership(r.who, {})
       \/ /\ ~Resolvable \/ (member[r.who] # "active" /\ ~Joins(r))
          /\ UNCHANGED <<member, roles, revoked, inPublic>>
    /\ UNCHANGED <<account, space, sso, changes>>

-----------------------------------------------------------------------------
(* OIDC: start, callback, complete.                                        *)

SetStage(a, s) == auth' = [auth EXCEPT ![a].stage = s]

(* OIDCService.Start with CreateOIDCLoginState.                            *)
Start(a) ==
    /\ auth[a].stage = "none" /\ ProviderReady /\ SetStage(a, "started")
    /\ UNCHANGED <<people, space, linked, logins, pc, req, changes>>

(* ConsumeOIDCLoginState, ConsumeOIDCLoginResult: the row is spent by one  *)
(* conditional UPDATE, whatever becomes of the request.                    *)
Consume(a, s) == SetStage(a, s)

(* OIDCService.Callback: the state, then the provider.                     *)
Callback(p, a) ==
    /\ pc[p] = "idle" /\ auth[a].stage = "started"
    /\ Consume(a, "exchange")
    /\ IF ProviderReady
       THEN GoTo(p, "exchange", [Blank EXCEPT !.auth = a, !.who = auth[a].subject])
       ELSE UNCHANGED <<pc, req>>
    /\ UNCHANGED <<people, space, linked, logins, changes>>

(* OIDCService.Callback: the exchange, which may fail or bring claims that *)
(* are refused, then CreateOIDCLoginResult.                                *)
Exchange(p) ==
    /\ pc[p] = "exchange" /\ Finish(p)
    /\ \E outcome \in {"result", "over"} : SetStage(req[p].auth, outcome)
    /\ UNCHANGED <<people, space, linked, logins, changes>>

(* Mutant: two completions with one code.                                  *)
CompleteTwice(p, a) ==
    /\ pc[p] = "idle" /\ auth[a].stage = "result"
    /\ IF ProviderReady
       THEN GoTo(p, "sso", [Blank EXCEPT !.auth = a, !.who = auth[a].subject])
       ELSE UNCHANGED <<pc, req>>
    /\ UNCHANGED <<people, space, sso, changes>>

(* OIDCService.Complete: the result, then the provider.                    *)
Complete(p, a) ==
    /\ pc[p] = "idle" /\ auth[a].stage = "result"
    /\ Consume(a, "redeemed")
    /\ IF ProviderReady
       THEN GoTo(p, "sso", [Blank EXCEPT !.auth = a, !.who = auth[a].subject])
       ELSE UNCHANGED <<pc, req>>
    /\ UNCHANGED <<people, space, linked, logins, changes>>

(* Mutant: an address is matched without being verified.                   *)
MatchesAnyAddress(a) == account[auth[a].subject] # "none"

(* ResolveOIDCUser: only a verified address finds an account.              *)
MatchesAccount(a) == auth[a].verified /\ account[auth[a].subject] # "none"

(* ResolveOIDCUser: by identity, which needs an active membership; else by *)
(* a verified address; else a new account, with just-in-time provisioning, *)
(* if the address is free.  A new identity must be the first of its        *)
(* subject.                                                                *)
ResolveUser(p) ==
    LET a == req[p].auth
        u == req[p].who
        known   == linked[u] # Nobody /\ member[linked[u]] = "active"
        byEmail == /\ linked[u] = Nobody /\ MatchesAccount(a) /\ account[u] = "active"
                   /\ (member[u] = "active" \/ (provider = "jit" /\ MayJoin(u)))
        created == linked[u] = Nobody /\ account[u] = "none" /\ provider = "jit"
    IN  /\ pc[p] = "sso"
        /\ \/ /\ Resolvable /\ provider # "off" /\ known
              /\ GoTo(p, "grant", req[p]) /\ UNCHANGED <<people, linked>>
           \/ /\ Resolvable /\ provider # "off" /\ (byEmail \/ created)
              /\ account' = [account EXCEPT ![u] = "active"]
              /\ AddMembership(u, {})
              /\ linked' = [linked EXCEPT ![u] = u]
              /\ GoTo(p, "grant", req[p])
           \/ /\ ~Resolvable \/ provider = "off" \/ ~(known \/ byEmail \/ created)
              /\ Finish(p) /\ UNCHANGED <<people, linked>>
        /\ UNCHANGED <<space, auth, logins, changes>>

(* Complete: the account must be active, then issueTokens.                 *)
GrantSso(p) ==
    /\ pc[p] = "grant" /\ Finish(p)
    /\ logins' = IF account[linked[req[p].who]] = "active"
                 THEN [logins EXCEPT ![req[p].auth] = @ + 1] ELSE logins
    /\ UNCHANGED <<people, space, linked, auth, changes>>

(* The rows run out on their own.                                          *)
AuthExpires(a) ==
    /\ auth[a].stage \in {"started", "result"} /\ SetStage(a, "over")
    /\ UNCHANGED <<people, space, linked, logins, pc, req, changes>>

-----------------------------------------------------------------------------
(* Administration.                                                         *)

Change == changes < MaxChanges /\ changes' = changes + 1

(* workspaces: CreateInvite; the latest one of an address is kept.         *)
CreateInvite(u) ==
    /\ Change /\ invite' = [invite EXCEPT ![u] = "open"]
    /\ UNCHANGED <<people, owner, zone, mode, provider, sso, pc, req>>

InviteExpires(u) ==
    /\ Change /\ invite[u] = "open" /\ invite' = [invite EXCEPT ![u] = "expired"]
    /\ UNCHANGED <<people, owner, zone, mode, provider, sso, pc, req>>

(* workspaces: AddMember with any role, from any status, back into the     *)
(* public channels.                                                        *)
AddMember(u) ==
    /\ Change /\ account[u] # "none"
    /\ member' = [member EXCEPT ![u] = "active"]
    /\ \E r \in Roles : Give(u, {r})
    /\ inPublic' = [inPublic EXCEPT ![u] = "active"]
    /\ UNCHANGED <<account, space, sso, pc, req>>

(* workspaces: UpdateMemberStatus; roles and channels stay.                *)
UpdateMemberStatus(u) ==
    /\ Change /\ member[u] # "none"
    /\ \E s \in {"active", "disabled", "left"} \ {member[u]} :
          member' = [member EXCEPT ![u] = s]
    /\ UNCHANGED <<account, roles, revoked, inPublic, space, sso, pc, req>>

(* channels: an active member opens a direct conversation with an accepted *)
(* contact: whoever left the workspace, or was disabled in it, is a member *)
(* again.                                                                  *)
OpenDirect(u) ==
    /\ Change /\ account[u] = "active" /\ member[u] # "none"
    /\ \E actor \in People \ {u} : account[actor] = "active" /\ member[actor] = "active"
    /\ member' = [member EXCEPT ![u] = "active"]
    /\ Give(u, {"member"})
    /\ UNCHANGED <<account, inPublic, space, sso, pc, req>>

(* rbac: AssignWorkspaceRole, to an active member.                         *)
AssignWorkspaceRole(u) ==
    /\ Change /\ member[u] = "active"
    /\ \E r \in Roles \ roles[u] : Give(u, {r})
    /\ UNCHANGED <<account, member, inPublic, space, sso, pc, req>>

(* rbac: RevokeWorkspaceRole deletes the row, whoever's it is: the owner's *)
(* role of the owner, and the last role of a member.                       *)
RevokeWorkspaceRole(u) ==
    /\ Change
    /\ \E r \in roles[u] : /\ roles' = [roles EXCEPT ![u] = @ \ {r}]
                           /\ revoked' = [revoked EXCEPT ![u] = @ \cup {r}]
    /\ UNCHANGED <<account, member, inPublic, space, sso, pc, req>>

(* users: Update with a status.                                            *)
UpdateUser(u) ==
    /\ Change /\ member[u] # "none"
    /\ account' = [account EXCEPT ![u] = IF @ = "active" THEN "locked" ELSE "active"]
    /\ UNCHANGED <<member, roles, revoked, inPublic, space, sso, pc, req>>

(* tenancy: UpdateZoneSettings, SetZoneLifecycle, the OIDC provider.       *)
UpdateZoneSettings ==
    /\ Change /\ zone # "archived"
    /\ mode' \in {"open", "invite_only", "closed"} \ {mode}
    /\ UNCHANGED <<people, owner, zone, invite, provider, sso, pc, req>>

SetZoneLifecycle ==
    /\ Change /\ Kind # "vpsttt_internal"
    /\ \/ zone = "active" /\ zone' = "suspended"
       \/ zone = "suspended" /\ zone' = "active"
       \/ zone # "archived" /\ zone' = "archived"
    /\ UNCHANGED <<people, owner, mode, invite, provider, sso, pc, req>>

UpdateProvider ==
    /\ Change /\ provider' \in {"off", "on", "jit"} \ {provider}
    /\ UNCHANGED <<people, owner, zone, mode, invite, sso, pc, req>>

-----------------------------------------------------------------------------
Offered == zone' = "active" /\ mode' = "open"

Observe ==
    wasOpen' = [p \in Requests |-> pc'[p] # "idle" /\ (wasOpen[p] \/ Offered)]

RequestStep(p) ==
    \/ Register(p) \/ LoginWithGoogle(p) \/ Login(p) \/ Create(p) \/ CheckStatus(p)
    \/ EnsureAccess(p) \/ Exchange(p) \/ ResolveUser(p) \/ GrantSso(p)

AuthStep(a) ==
    Start(a) \/ AuthExpires(a) \/ \E p \in Requests : Callback(p, a) \/ Complete(p, a)

AdminStep ==
    \/ UpdateZoneSettings \/ SetZoneLifecycle \/ UpdateProvider
    \/ \E u \in People : \/ CreateInvite(u) \/ InviteExpires(u) \/ AddMember(u)
                         \/ UpdateMemberStatus(u) \/ UpdateUser(u) \/ OpenDirect(u)
                         \/ AssignWorkspaceRole(u) \/ RevokeWorkspaceRole(u)

Next ==
    /\ \/ \E p \in Requests : RequestStep(p)
       \/ \E a \in Auths : AuthStep(a)
       \/ AdminStep
    /\ Observe

Spec == Init /\ [][Next]_vars

-----------------------------------------------------------------------------
(* By whatever path somebody became the owner or a member, the roles came  *)
(* with it: the owner holds the owner's role and every member some role,   *)
(* unless an administrator has taken just these and nobody gave one since. *)
(* An accepted invite has its account, and an OIDC authorization gives at  *)
(* most one session, whatever the browser repeats.                         *)
AccessConsistent ==
    /\ TypeOK
    /\ owner # Nobody => "owner" \in roles[owner] \cup revoked[owner]
    /\ \A u \in People : /\ member[u] = "active" => roles[u] \cup revoked[u] # {}
                         /\ invite[u] = "accepted" => account[u] # "none"
    /\ \A a \in Auths : logins[a] <= 1

(* Nobody becomes a member on its own who was not offered it: by an open   *)
(* zone (for a login at some time while it ran, for a registration now),   *)
(* an open invite for the address, or just-in-time provisioning; and no    *)
(* request of the person brings a disabled membership back.                *)
JoinsWereOffered ==
    [][\A u \in People : \A p \in Requests :
          member[u] # "active" /\ member'[u] = "active" /\ pc[p] # pc'[p] =>
             /\ member[u] # "disabled"
             /\ \/ pc[p] = "access" /\ wasOpen[p]
                \/ pc[p] = "create" /\ zone = "active" /\ mode = "open"
                \/ pc[p] = "create" /\ zone = "active" /\ mode = "invite_only"
                                    /\ invite[u] = "open" /\ invite'[u] = "accepted"
                \/ pc[p] = "sso" /\ provider = "jit"]_vars

(* An identity, once linked, stays with its account, and an OIDC subject   *)
(* gets into an account that was there before only with a verified address.*)
LinksAreVerified ==
    [][\A u \in People : linked'[u] # linked[u] =>
          /\ linked[u] = Nobody
          /\ \/ account[u] = "none"
             \/ \E a \in Auths : auth[a].subject = u /\ auth[a].verified]_vars
=============================================================================
