----------------------------- MODULE Integrations -----------------------------
(***************************************************************************)
(* How other programs post into channels: with an API token (module        *)
(* api_tokens) or through an incoming webhook (module webhooks).  People   *)
(* create, change and revoke both, by permissions of module Permits.       *)
(*                                                                         *)
(* A credential is looked up in one statement and the message inserted in  *)
(* a later one: between the two the credential may be revoked, the         *)
(* channel deleted, the workspace archived or the zone suspended.          *)
(***************************************************************************)
EXTENDS Permits

CONSTANTS
    ApiTokens, Incoming,  \* rows that may come to be
    Rooms, RoomOf,        \* channels, and the workspace of each
    Programs,             \* requests of programs under way at the same time
    MaxZoneMoves,         \* bound: changes of the zone and of channels
    NoRoom

ASSUME RoomAssumption == RoomOf \in [Rooms -> Places] /\ NoRoom \notin Rooms
ASSUME ProgramAssumption == ApiTokens \cap Incoming = {} /\ MaxZoneMoves \in Nat

VARIABLES
    zoneOpen,  \* the zone is active
    closed,    \* channels that are not active or deleted
    token,     \* api_tokens
    incoming,      \* incoming_webhooks
    run,       \* per program: next step, credential, channel
    spent,     \* history: tokens that were revoked, webhooks that were deleted
    posted,    \* history: <<credential, its workspace, channel, was it spent
               \* when the request began>> of each message
    zoneMoves

adminVars == <<zoneOpen, closed, token, incoming, zoneMoves>>
integrationVars == <<adminVars, run, spent, posted>>

NoToken == [st |-> "none", at |-> Global, writes |-> FALSE, due |-> "never"]
NoIncoming  == [st |-> "none", at |-> Global, room |-> NoRoom]
Resting == [step |-> "idle", with |-> "none", at |-> Global, room |-> NoRoom, late |-> FALSE]

IntegrationsTypeOK ==
    /\ zoneOpen \in BOOLEAN /\ closed \subseteq Rooms
    /\ token \in [ApiTokens -> [st : {"none", "active", "revoked"}, at : {Global} \cup Places,
                                writes : BOOLEAN, due : {"never", "later", "past"}]]
    /\ incoming \in [Incoming -> [st : {"none", "active", "disabled", "deleted"},
                              at : {Global} \cup Places, room : Rooms \cup {NoRoom}]]
    /\ spent \subseteq ApiTokens \cup Incoming
    /\ \A x \in posted : x[3] \in Rooms
    /\ zoneMoves \in 0..MaxZoneMoves

IntegrationsInit ==
    /\ zoneOpen = TRUE /\ closed = {}
    /\ token = [k \in ApiTokens |-> NoToken] /\ incoming = [h \in Incoming |-> NoIncoming]
    /\ run = [p \in Programs |-> Resting]
    /\ spent = {} /\ posted = {} /\ zoneMoves = 0

-----------------------------------------------------------------------------
(* Requests of people, admitted like those of module Permits.              *)

(* ensureManagePermission of either service.                               *)
MayManageTokens(a) == HasWorkspacePermission(a.by, a.at, "api_token.manage")
MayManageHooks(a)  == HasWorkspacePermission(a.by, a.at, "webhook.manage")

AdmitManager(p) ==
    /\ doing[p] = NoAsk /\ admitted < MaxPermits /\ admitted' = admitted + 1
    /\ \E a \in PermitAsks :
          /\ \/ a.op \in {"createToken", "revokeToken"} /\ MayManageTokens(a)
             \/ a.op \in {"createHook", "updateHook", "deleteHook"} /\ MayManageHooks(a)
          /\ doing' = [doing EXCEPT ![p] = a]
    /\ UNCHANGED <<memberVars, roleVars, granters, ticket, integrationVars>>

Manages(p, op) ==
    Runs(p, op) /\ UNCHANGED <<memberVars, roleVars, granters, ticket, zoneOpen, closed,
                               zoneMoves, run, posted>>

(* CreateToken: with the scope message.write or only others, with or       *)
(* without a day it expires; an unknown scope undoes it (NothingDone).     *)
CreateToken(p) ==
    /\ Manages(p, "createToken")
    /\ \E k \in ApiTokens, writes \in BOOLEAN, due \in {"never", "later"} :
          /\ token[k].st = "none"
          /\ token' = [token EXCEPT ![k] = [st |-> "active", at |-> doing[p].at,
                                            writes |-> writes, due |-> due]]
    /\ UNCHANGED <<incoming, spent>>

RevokeToken(p) ==
    /\ Manages(p, "revokeToken")
    /\ \E k \in ApiTokens :
          /\ token[k].st = "active" /\ token[k].at = doing[p].at
          /\ token' = [token EXCEPT ![k].st = "revoked"] /\ spent' = spent \cup {k}
    /\ UNCHANGED incoming

(* The channel an incoming webhook may be given: none, or one that is      *)
(* active in its workspace.                                                *)
Givable(r, w) == r # NoRoom => (RoomOf[r] = w /\ r \notin closed)

(* CreateIncoming, within the quota of an active zone and workspace.       *)
CreateIncoming(p) ==
    /\ Manages(p, "createHook")
    /\ zoneOpen /\ doing[p].at \notin archived
    /\ \E h \in Incoming, r \in Rooms \cup {NoRoom} :
          /\ incoming[h].st = "none" /\ Givable(r, doing[p].at)
          /\ incoming' = [incoming EXCEPT ![h] = [st |-> "active", at |-> doing[p].at, room |-> r]]
    /\ UNCHANGED <<token, spent>>

UpdateIncoming(p) ==
    /\ Manages(p, "updateHook")
    /\ \E h \in Incoming, st \in {"active", "disabled"} :
       \E r \in Rooms \cup {NoRoom} :
          /\ incoming[h].st \in {"active", "disabled"} /\ incoming[h].at = doing[p].at
          /\ r # incoming[h].room => Givable(r, doing[p].at)
          /\ incoming' = [incoming EXCEPT ![h].st = st, ![h].room = r]
    /\ UNCHANGED <<token, spent>>

DeleteIncoming(p) ==
    /\ Manages(p, "deleteHook")
    /\ \E h \in Incoming :
          /\ incoming[h].st \in {"active", "disabled"} /\ incoming[h].at = doing[p].at
          /\ incoming' = [incoming EXCEPT ![h].st = "deleted"] /\ spent' = spent \cup {h}
    /\ UNCHANGED token

-----------------------------------------------------------------------------
(* Requests of programs.                                                   *)

Begins(p, c, r) ==
    /\ run[p].step = "idle"
    /\ run' = [run EXCEPT ![p] = [Resting EXCEPT !.step = "find", !.with = c, !.room = r,
                                                 !.late = c \in spent]]
    /\ UNCHANGED <<permitVars, adminVars, spent, posted>>

(* Service.SendTokenMessage names a channel, DispatchIncoming may.         *)
SendTokenMessage(p) == \E k \in ApiTokens, r \in Rooms : Begins(p, k, r)
DispatchIncoming(p) == \E h \in Incoming, r \in Rooms \cup {NoRoom} : Begins(p, h, r)

GoesOn(p, w, r) ==
    run' = [run EXCEPT ![p].step = "post", ![p].at = w, ![p].room = r]
Rests(p) == run' = [run EXCEPT ![p] = Resting]

(* Mutant: the statement does not ask for the status of the token.         *)
UsableRevoked(k) ==
    token[k].st # "none" /\ token[k].due # "past" /\ token[k].at \notin archived /\ zoneOpen

(* The rows Authenticate updates.                                          *)
Usable(k) ==
    token[k].st = "active" /\ token[k].due # "past" /\ token[k].at \notin archived /\ zoneOpen

(* Authenticate, and then the scope.                                       *)
Authenticate(p) ==
    LET k == run[p].with
    IN  /\ run[p].step = "find" /\ k \in ApiTokens
        /\ IF Usable(k) /\ token[k].writes
           THEN GoesOn(p, token[k].at, run[p].room) ELSE Rests(p)
        /\ UNCHANGED <<permitVars, adminVars, spent, posted>>

(* The SELECT of SendIncomingMessage: the channel named, or its own.       *)
FindIncoming(p) ==
    LET h == run[p].with
        r == IF run[p].room # NoRoom THEN run[p].room ELSE incoming[h].room
    IN  /\ run[p].step = "find" /\ h \in Incoming
        /\ IF /\ incoming[h].st = "active" /\ incoming[h].at \notin archived /\ zoneOpen
              /\ r # NoRoom /\ Givable(r, incoming[h].at)
           THEN GoesOn(p, incoming[h].at, r) ELSE Rests(p)
        /\ UNCHANGED <<permitVars, adminVars, spent, posted>>

(* insertIntegrationMessage: the message with its search document and its  *)
(* event, in an active channel of the workspace of the credential.         *)
PostMessage(p) ==
    LET x == run[p]
    IN  /\ x.step = "post" /\ Rests(p)
        /\ posted' = IF Givable(x.room, x.at)
                     THEN posted \cup {<<x.with, x.at, x.room, x.late>>} ELSE posted
        /\ UNCHANGED <<permitVars, adminVars, spent>>

(* A connection fails, a program gives up.                                 *)
GivesUp(p) ==
    /\ run[p].step # "idle" /\ Rests(p)
    /\ UNCHANGED <<permitVars, adminVars, spent, posted>>

Elsewhere ==
    /\ zoneMoves < MaxZoneMoves /\ zoneMoves' = zoneMoves + 1
    /\ UNCHANGED <<permitVars, incoming, run, spent, posted>>

(* tenancy: SetZoneLifecycle; channels: Delete; the day of a token.        *)
ZoneMoves    == Elsewhere /\ zoneOpen' = ~zoneOpen /\ UNCHANGED <<closed, token>>
RoomCloses   == Elsewhere /\ \E r \in Rooms : r \notin closed /\ closed' = closed \cup {r}
                /\ UNCHANGED <<zoneOpen, token>>
TokenExpires == Elsewhere /\ \E k \in ApiTokens :
                    /\ token[k].due = "later"
                    /\ token' = [token EXCEPT ![k].due = "past"]
                /\ UNCHANGED <<zoneOpen, closed>>

IntegrationsNext ==
    \/ \E p \in PermitRequests :
          \/ AdmitManager(p) \/ CreateToken(p) \/ RevokeToken(p)
          \/ CreateIncoming(p) \/ UpdateIncoming(p) \/ DeleteIncoming(p)
    \/ \E p \in Programs :
          \/ SendTokenMessage(p) \/ DispatchIncoming(p) \/ Authenticate(p)
          \/ FindIncoming(p) \/ PostMessage(p) \/ GivesUp(p)
    \/ ZoneMoves \/ RoomCloses \/ TokenExpires

WorkspacesNext ==
    \/ PermitsNext /\ UNCHANGED integrationVars
    \/ IntegrationsNext

WorkspacesSpec ==
    PermitsInit /\ IntegrationsInit /\ [][WorkspacesNext]_<<permitVars, integrationVars>>

-----------------------------------------------------------------------------
(* A program posts into channels of the workspace its credential is for,   *)
(* and never with one that was revoked or deleted before the request began;*)
(* what is revoked stays so, whatever is changed about it later, and a     *)
(* webhook never comes to point into another workspace.                    *)
PostsWereAllowed ==
    /\ \A x \in posted : RoomOf[x[3]] = x[2] /\ ~x[4]
    /\ \A k \in ApiTokens : k \in spent <=> token[k].st = "revoked"
    /\ \A h \in Incoming :
          /\ h \in spent <=> incoming[h].st = "deleted"
          /\ incoming[h].room # NoRoom => RoomOf[incoming[h].room] = incoming[h].at
=============================================================================
