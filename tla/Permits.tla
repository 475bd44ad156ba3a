-------------------------------- MODULE Permits --------------------------------
(***************************************************************************)
(* Who may do what in a workspace, and what such requests do: roles        *)
(* (module rbac), the members they are given to (module workspaces) and    *)
(* tickets (module tickets).                                               *)
(*                                                                         *)
(* A service first asks whether its caller has a permission and then runs  *)
(* one statement or transaction of its own; by then the permission may     *)
(* have been taken away, the member disabled, the workspace archived.      *)
(* Roles are global (of the system) or of one workspace; no code deletes   *)
(* one, and none deletes the roles of a member who leaves.                 *)
(***************************************************************************)
EXTENDS Naturals, FiniteSets

CONSTANTS
    People, Places,   \* users, workspaces
    Owner, ZoneOf,    \* who owns each workspace, the zone it is in
    Codes,            \* codes of roles
    Permissions,
    SystemRoles,      \* the permissions of each seeded role, by its code
    PermitRequests,   \* requests under way at the same time
    PermitAsks,       \* bound: what is asked, as records of Ask
    Tickets,
    MaxPermits,       \* bound: requests that were admitted
    Nobody

Global == "global"
RoleIds == ({Global} \cup Places) \X Codes
Standings == {"none", "active", "disabled", "left"}
TicketStatus == {"open", "pending", "resolved", "closed"}

ASSUME OwnerAssumption == Owner \in [Places -> People] /\ Nobody \notin People
ASSUME GlobalAssumption == Global \notin Places
ASSUME SystemAssumption ==
    /\ "workspace_owner" \in DOMAIN SystemRoles /\ DOMAIN SystemRoles \subseteq Codes
    /\ \A c \in DOMAIN SystemRoles : SystemRoles[c] \subseteq Permissions

VARIABLES
    archived,   \* workspaces that are archived
    standing,   \* workspace_members: status, by workspace and user
    can,        \* roles, and role_permissions: the permissions of each that exists
    givenBy,    \* workspace_member_roles, by workspace, user and role: assigned_by
    granters,   \* history: <<workspace, user>> who ever could give roles there
    ticket,     \* tickets
    doing,      \* per request: what it was allowed to do, or NoAsk
    admitted    \* how many requests were

memberVars == <<archived, standing>>
roleVars   == <<can, givenBy>>
permitVars == <<memberVars, roleVars, granters, ticket, doing, admitted>>

NoTicket == [st |-> "none", at |-> Global, who |-> Nobody, resolved |-> FALSE, closed |-> FALSE]

(* What a request asks for; each operation reads the fields it needs.      *)
Ask == [op |-> "none", by |-> Nobody, at |-> Global, zone |-> Global, who |-> Nobody,
        role |-> <<Global, "workspace_member">>, can |-> {}, st |-> "none"]
NoAsk == Ask

(* What a request of these operations may name, as the handlers parse it.  *)
ASSUME AskAssumption == MaxPermits \in Nat /\ \A a \in PermitAsks :
    /\ a.by \in People /\ a.at \in Places /\ a.role \in ({Global} \cup Places) \X Codes
    /\ a.op \in {"assignRole", "revokeRole", "addMember", "setStatus"} => a.who \in People
    /\ a.op \in {"openTicket", "updateTicket"} => a.who \in People \cup {Nobody}
    /\ a.op = "setStatus" => a.st \in {"active", "disabled", "left"}
    /\ a.op = "updateTicket" => a.st \in {"none"} \cup TicketStatus

PermitsTypeOK ==
    /\ archived \subseteq Places
    /\ standing \in [Places -> [People -> Standings]]
    /\ DOMAIN can \subseteq RoleIds /\ \A r \in DOMAIN can : can[r] \subseteq Permissions
    /\ DOMAIN givenBy \subseteq Places \X People \X RoleIds
    /\ \A x \in DOMAIN givenBy : givenBy[x] \in People
    /\ granters \subseteq Places \X People
    /\ ticket \in [Tickets -> [st : {"none"} \cup TicketStatus, at : {Global} \cup Places,
                               who : People \cup {Nobody}, resolved : BOOLEAN,
                               closed : BOOLEAN]]
    /\ doing \in [PermitRequests -> PermitAsks \cup {NoAsk}]
    /\ admitted \in 0..MaxPermits

-----------------------------------------------------------------------------
(* The queries of rbac.                                                    *)

Holds(w, u, r) == <<w, u, r>> \in DOMAIN givenBy

(* The roles a member has that count in this workspace.                    *)
RolesOf(u, w) ==
    {r \in DOMAIN can : standing[w][u] = "active" /\ Holds(w, u, r) /\ r[1] \in {Global, w}}

(* Repository.HasWorkspacePermission.                                      *)
HasWorkspacePermission(u, w, p) ==
    \/ Owner[w] = u /\ w \notin archived
    \/ \E r \in RolesOf(u, w) : p \in can[r]

(* Repository.HasAnyWorkspacePermission and HasAnyZonePermission: by a     *)
(* role, owning does not count.                                            *)
HasAnyWorkspacePermission(u, p) ==
    \E w \in Places \ archived : \E r \in RolesOf(u, w) : p \in can[r]
HasAnyZonePermission(u, z, p) ==
    \E w \in Places \ archived : ZoneOf[w] = z /\ \E r \in RolesOf(u, w) : p \in can[r]

(* Mutant: the roles of a member who is disabled are listed too.           *)
ListsInactive(u, w) ==
    IF Owner[w] = u /\ w \notin archived THEN Permissions
    ELSE UNION {can[r] : r \in {s \in DOMAIN can : Holds(w, u, s)}}

(* Repository.ListUserWorkspacePermissions: what a client shows.           *)
ListUserWorkspacePermissions(u, w) ==
    (IF Owner[w] = u /\ w \notin archived THEN Permissions ELSE {})
    \cup UNION {can[r] : r \in RolesOf(u, w)}

(* Repository.ListRoles and ListWorkspaceMemberRoles.                      *)
ListRoles(w) == {r \in DOMAIN can : r[1] \in {Global, w}}
ListWorkspaceMemberRoles(w, u) == {r \in DOMAIN can : Holds(w, u, r)}

(* Repository.WorkspaceBelongsToZone, of an active workspace.              *)
WorkspaceBelongsToZone(w, z) == w \notin archived /\ ZoneOf[w] = z

-----------------------------------------------------------------------------
MayGive == {"role.manage", "workspace.invite_user"}
Granters == {x \in Places \X People :
                \E p \in MayGive : HasWorkspacePermission(x[2], x[1], p)}

PermitsInit ==
    /\ archived = {}
    /\ standing = [w \in Places |-> [u \in People |-> IF Owner[w] = u THEN "active" ELSE "none"]]
    /\ can = [r \in {Global} \X DOMAIN SystemRoles |-> SystemRoles[r[2]]]
    /\ givenBy = [x \in {<<w, Owner[w], <<Global, "workspace_owner">>>> : w \in Places} |-> x[2]]
    /\ granters = Granters
    /\ ticket = [t \in Tickets |-> NoTicket]
    /\ doing = [p \in PermitRequests |-> NoAsk]
    /\ admitted = 0

Remember == granters' = granters \cup Granters'

(* What each service asks first: Service.CreateRole, AssignWorkspaceRole,  *)
(* RevokeWorkspaceRole of rbac; AddMember, UpdateMemberStatus and Archive  *)
(* of workspaces; Create and Update of tickets.                            *)
MayCreateRole(a) ==
    WorkspaceBelongsToZone(a.at, a.zone) /\ HasWorkspacePermission(a.by, a.at, "role.manage")
MayAssignRole(a)   == HasWorkspacePermission(a.by, a.at, "role.manage")
MayRevokeRole(a)   == HasWorkspacePermission(a.by, a.at, "role.manage")
MayAddMember(a)    == HasWorkspacePermission(a.by, a.at, "workspace.invite_user")
MaySetStatus(a)    == HasWorkspacePermission(a.by, a.at, "workspace.manage")
MayArchive(a)      == HasWorkspacePermission(a.by, a.at, "workspace.manage")
MayOpenTicket(a)   == HasWorkspacePermission(a.by, a.at, "ticket.view")
MayUpdateTicket(a) == HasWorkspacePermission(a.by, a.at, "ticket.manage")

AdmitPerson(p) ==
    /\ doing[p] = NoAsk /\ admitted < MaxPermits /\ admitted' = admitted + 1
    /\ \E a \in PermitAsks :
          /\ \/ a.op = "createRole" /\ MayCreateRole(a)
             \/ a.op = "assignRole" /\ MayAssignRole(a)
             \/ a.op = "revokeRole" /\ MayRevokeRole(a)
             \/ a.op = "addMember" /\ MayAddMember(a)
             \/ a.op = "setStatus" /\ MaySetStatus(a)
             \/ a.op = "archive" /\ MayArchive(a)
             \/ a.op = "openTicket" /\ MayOpenTicket(a)
             \/ a.op = "updateTicket" /\ MayUpdateTicket(a)
          /\ doing' = [doing EXCEPT ![p] = a]
    /\ UNCHANGED <<memberVars, roleVars, granters, ticket>>

Runs(p, op) == doing[p].op = op /\ doing' = [doing EXCEPT ![p] = NoAsk] /\ UNCHANGED admitted

-----------------------------------------------------------------------------
(* The statements.                                                         *)

(* roles_workspace_code_uidx: a code is taken once in a workspace;         *)
(* permissions that do not exist are left out.                             *)
CreateRole(p) ==
    LET r == <<doing[p].at, doing[p].role[2]>>
    IN  /\ Runs(p, "createRole")
        /\ can' = IF r \in DOMAIN can THEN can
                  ELSE [s \in DOMAIN can \cup {r} |->
                           IF s = r THEN doing[p].can \cap Permissions ELSE can[s]]
        /\ UNCHANGED <<memberVars, givenBy, ticket>> /\ Remember

(* ON CONFLICT: a row that is there keeps who assigned it.                 *)
Give(w, u, r, by) ==
    givenBy' = [x \in DOMAIN givenBy \cup {<<w, u, r>>} |->
                IF x \in DOMAIN givenBy THEN givenBy[x] ELSE by]

(* Mutant: any role may be assigned, one of another workspace too.         *)
AnyRole(w, u, r) == standing[w][u] = "active" /\ r \in DOMAIN can

(* The rows AssignWorkspaceRole selects.                                   *)
Assignable(w, u, r) == standing[w][u] = "active" /\ r \in DOMAIN can /\ r[1] \in {Global, w}

AssignWorkspaceRole(p) ==
    LET a == doing[p]
    IN  /\ Runs(p, "assignRole")
        /\ IF Assignable(a.at, a.who, a.role)
           THEN Give(a.at, a.who, a.role, a.by) ELSE UNCHANGED givenBy
        /\ UNCHANGED <<memberVars, can, ticket>> /\ Remember

RevokeWorkspaceRole(p) ==
    LET x == <<doing[p].at, doing[p].who, doing[p].role>>
    IN  /\ Runs(p, "revokeRole")
        /\ givenBy' = [y \in DOMAIN givenBy \ {x} |-> givenBy[y]]
        /\ UNCHANGED <<memberVars, can, ticket>> /\ Remember

(* Repository.AddMember: a role of the workspace before one of the system; *)
(* without a role nothing happens.  Whoever returns has all his old roles. *)
Chosen(w, c) ==
    IF <<w, c>> \in DOMAIN can THEN {<<w, c>>} ELSE {<<Global, c>>} \cap DOMAIN can

AddMember(p) ==
    LET a == doing[p]
    IN  /\ Runs(p, "addMember")
        /\ \/ \E r \in Chosen(a.at, a.role[2]) :
                 /\ standing' = [standing EXCEPT ![a.at][a.who] = "active"]
                 /\ Give(a.at, a.who, r, a.by)
           \/ Chosen(a.at, a.role[2]) = {} /\ UNCHANGED <<standing, givenBy>>
        /\ UNCHANGED <<archived, can, ticket>> /\ Remember

UpdateMemberStatus(p) ==
    LET a == doing[p]
    IN  /\ Runs(p, "setStatus")
        /\ standing' = IF standing[a.at][a.who] = "none" THEN standing
                       ELSE [standing EXCEPT ![a.at][a.who] = a.st]
        /\ UNCHANGED <<archived, roleVars, ticket>> /\ Remember

Archive(p) ==
    /\ Runs(p, "archive")
    /\ archived' = archived \cup {doing[p].at}
    /\ UNCHANGED <<standing, roleVars, ticket>> /\ Remember

(* Who a ticket may be assigned to: nobody, or an active member.           *)
Assignee(w, u) == u # Nobody => standing[w][u] = "active"

CreateTicket(p) ==
    LET a == doing[p]
    IN  /\ Runs(p, "openTicket")
        /\ \E t \in Tickets :
              /\ ticket[t].st = "none" /\ Assignee(a.at, a.who)
              /\ ticket' = [ticket EXCEPT ![t] =
                                [NoTicket EXCEPT !.st = "open", !.at = a.at, !.who = a.who]]
        /\ UNCHANGED <<memberVars, roleVars, granters>>

(* Mutant: a ticket that is open again keeps the date it was closed.       *)
KeepsDates(k, st) ==
    [k EXCEPT !.st = IF st = "none" THEN @ ELSE st,
              !.resolved = @ \/ st \in {"resolved", "closed"},
              !.closed = @ \/ st = "closed"]

(* The columns Update sets for a status, or for none.  The assignee of a   *)
(* ticket is left or set.                                                  *)
Dated(k, st) ==
    IF st = "none" THEN k
    ELSE [k EXCEPT !.st = st, !.resolved = st \in {"resolved", "closed"},
                   !.closed = st = "closed"]

UpdateTicket(p) ==
    LET a == doing[p]
    IN  /\ Runs(p, "updateTicket")
        /\ \E t \in Tickets : \E who \in {ticket[t].who, a.who} :
              /\ ticket[t].at = a.at /\ (who # ticket[t].who => Assignee(a.at, who))
              /\ ticket' = [ticket EXCEPT ![t] = Dated([@ EXCEPT !.who = who], a.st)]
        /\ UNCHANGED <<memberVars, roleVars, granters>>

(* A statement that finds no row or fails, or a request that is given up.  *)
NothingDone(p) ==
    /\ doing[p] # NoAsk /\ doing' = [doing EXCEPT ![p] = NoAsk]
    /\ UNCHANGED <<memberVars, roleVars, granters, ticket, admitted>>

PermitsNext ==
    \E p \in PermitRequests :
        \/ AdmitPerson(p) \/ CreateRole(p) \/ AssignWorkspaceRole(p) \/ RevokeWorkspaceRole(p)
        \/ AddMember(p) \/ UpdateMemberStatus(p) \/ Archive(p)
        \/ CreateTicket(p) \/ UpdateTicket(p) \/ NothingDone(p)

-----------------------------------------------------------------------------
(* A role that somebody holds is one his workspace lists, he has been a    *)
(* member there, and whoever gave it to him was at some time allowed to:   *)
(* no request reaches into another workspace, however late it runs.        *)
RolesStayHome ==
    \A x \in DOMAIN givenBy :
        /\ x[3] \in ListRoles(x[1]) /\ standing[x[1]][x[2]] # "none"
        /\ <<x[1], givenBy[x]>> \in granters

(* What a client is told it may do is what the services allow, and who may *)
(* create another workspace has the permission for it in one.              *)
ViewsAgree ==
    \A u \in People, w \in Places :
        /\ ListUserWorkspacePermissions(u, w) =
              {p \in Permissions : HasWorkspacePermission(u, w, p)}
        /\ ListWorkspaceMemberRoles(w, u) \subseteq ListRoles(w)
        /\ \A p \in Permissions : HasAnyWorkspacePermission(u, p) =>
              \E v \in Places : HasWorkspacePermission(u, v, p)
        /\ \A p \in Permissions : HasAnyZonePermission(u, ZoneOf[w], p) =>
              HasAnyWorkspacePermission(u, p)

(* A ticket has the dates of its status, and belongs to somebody who was   *)
(* a member of its workspace.                                              *)
TicketsAreDated ==
    \A t \in Tickets :
        LET k == ticket[t]
        IN  /\ k.resolved <=> k.st \in {"resolved", "closed"}
            /\ k.closed <=> k.st = "closed"
            /\ k.who # Nobody => standing[k.at][k.who] # "none"
=============================================================================
