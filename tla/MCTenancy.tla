------------------------------- MODULE MCTenancy -------------------------------
(* One zone, hosted or self-hosted, and two overlapping requests; and what    *)
(* people and programs may do in its workspaces: two of them, of an owner     *)
(* each.  A behaviour is one of a part: the zone, roles, tickets, posts with  *)
(* tokens or through webhooks, who is online, who is notified; the others     *)
(* stay as they start.                                                        *)
EXTENDS Tenancy, Integrations, Presence, Notices, TLC

CONSTANTS ron, zoe, kim, post, ann, ben, here, there, inside, outside, lobby, yard

MCPeople == {ann, ben}
MCPlaces == {here, there}
MCOwner  == (here :> ann) @@ (there :> ben)
MCZoneOf == (here :> inside) @@ (there :> outside)
MCRooms  == {lobby, yard}
MCRoomOf == (lobby :> here) @@ (yard :> there)
MCPermissions == {"role.manage", "workspace.invite_user", "workspace.manage", "ticket.view",
                  "ticket.manage", "api_token.manage", "webhook.manage"}
MCSystemRoles == ("workspace_owner" :> MCPermissions) @@ ("workspace_member" :> {})

MCAuthorOf == (post :> ron)
MCMentionsOf == (post :> {zoe})

(* What is asked.  A workspace may have a role of its own with the code of    *)
(* the role that new members are given.                                       *)
Asked(ops, people, places) ==
    {[Ask EXCEPT !.op = o, !.by = u, !.at = w] : o \in ops, u \in people, w \in places}
OwnRole(w) == <<w, "workspace_member">>
MCAsks ==
    {[a EXCEPT !.zone = z, !.can = {"role.manage", "ticket.view", "no such permission"}] :
        a \in Asked({"createRole"}, People, Places), z \in {inside, outside}}
    \cup {[a EXCEPT !.who = u, !.role = r] :
        a \in Asked({"assignRole", "revokeRole"}, People, Places), u \in People,
        r \in {OwnRole(here), OwnRole(there), <<Global, "workspace_owner">>}}
    \cup {[a EXCEPT !.who = u] : a \in Asked({"addMember"}, People, Places), u \in People}
    \cup {[a EXCEPT !.who = u, !.role[2] = "workspace_owner"] :
        a \in Asked({"addMember"}, {ann}, {here}), u \in People}
    \cup {[a EXCEPT !.who = ben, !.st = s] :
        a \in Asked({"setStatus"}, People, {here}), s \in {"active", "disabled", "left"}}
    \cup Asked({"archive"}, People, {here})
    \cup {[a EXCEPT !.who = u] :
        a \in Asked({"openTicket"}, People, {here}), u \in {ben, Nobody}}
    \cup {[a EXCEPT !.who = u, !.st = s] :
        a \in Asked({"updateTicket"}, People, {here}), u \in {ben, Nobody},
        s \in {"none", "open", "resolved", "closed"}}
    \cup Asked({"createToken", "revokeToken", "createHook", "updateHook", "deleteHook"},
               {ann}, {here})
    \cup Asked({"createToken"}, {ben}, {there})

OpsOf(part) ==
    CASE part = "roles"   -> {"createRole", "assignRole", "revokeRole", "addMember",
                              "setStatus", "archive"}
      [] part = "tickets" -> {"addMember", "setStatus", "openTicket", "updateTicket"}
      [] part = "tokens"  -> {"createToken", "revokeToken", "archive"}
      [] part = "hooks"   -> {"createHook", "updateHook", "deleteHook", "archive"}

VARIABLE part

MCInit == part \in {"zone", "roles", "tickets", "tokens", "hooks", "presence", "notices"}
          /\ ZoneInit /\ PermitsInit /\ IntegrationsInit /\ PresenceInit /\ NoticesInit
          /\ (part # "zone" => ~selfHosted)

MCNext ==
    /\ UNCHANGED part
    /\ \/ part = "zone" /\ ZoneNext
          /\ UNCHANGED <<permitVars, integrationVars, presenceVars, noticeVars>>
       \/ part = "presence" /\ PresenceNext
          /\ UNCHANGED <<tenancyVars, permitVars, integrationVars, noticeVars>>
       \/ part = "notices" /\ NoticesNext
          /\ UNCHANGED <<tenancyVars, permitVars, integrationVars, presenceVars>>
       \/ /\ part \in {"roles", "tickets", "tokens", "hooks"}
          /\ \/ PermitsNext /\ UNCHANGED integrationVars
             \/ part \in {"tokens", "hooks"} /\ IntegrationsNext
          /\ Cardinality(posted') <= 1
          /\ part # "tickets" => admitted' < MaxPermits
          /\ \A p \in PermitRequests : doing'[p] = NoAsk \/ doing'[p].op \in OpsOf(part)
          /\ UNCHANGED <<tenancyVars, presenceVars, noticeVars>>

MCSpec == MCInit /\ [][MCNext]_<<tenancyVars, permitVars, integrationVars, presenceVars, noticeVars,
                                      part>>

(* What holds of people and programs: roles, permissions, tickets and posts   *)
(* belong to the workspace they are of and to who was allowed to make them,   *)
(* who is shown as online said so, and who is notified had no setting against *)
(* it but a channel's 'mentions', which the recipients' query does not heed.  *)
WorkspacesAreSound == part # "zone" =>
    /\ PermitsTypeOK /\ IntegrationsTypeOK
    /\ RolesStayHome /\ ViewsAgree /\ TicketsAreDated /\ PostsWereAllowed
    /\ PresenceIsTrue
    /\ NoticesTypeOK /\ NoticesWereWanted

Symmetry == Permutations(Handlers) \cup Permutations(Domains)
            \cup Permutations(Installations)
=============================================================================
