-------------------------------- MODULE Tenancy --------------------------------
(* One zone: its domains, workspaces, automation installations with their    *)
(* runtime webhooks, and its quota (module tenancy, with the creation of      *)
(* workspaces and webhooks that the quota guards).                            *)
(*                                                                            *)
(* A request is admitted while the zone serves its host, and writes later in  *)
(* a transaction: by then the zone may have been suspended or archived, the   *)
(* domain deleted, the quota lowered.  A transaction is one action, except    *)
(* that an insertion under a quota first counts in a statement that may wait  *)
(* for the quota row (its count is then old) and, holding the row, inserts:   *)
(* a trigger counts again.  Every transaction writes an audit row of the zone *)
(* and so waits for one that has locked the zone.                             *)
EXTENDS Naturals, FiniteSets

CONSTANTS
    Handlers,   \* requests served at the same time
    Domains, Installations,
    Webhooks,   \* webhooks that belong to no installation
    MaxWs,      \* bound: workspaces ever created
    MaxQuota,   \* bound: the largest limit an administrator sets
    MaxReqs,    \* bound: requests ever admitted
    NoOne, NoDomain

ASSUME ZoneBounds == MaxWs \in Nat \ {0} /\ MaxQuota \in Nat \ {0} /\ MaxReqs \in Nat
ASSUME FreshAssumption == NoOne \notin Handlers /\ NoDomain \notin Domains
ASSUME FiniteAssumption == IsFiniteSet(Installations) /\ IsFiniteSet(Webhooks)

Ws == 1..MaxWs
Kinds == {"workspace", "installation", "webhook"}

VARIABLES
    selfHosted,  \* the instance is started in self-hosted mode
    zone,        \* zones: status and primary_workspace_id (0: NULL)
    url,         \* base URL of its zone_deployments row, by domain
    dom,         \* zone_domains: status and kind
    expired,     \* pending domains whose verification has expired
    ws,          \* workspaces: status
    slugged,     \* workspaces that carry the zone's slug
    inst, home,  \* automation_installations: status, workspace
    runtime,        \* status of the runtime webhook of each installation
    plain,       \* workspace of each other webhook (0: there is none)
    late,        \* history: webhooks switched on while the zone was not active
    quota, lock, \* zone_quotas: mode and limit; the transaction that holds the row
    stage, req,     \* per request: next step, and what it has in hand
    served

zoneVars  == <<zone, url, dom, expired>>
wsVars    == <<ws, slugged>>
autoVars  == <<inst, home, runtime, plain, late>>
quotaVars == <<quota, lock>>
tenancyVars == <<selfHosted, zoneVars, wsVars, autoVars, quotaVars, stage, req, served>>

Blank == [op |-> "none", d |-> NoDomain, i |-> NoOne, w |-> 0, to |-> "none", n |-> 0]
Steps == {"idle", "run", "activate", "provision", "lock", "insert"}

ZoneTypeOK ==
    /\ zone.st \in {"none", "provisioning", "active", "suspended", "archived"}
    /\ zone.main \in 0..MaxWs
    /\ url \in Domains \cup {NoDomain}
    /\ dom \in [Domains -> [st : {"none", "pending", "active", "suspended", "deleted"},
                            kind : {"primary", "alias"}]]
    /\ expired \subseteq Domains
    /\ ws \in [Ws -> {"none", "active", "suspended", "archived", "gone"}]
    /\ slugged \subseteq Ws
    /\ inst \in [Installations -> {"none", "enabled", "disabled", "deleted"}]
    /\ home \in [Installations -> 0..MaxWs]
    /\ runtime \in [Installations -> {"none", "active", "disabled"}]
    /\ plain \in [Webhooks -> 0..MaxWs]
    /\ late \subseteq Installations
    /\ quota \in [mode : {"hard", "monitor"}, max : 1..MaxQuota]
    /\ lock \in Handlers \cup {NoOne}
    /\ stage \in [Handlers -> Steps]

ZoneInit ==
    /\ selfHosted \in BOOLEAN
    /\ \E d \in Domains :
          /\ zone = IF selfHosted THEN [st |-> "active", main |-> 1]
                                  ELSE [st |-> "none", main |-> 0]
          /\ url = IF selfHosted THEN d ELSE NoDomain
          /\ dom = [e \in Domains |-> IF selfHosted /\ e = d
                                      THEN [st |-> "active", kind |-> "primary"]
                                      ELSE [st |-> "none", kind |-> "alias"]]
    /\ ws = [w \in Ws |-> IF selfHosted /\ w = 1 THEN "active" ELSE "none"]
    /\ slugged = IF selfHosted THEN {1} ELSE {}
    /\ expired = {}
    /\ inst = [i \in Installations |-> "none"] /\ home = [i \in Installations |-> 0]
    /\ runtime = [i \in Installations |-> "none"] /\ plain = [x \in Webhooks |-> 0]
    /\ late = {}
    /\ quota = [mode |-> IF selfHosted THEN "monitor" ELSE "hard", max |-> MaxQuota]
    /\ lock = NoOne
    /\ stage = [h \in Handlers |-> "idle"] /\ req = [h \in Handlers |-> Blank]
    /\ served = 0

-----------------------------------------------------------------------------
(* What a request is checked against. *)

LiveDomain(d) == dom[d].st \notin {"none", "deleted"}
LiveWs(w) == ws[w] \notin {"none", "gone"}
LiveInst(i) == inst[i] \in {"enabled", "disabled"}

(* The domain claim finds the primary workspace. *)
HasHome == zone.main # 0 /\ LiveWs(zone.main)

Serving == zone.st = "active" /\ \E d \in Domains : dom[d].st = "active"

Belongs(w) == ws[w] = "active"

(* The route that suspends and resumes also serves a suspended zone. *)
Recoverable ==
    zone.st \in {"active", "suspended"} /\ \E d \in Domains : dom[d].st = "active"

(* The count of the trigger. *)
Counted(k) ==
    CASE k = "workspace" -> Cardinality({w \in Ws : LiveWs(w)})
      [] k = "installation" -> Cardinality({i \in Installations : LiveInst(i)})
      [] k = "webhook" -> Cardinality({x \in Webhooks : plain[x] # 0})
                          + Cardinality({i \in Installations : runtime[i] # "none"})

(* The count a request makes first: it leaves out the webhooks of deleted    *)
(* workspaces.                                                                *)
Usage(k) ==
    IF k # "webhook" THEN Counted(k)
    ELSE Cardinality({x \in Webhooks : plain[x] # 0 /\ LiveWs(plain[x])})
         + Cardinality({i \in Installations : runtime[i] # "none" /\ LiveWs(home[i])})

Within(n) == quota.mode = "hard" => n < quota.max

(* Mutant: the trigger is gone, the earlier count decides. *)
NoTrigger(k) == TRUE
TriggerAllows(k) == Within(Counted(k))

Admit(h, step, r) ==
    /\ stage[h] = "idle" /\ served < MaxReqs
    /\ stage' = [stage EXCEPT ![h] = step]
    /\ req' = [req EXCEPT ![h] = r]
    /\ served' = served + 1
    /\ UNCHANGED <<selfHosted, zoneVars, wsVars, autoVars, quotaVars>>

Done(h) ==
    /\ stage' = [stage EXCEPT ![h] = "idle"]
    /\ req' = [req EXCEPT ![h] = Blank]
    /\ UNCHANGED <<selfHosted, served>>

Running(h, op) == stage[h] = "run" /\ req[h].op = op

(* A request that fails or is refused leaves nothing behind. *)
Abort(h) ==
    /\ stage[h] # "idle"
    /\ lock' = IF lock = h THEN NoOne ELSE lock
    /\ Done(h)
    /\ UNCHANGED <<zoneVars, wsVars, autoVars, quota>>

-----------------------------------------------------------------------------
(* Domains. *)

(* An owner who claims again gets the claim he has, whatever became of it.   *)
CreateDomainClaim(d) ==
    /\ ~selfHosted /\ zone.st = "none" /\ served < MaxReqs
    /\ zone' = [zone EXCEPT !.st = "provisioning"]
    /\ dom' = [dom EXCEPT ![d] = [st |-> "pending", kind |-> "primary"]]
    /\ served' = served + 1
    /\ UNCHANGED <<selfHosted, url, expired, wsVars, autoVars, quotaVars, stage, req>>

VerificationExpires(d) ==
    /\ dom[d].st = "pending" /\ d \notin expired
    /\ expired' = expired \cup {d}
    /\ UNCHANGED <<selfHosted, zone, url, dom, wsVars, autoVars, quotaVars, stage, req, served>>

(* The TXT record has been found; what was read decides which transaction    *)
(* follows, and the time of this check is the one compared with the expiry.  *)
VerifyDomainClaim(h, d) ==
    /\ ~selfHosted /\ dom[d].st = "pending" /\ d \notin expired
    /\ Admit(h, IF zone.st = "active" /\ HasHome THEN "activate" ELSE "provision",
             [Blank EXCEPT !.op = "verify", !.d = d])

(* Mutant: the transaction trusts what was read before. *)
ActivatableBefore(d) == TRUE
Activatable(d) == zone.st = "active" /\ HasHome /\ dom[d].st = "pending"

ActivateVerifiedDomain(h) ==
    /\ stage[h] = "activate" /\ Activatable(req[h].d)
    /\ dom' = [dom EXCEPT ![req[h].d].st = "active"]
    /\ Done(h)
    /\ UNCHANGED <<zone, url, expired, wsVars, autoVars, quotaVars>>

(* The new workspace takes the slug of the zone, which must be free. *)
ProvisionWorkspace(w) ==
    /\ ws[w] = "none" /\ \A v \in slugged : ~LiveWs(v)
    /\ lock = NoOne /\ TriggerAllows("workspace")
    /\ ws' = [ws EXCEPT ![w] = "active"] /\ slugged' = slugged \cup {w}

(* A zone that is not being provisioned keeps its status and its primary     *)
(* workspace.                                                                 *)
ProvisionVerifiedDomain(h) ==
    /\ stage[h] = "provision" /\ dom[req[h].d].st = "pending"
    /\ \E w \in Ws :
          /\ ProvisionWorkspace(w)
          /\ zone' = IF zone.st = "provisioning" THEN [st |-> "active", main |-> w] ELSE zone
    /\ dom' = [dom EXCEPT ![req[h].d].st = "active"]
    /\ url' = IF url = NoDomain THEN req[h].d ELSE url
    /\ Done(h)
    /\ UNCHANGED <<expired, autoVars, quotaVars>>

Manage(h, op, r) == Serving /\ Admit(h, "run", [r EXCEPT !.op = op])
DomainRequest(h, op, d) == ~selfHosted /\ Manage(h, op, [Blank EXCEPT !.d = d])

(* That the zone is active is checked in a statement of its own.  A name     *)
(* whose row is suspended can be inserted again as well: as a new domain.    *)
CreateAdditionalDomain(h) ==
    /\ Running(h, "addDomain") /\ ~LiveDomain(req[h].d)
    /\ dom' = [dom EXCEPT ![req[h].d] = [st |-> "pending", kind |-> "alias"]]
    /\ expired' = expired \ {req[h].d}
    /\ Done(h)
    /\ UNCHANGED <<zone, url, wsVars, autoVars, quotaVars>>

(* Mutant: the deployment keeps the address it had. *)
KeepAddress(d) == url
NewAddress(d) == d

SetPrimaryDomain(h) ==
    /\ Running(h, "setPrimary")
    /\ dom[req[h].d] = [st |-> "active", kind |-> "alias"]
    /\ dom' = [d \in Domains |->
                 IF d = req[h].d THEN [st |-> "active", kind |-> "primary"]
                 ELSE IF LiveDomain(d) THEN [dom[d] EXCEPT !.kind = "alias"] ELSE dom[d]]
    /\ url' = NewAddress(req[h].d)
    /\ Done(h)
    /\ UNCHANGED <<zone, expired, wsVars, autoVars, quotaVars>>

DeleteZoneDomain(h) ==
    /\ Running(h, "deleteDomain")
    /\ LiveDomain(req[h].d) /\ dom[req[h].d].kind = "alias"
    /\ dom' = [dom EXCEPT ![req[h].d].st = "deleted"]
    /\ Done(h)
    /\ UNCHANGED <<zone, url, expired, wsVars, autoVars, quotaVars>>

-----------------------------------------------------------------------------
(* The lifecycle of the zone. *)

Moves ==
    [suspend |-> [from |-> {"active", "suspended"}, to |-> "suspended"],
     resume  |-> [from |-> {"suspended"}, to |-> "active"],
     archive |-> [from |-> {"active", "suspended", "archived"}, to |-> "archived"]]

LifecycleRequest(h, move) ==
    Recoverable /\ Admit(h, "run", [Blank EXCEPT !.op = "lifecycle", !.to = move])

(* Mutant: archiving leaves the runtime webhooks alone. *)
SyncSuspendOnly(i, st, to) ==
    IF to = "archived" \/ runtime[i] = "none" THEN runtime[i]
    ELSE IF to = "active" /\ st[i] = "enabled" THEN "active" ELSE "disabled"
SyncHook(i, st, to) ==
    IF runtime[i] = "none" THEN "none"
    ELSE IF to = "active" /\ st[i] = "enabled" THEN "active" ELSE "disabled"

SetZoneLifecycle(h) ==
    /\ Running(h, "lifecycle")
    /\ LET move == Moves[req[h].to] IN
       /\ zone.st \in move.from
       /\ zone' = [zone EXCEPT !.st = move.to]
       /\ ws' = [w \in Ws |-> IF LiveWs(w) THEN move.to ELSE ws[w]]
       /\ dom' = [d \in Domains |->
                    IF move.to = "archived" /\ LiveDomain(d)
                    THEN [dom[d] EXCEPT !.st = "suspended"] ELSE dom[d]]
       /\ inst' = [i \in Installations |->
                    IF move.to = "archived" /\ LiveInst(i) THEN "disabled" ELSE inst[i]]
       /\ runtime' = [i \in Installations |-> SyncHook(i, inst', move.to)]
       /\ late' = {}
    /\ Done(h)
    /\ UNCHANGED <<url, expired, slugged, home, plain, quotaVars>>

(* Each start of the API in self-hosted mode: one zone with one domain,      *)
(* whatever an administrator had made of it.  Without a primary workspace    *)
(* the API does not start.                                                   *)
EnsureSelfHostedInstance ==
    /\ selfHosted /\ HasHome /\ lock = NoOne
    /\ zone' = [zone EXCEPT !.st = "active"]
    /\ ws' = [ws EXCEPT ![zone.main] = "active"]
    /\ dom' = [d \in Domains |-> IF ~LiveDomain(d) THEN dom[d]
                                 ELSE IF dom[d].kind = "primary" THEN [dom[d] EXCEPT !.st = "active"]
                                 ELSE [dom[d] EXCEPT !.st = "deleted"]]
    /\ quota' = [mode |-> "monitor", max |-> MaxQuota]
    /\ UNCHANGED <<selfHosted, url, expired, slugged, autoVars, lock, stage, req, served>>

-----------------------------------------------------------------------------
(* Insertions under the quota. *)

(* The first statement of the transaction counts, then may wait for the row  *)
(* of the quota; for workspaces and webhooks it also finds the zone active.  *)
InsertRequest(h, k, w, i, to) ==
    /\ Serving /\ LiveWs(w)
    /\ Admit(h, "lock", [Blank EXCEPT !.op = k, !.w = w, !.i = i, !.to = to, !.n = Usage(k)])

TargetActive(r) == r.op = "installation" => Belongs(r.w)

LockQuota(h) ==
    /\ stage[h] = "lock" /\ lock = NoOne
    /\ Within(req[h].n) /\ TargetActive(req[h])
    /\ lock' = h
    /\ stage' = [stage EXCEPT ![h] = "insert"]
    /\ UNCHANGED <<selfHosted, zoneVars, wsVars, autoVars, quota, req, served>>

Inserting(h, k) ==
    /\ stage[h] = "insert" /\ req[h].op = k /\ TriggerAllows(k)
    /\ lock' = NoOne
    /\ Done(h)

CreateWorkspace(h) ==
    /\ Inserting(h, "workspace")
    /\ \E w \in Ws : ws[w] = "none" /\ ws' = [ws EXCEPT ![w] = "active"]
    /\ UNCHANGED <<zoneVars, slugged, autoVars, quota>>

CreateOutgoing(h) ==
    /\ Inserting(h, "webhook")
    /\ \E x \in Webhooks : plain[x] = 0 /\ plain' = [plain EXCEPT ![x] = req[h].w]
    /\ UNCHANGED <<zoneVars, wsVars, inst, home, runtime, late, quota>>

Switched(i, status) ==
    /\ runtime' = [runtime EXCEPT ![i] = IF status = "enabled" THEN "active" ELSE "disabled"]
    /\ late' = IF status = "enabled" /\ zone.st # "active" THEN late \cup {i} ELSE late \ {i}

CreateAutomationInstallation(h) ==
    /\ Inserting(h, "installation") /\ TriggerAllows("webhook")
    /\ inst[req[h].i] = "none"
    /\ inst' = [inst EXCEPT ![req[h].i] = req[h].to]
    /\ home' = [home EXCEPT ![req[h].i] = req[h].w]
    /\ Switched(req[h].i, req[h].to)
    /\ UNCHANGED <<zoneVars, wsVars, plain, quota>>

-----------------------------------------------------------------------------
(* Changes of what is installed. *)

UpdateAutomationInstallation(h) ==
    /\ Running(h, "update")
    /\ LiveInst(req[h].i) /\ runtime[req[h].i] # "none"
    /\ inst' = [inst EXCEPT ![req[h].i] = req[h].to]
    /\ Switched(req[h].i, req[h].to)
    /\ Done(h)
    /\ UNCHANGED <<zoneVars, wsVars, home, plain, quotaVars>>

(* Mutant: the runtime webhook stays when its installation goes. *)
KeepHook(i) == runtime
DropHook(i) == [runtime EXCEPT ![i] = "none"]

DeleteAutomationInstallation(h) ==
    /\ Running(h, "uninstall") /\ LiveInst(req[h].i)
    /\ inst' = [inst EXCEPT ![req[h].i] = "deleted"]
    /\ runtime' = DropHook(req[h].i) /\ late' = late \ {req[h].i}
    /\ Done(h)
    /\ UNCHANGED <<zoneVars, wsVars, home, plain, quotaVars>>

(* The webhook screens also list runtime webhooks. *)
UpdateOutgoing(h) ==
    /\ Running(h, "switch") /\ runtime[req[h].i] # "none"
    /\ Switched(req[h].i, req[h].to)
    /\ Done(h)
    /\ UNCHANGED <<zoneVars, wsVars, inst, home, plain, quotaVars>>

DeleteOutgoing(h) ==
    /\ Running(h, "drop") /\ runtime[req[h].i] # "none"
    /\ runtime' = [runtime EXCEPT ![req[h].i] = "none"] /\ late' = late \ {req[h].i}
    /\ Done(h)
    /\ UNCHANGED <<zoneVars, wsVars, inst, home, plain, quotaVars>>

(* Any workspace, the primary one included. *)
ArchiveWorkspace(h) ==
    /\ Running(h, "archiveWs") /\ LiveWs(req[h].w)
    /\ ws' = [ws EXCEPT ![req[h].w] = "gone"]
    /\ Done(h)
    /\ UNCHANGED <<zoneVars, slugged, autoVars, quotaVars>>

(* Usage is read before the row is locked. *)
QuotaRequest(h, mode, max) ==
    /\ Serving /\ (mode = "hard" => \A k \in Kinds : Usage(k) <= max)
    /\ Admit(h, "run", [Blank EXCEPT !.op = "quota", !.to = mode, !.n = max])

UpdateZoneQuota(h) ==
    /\ Running(h, "quota") /\ lock = NoOne
    /\ quota' = [mode |-> req[h].to, max |-> req[h].n]
    /\ Done(h)
    /\ UNCHANGED <<zoneVars, wsVars, autoVars, lock>>

-----------------------------------------------------------------------------
Requests(h) ==
    \/ \E d \in Domains :
          \/ VerifyDomainClaim(h, d)
          \/ \E op \in {"addDomain", "setPrimary", "deleteDomain"} : DomainRequest(h, op, d)
    \/ \E move \in DOMAIN Moves : LifecycleRequest(h, move)
    \/ \E w \in Ws :
          \/ Belongs(w) /\ Manage(h, "archiveWs", [Blank EXCEPT !.w = w])
          \/ InsertRequest(h, "workspace", w, NoOne, "none")
          \/ Belongs(w) /\ InsertRequest(h, "webhook", w, NoOne, "none")
          \/ \E i \in Installations, st \in {"enabled", "disabled"} :
                InsertRequest(h, "installation", w, i, st)
    \/ \E i \in Installations :
          \/ \E op \in {"update", "switch"}, st \in {"enabled", "disabled"} :
                Manage(h, op, [Blank EXCEPT !.i = i, !.to = st])
          \/ \E op \in {"uninstall", "drop"} : Manage(h, op, [Blank EXCEPT !.i = i])
    \/ \E mode \in {"hard", "monitor"}, max \in 1..MaxQuota : QuotaRequest(h, mode, max)

Transactions(h) ==
    \/ ActivateVerifiedDomain(h) \/ ProvisionVerifiedDomain(h)
    \/ CreateAdditionalDomain(h) \/ SetPrimaryDomain(h) \/ DeleteZoneDomain(h)
    \/ SetZoneLifecycle(h) \/ ArchiveWorkspace(h)
    \/ LockQuota(h) \/ CreateWorkspace(h) \/ CreateOutgoing(h)
    \/ CreateAutomationInstallation(h) \/ UpdateAutomationInstallation(h)
    \/ DeleteAutomationInstallation(h) \/ UpdateOutgoing(h) \/ DeleteOutgoing(h)
    \/ UpdateZoneQuota(h) \/ Abort(h)

ZoneNext ==
    \/ \E h \in Handlers : Requests(h) \/ Transactions(h)
    \/ \E d \in Domains : CreateDomainClaim(d) \/ VerificationExpires(d)
    \/ EnsureSelfHostedInstance

ZoneSpec == ZoneInit /\ [][ZoneNext]_tenancyVars

-----------------------------------------------------------------------------
(* Every zone that has been claimed has one primary domain, and once it has  *)
(* been provisioned its clients are sent to that domain.                     *)
OnePrimary ==
    zone.st # "none" =>
        \E d \in Domains :
            /\ {e \in Domains : LiveDomain(e) /\ dom[e].kind = "primary"} = {d}
            /\ zone.st # "provisioning" => (zone.main # 0 /\ url = d)

(* No domain of an archived zone is served, however its verification and its *)
(* archiving overlapped; unless the primary workspace had been deleted, for  *)
(* then a verification provisions anew without looking at the zone.          *)
ArchivedIsDark ==
    zone.st = "archived" /\ HasHome => \A d \in Domains : dom[d].st # "active"

(* A runtime webhook belongs to an installation, and in a zone that is not   *)
(* active it is off, unless a request that was admitted earlier switched it  *)
(* on after the zone had been stopped.                                       *)
HooksFollow ==
    \A i \in Installations :
        /\ runtime[i] # "none" => LiveInst(i)
        /\ runtime[i] = "active" /\ zone.st # "active" => i \in late

(* The state of a zone, its domains and its automations stay consistent      *)
(* under overlapping administrators (modules/tenancy).                       *)
ZoneConsistent == ZoneTypeOK /\ OnePrimary /\ ArchivedIsDark /\ HooksFollow

(* Under a hard quota no insertion goes past the limit in force, although    *)
(* requests count before they hold the quota row and the limit may be        *)
(* lowered below the usage meanwhile (migration 000026, tenancy policy.go).  *)
QuotaHolds ==
    [][\A k \in Kinds : quota.mode = "hard" /\ Counted(k)' > Counted(k)
                        => Counted(k)' <= quota.max]_tenancyVars
=============================================================================
