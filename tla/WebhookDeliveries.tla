-------------------------- MODULE WebhookDeliveries --------------------------
(***************************************************************************)
(* The table webhook_deliveries (modules/webhooks): rows written for an    *)
(* outbox event (the insert EventPipeline models) or by an administrator's *)
(* test, and sent over HTTP by the worker task "webhook_deliveries".       *)
(*                                                                         *)
(* The worker claims a batch under the same kind of lease as the outbox.   *)
(* A test (TestOutgoing) inserts a pending row and sends it at once in the *)
(* request, claiming nothing: a worker may claim the row meanwhile, and    *)
(* both then mark it by id alone.  Meanwhile the webhook is disabled,      *)
(* enabled or deleted, which deletes its rows.                             *)
(***************************************************************************)
EXTENDS Integers, FiniteSets

CONSTANTS
    EventRows,     \* deliveries of outbox events; d < e: d.created_at is earlier
    TestRows,      \* deliveries of TestOutgoing, each with the request that made it
    Hooks, HookOf, \* the outgoing webhook of a row
    NoRow,         \* "no row in hand"
    Workers,       \* worker processes
    Limit,         \* batch size: cfg.Worker.Concurrency * 10
    MaxRetries,    \* maxDeliveryRetries
    MayOverrun,    \* may a batch take longer than the five minutes of a lease?
    FaultBudget    \* bound: crashes and lost statement results

Rows   == EventRows \cup TestRows
Agents == Workers \cup TestRows

ASSUME RowAssumption == /\ EventRows \subseteq Nat /\ TestRows \subseteq Nat
                        /\ EventRows \cap TestRows = {} /\ NoRow \notin Rows
                        /\ HookOf \in [Rows -> Hooks]
                        /\ Workers \cap TestRows = {}
                        /\ IsFiniteSet(Workers) /\ IsFiniteSet(TestRows)
ASSUME BoundAssumption == /\ Limit \in Nat \ {0} /\ MaxRetries \in Nat \ {0}
                          /\ MayOverrun \in BOOLEAN /\ FaultBudget \in Nat

VARIABLES
    hook,       \* outgoing_webhooks.status, or "deleted"
    status,     \* webhook_deliveries.status, "absent" or "deleted"
    attempts,   \* attempt_count
    due,        \* next_attempt_at is NULL or has passed
    stale,      \* updated_at is more than five minutes old
    held,       \* the rows a worker's batch, or a test, has still to send
    current,    \* the row being sent or marked
    pc,         \* loop, accepted (mark success), refused (mark failed)
    requests,   \* history: HTTP requests made for a row
    accepted,   \* history: rows the target answered 2xx
    faults

rowVars   == <<status, attempts, due, stale>>
agentVars == <<held, current, pc>>
history   == <<requests, accepted>>
vars      == <<hook, rowVars, agentVars, history, faults>>

Open    == {"pending", "delivering", "failed"}
Settled == {"success", "dead"}

TypeOK ==
    /\ hook \in [Hooks -> {"active", "disabled", "deleted"}]
    /\ status \in [Rows -> Open \cup Settled \cup {"absent", "deleted"}]
    /\ attempts \in [Rows -> Nat]
    /\ due \in [Rows -> BOOLEAN]
    /\ stale \in [Rows -> BOOLEAN]
    /\ held \in [Agents -> SUBSET Rows]
    /\ current \in [Agents -> Rows \cup {NoRow}]
    /\ pc \in [Agents -> {"loop", "accepted", "refused"}]
    /\ requests \in [Rows -> Nat]
    /\ accepted \subseteq Rows
    /\ faults \in 0..FaultBudget

Init ==
    /\ hook = [h \in Hooks |-> "active"]
    /\ status = [d \in Rows |-> "absent"]
    /\ attempts = [d \in Rows |-> 0]
    /\ due = [d \in Rows |-> TRUE]
    /\ stale = [d \in Rows |-> FALSE]
    /\ held = [a \in Agents |-> {}]
    /\ current = [a \in Agents |-> NoRow]
    /\ pc = [a \in Agents |-> "loop"]
    /\ requests = [d \in Rows |-> 0]
    /\ accepted = {}
    /\ faults = 0

-----------------------------------------------------------------------------
(* Helpers.                                                                *)

(* Mutants: no lease; no recovery of abandoned claims.                     *)
DeliverableWithoutLease(d) == \/ status[d] \in {"pending", "delivering"}
                              \/ status[d] = "failed" /\ due[d]
DeliverableNeverStale(d) == \/ status[d] = "pending"
                            \/ status[d] = "failed" /\ due[d]

(* The WHERE clause of ClaimDeliveries.                                    *)
Deliverable(d) == \/ status[d] = "pending"
                  \/ status[d] = "failed" /\ due[d]
                  \/ status[d] = "delivering" /\ stale[d]

Claimable == {d \in Rows : hook[HookOf[d]] = "active" /\ Deliverable(d)}

Oldest(S, n) == {d \in S : Cardinality({e \in S : e < d}) < n}

Fault == /\ faults < FaultBudget
         /\ faults' = faults + 1

(* An UPDATE ... WHERE id of a row; a deleted row stays deleted, and no    *)
(* caller looks at the number of rows.                                     *)
SetRow(d, newStatus, count, isDue) ==
    IF status[d] = "deleted"
    THEN UNCHANGED rowVars
    ELSE /\ status' = [status EXCEPT ![d] = newStatus]
         /\ attempts' = [attempts EXCEPT ![d] = count]
         /\ due' = [due EXCEPT ![d] = isDue]
         /\ stale' = [stale EXCEPT ![d] = FALSE]

(* Mutant: the attempt that succeeds is not counted.                       *)
SetSuccessUncounted(d) == SetRow(d, "success", attempts[d], TRUE)

SetSuccess(d) == SetRow(d, "success", attempts[d] + 1, TRUE)

(* Mutant: > for >=.                                                       *)
SetFailedLate(d) ==
    IF attempts[d] + 1 > MaxRetries
    THEN SetRow(d, "dead", attempts[d] + 1, TRUE)
    ELSE SetRow(d, "failed", attempts[d] + 1, FALSE)
SetFailed(d) ==
    IF attempts[d] + 1 >= MaxRetries
    THEN SetRow(d, "dead", attempts[d] + 1, TRUE)
    ELSE SetRow(d, "failed", attempts[d] + 1, FALSE)

(* The agent goes on with the rest of its batch.                           *)
Proceed(a) ==
    /\ held' = [held EXCEPT ![a] = @ \ {current[a]}]
    /\ current' = [current EXCEPT ![a] = NoRow]
    /\ pc' = [pc EXCEPT ![a] = "loop"]

(* The agent forgets its batch; the rows keep what they are.               *)
Abandon(a) ==
    /\ held' = [held EXCEPT ![a] = {}]
    /\ current' = [current EXCEPT ![a] = NoRow]
    /\ pc' = [pc EXCEPT ![a] = "loop"]

-----------------------------------------------------------------------------
(* New rows, and the webhook they belong to.                               *)

(* CreateDeliveriesForEvent selects active webhooks.                       *)
RecordEvent(d) ==
    /\ d \in EventRows
    /\ status[d] = "absent"
    /\ hook[HookOf[d]] = "active"
    /\ SetRow(d, "pending", 0, TRUE)
    /\ UNCHANGED <<hook, agentVars, history, faults>>

(* CreateTestDelivery takes any webhook that exists; TestOutgoing has the  *)
(* row in hand without a claim.                                            *)
StartTest(d) ==
    /\ d \in TestRows
    /\ status[d] = "absent"
    /\ hook[HookOf[d]] # "deleted"
    /\ SetRow(d, "pending", 0, TRUE)
    /\ held' = [held EXCEPT ![d] = {d}]
    /\ UNCHANGED <<hook, current, pc, history, faults>>

UpdateHook(h, newStatus) ==
    /\ hook[h] # "deleted"
    /\ hook[h] # newStatus
    /\ hook' = [hook EXCEPT ![h] = newStatus]
    /\ UNCHANGED <<rowVars, agentVars, history, faults>>

(* DELETE, with ON DELETE CASCADE.                                         *)
DeleteHook(h) ==
    /\ hook[h] # "deleted"
    /\ hook' = [hook EXCEPT ![h] = "deleted"]
    /\ status' = [d \in Rows |-> IF HookOf[d] = h /\ status[d] # "absent"
                                 THEN "deleted" ELSE status[d]]
    /\ UNCHANGED <<attempts, due, stale, agentVars, history, faults>>

-----------------------------------------------------------------------------
(* ProcessDeliveries, and the second half of TestOutgoing.                 *)

ClaimRows(S) ==
    /\ S # {}
    /\ status' = [d \in Rows |-> IF d \in S THEN "delivering" ELSE status[d]]
    /\ stale' = [d \in Rows |-> IF d \in S THEN FALSE ELSE stale[d]]
    /\ UNCHANGED <<attempts, due>>

Idle(a) == pc[a] = "loop" /\ held[a] = {}

Claim(w) ==
    /\ w \in Workers /\ Idle(w)
    /\ LET picked == Oldest(Claimable, Limit)
       IN  ClaimRows(picked) /\ held' = [held EXCEPT ![w] = picked]
    /\ UNCHANGED <<hook, current, pc, history, faults>>

(* Mutant: a response that is not 2xx is no error.                         *)
SendAnyResponse(a) ==
    /\ pc[a] = "loop"
    /\ \E d \in held[a] :
          /\ current' = [current EXCEPT ![a] = d]
          /\ requests' = [requests EXCEPT ![d] = @ + 1]
          /\ pc' = [pc EXCEPT ![a] = "accepted"]
          /\ accepted' \in {accepted, accepted \cup {d}}
    /\ UNCHANGED <<hook, rowVars, held, faults>>

(* One HTTP request, to the target and with the secret read by the claim.  *)
(* An error does not tell whether the target has had it.                   *)
Send(a) ==
    /\ pc[a] = "loop"
    /\ \E d \in held[a] :
          /\ current' = [current EXCEPT ![a] = d]
          /\ requests' = [requests EXCEPT ![d] = @ + 1]
          /\ \/ pc' = [pc EXCEPT ![a] = "accepted"] /\ accepted' = accepted \cup {d}
             \/ pc' = [pc EXCEPT ![a] = "refused"] /\ UNCHANGED accepted
    /\ UNCHANGED <<hook, rowVars, held, faults>>

MarkDeliverySuccess(a) ==
    /\ pc[a] = "accepted"
    /\ SetSuccess(current[a])
    /\ Proceed(a)
    /\ UNCHANGED <<hook, history, faults>>

MarkDeliveryFailed(a) ==
    /\ pc[a] = "refused"
    /\ SetFailed(current[a])
    /\ Proceed(a)
    /\ UNCHANGED <<hook, history, faults>>

-----------------------------------------------------------------------------
(* Failures.                                                               *)

ClaimError(w) ==
    /\ Fault
    /\ w \in Workers /\ Idle(w)
    /\ ClaimRows(Oldest(Claimable, Limit))
    /\ UNCHANGED <<hook, agentVars, history>>

(* MarkDeliverySuccess reports an error, with or without effect: the task  *)
(* returns and leaves the rest of its batch claimed.                       *)
SuccessMarkError(a) ==
    /\ Fault
    /\ pc[a] = "accepted"
    /\ SetSuccess(current[a]) \/ UNCHANGED rowVars
    /\ Abandon(a)
    /\ UNCHANGED <<hook, history>>

(* The worker ignores an error of MarkDeliveryFailed and goes on.          *)
FailedMarkError(a) ==
    /\ Fault
    /\ pc[a] = "refused"
    /\ Proceed(a)
    /\ UNCHANGED <<hook, rowVars, history>>

(* The process stops.                                                      *)
Crash(a) ==
    /\ Fault
    /\ ~Idle(a)
    /\ Abandon(a)
    /\ UNCHANGED <<hook, rowVars, history>>

-----------------------------------------------------------------------------
(* Time.                                                                   *)

LeaseRunsOut(d) ==
    /\ status[d] = "delivering" /\ ~stale[d]
    /\ MayOverrun \/ \A w \in Workers : d \notin held[w]
    /\ stale' = [stale EXCEPT ![d] = TRUE]
    /\ UNCHANGED <<hook, status, attempts, due, agentVars, history, faults>>

RetryDelayPasses(d) ==
    /\ status[d] = "failed" /\ ~due[d]
    /\ due' = [due EXCEPT ![d] = TRUE]
    /\ UNCHANGED <<hook, status, attempts, stale, agentVars, history, faults>>

-----------------------------------------------------------------------------
AgentStep(a) == Claim(a) \/ Send(a) \/ MarkDeliverySuccess(a) \/ MarkDeliveryFailed(a)

FaultStep(a) == ClaimError(a) \/ SuccessMarkError(a) \/ FailedMarkError(a) \/ Crash(a)

TimeStep(d) == LeaseRunsOut(d) \/ RetryDelayPasses(d)

HookStep(h) == DeleteHook(h) \/ \E s \in {"active", "disabled"} : UpdateHook(h, s)

Next == \/ \E d \in Rows : RecordEvent(d) \/ StartTest(d) \/ TimeStep(d)
        \/ \E h \in Hooks : HookStep(h)
        \/ \E a \in Agents : AgentStep(a) \/ FaultStep(a)

Spec == Init /\ [][Next]_vars

(* Tasks tick, requests run, time passes; administrators do as they like.  *)
FairSpec == /\ Spec
            /\ \A a \in Agents : WF_vars(AgentStep(a))
            /\ \A d \in Rows : WF_vars(TimeStep(d))

-----------------------------------------------------------------------------
(* Properties.                                                             *)

(* The delivery log does not lie: a delivery that reads "success" was      *)
(* answered 2xx, whoever marked it and in whatever order.                  *)
SuccessWasAccepted ==
    /\ TypeOK
    /\ \A d \in Rows : status[d] = "success" => d \in accepted

(* attempt_count counts the requests the target has seen: two senders of a *)
(* row lose no attempt, and only a fault leaves a request uncounted.       *)
Unmarked(d) == Cardinality({a \in Agents : pc[a] # "loop" /\ current[a] = d})

EveryRequestCounted ==
    \A d \in Rows : status[d] # "deleted" =>
        /\ attempts[d] + Unmarked(d) <= requests[d]
        /\ requests[d] <= attempts[d] + Unmarked(d) + faults

(* A row is given up after MaxRetries attempts and tried as long as it has *)
(* fewer; the delivery of an event is never tried again after that.        *)
RetryAccounting ==
    \A d \in Rows :
        /\ status[d] \in Open => attempts[d] < MaxRetries
        /\ status[d] = "dead" => attempts[d] >= MaxRetries
        /\ d \in EventRows /\ ~MayOverrun => attempts[d] <= MaxRetries

(* What the log of deliveries says is true: success was accepted by the    *)
(* target, every request to it is counted, and a row is given up when its  *)
(* attempts are used up and not before.                                    *)
LogIsTrue == SuccessWasAccepted /\ EveryRequestCounted /\ RetryAccounting

(* The outcome of an event's delivery is final while batches end within    *)
(* their lease: success is not turned into failure and sent again.         *)
OutcomeIsFinal ==
    [][\A d \in EventRows :
          ~MayOverrun /\ status[d] \in Settled => status'[d] \in {status[d], "deleted"}]_vars

(* Once a webhook stays active its deliveries, tests whose request died    *)
(* included, all come to an end.                                           *)
ActiveHookDrains ==
    \A d \in Rows :
        <>[](hook[HookOf[d]] = "active") => <>[](status[d] \notin Open)
=============================================================================
