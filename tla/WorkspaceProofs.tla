---------------------------- MODULE WorkspaceProofs ----------------------------
(***************************************************************************)
(* A zone and its workspaces, for every value of the constants: the        *)
(* deliveries of its webhooks (WebhookDeliveries), its domains, quota and  *)
(* automations (Tenancy), who may do what (Permits), what programs post    *)
(* (Integrations), who is online (Presence), who is notified (Notices).    *)
(***************************************************************************)
EXTENDS WebhookDeliveries, MCTenancy, FiniteSetTheorems, TLAPS

-----------------------------------------------------------------------------
(* The inductive invariant.                                                *)

(* An agent between request and mark has the row in its batch, and marks   *)
(* success only what the target answered 2xx.                              *)
InHand ==
    \A a \in Agents : /\ pc[a] # "loop" => current[a] \in held[a]
                      /\ pc[a] = "accepted" => current[a] \in accepted

(* Only rows that were written are held, a request of an administrator     *)
(* holds only its own test, and nothing is counted before the row exists.  *)
HeldRecorded ==
    /\ \A a \in Agents : \A d \in held[a] : status[d] # "absent"
    /\ \A t \in TestRows : held[t] \subseteq {t}
    /\ \A d \in Rows : status[d] = "absent" => attempts[d] = 0 /\ requests[d] = 0

(* The delivery of an event that is held stays claimed, or was deleted.    *)
Leased ==
    ~MayOverrun => \A a \in Agents : \A d \in held[a] \cap EventRows :
        status[d] = "deleted" \/ (status[d] = "delivering" /\ ~stale[d])

(* No two workers hold the delivery of an event.                           *)
Exclusive ==
    ~MayOverrun => \A a, b \in Agents : a # b => held[a] \cap held[b] \cap EventRows = {}

-----------------------------------------------------------------------------
(* Helpers.                                                                *)

(* A claim only takes rows its WHERE clause allows.                        *)
LEMMA OldestSubset == ASSUME NEW S, NEW n PROVE Oldest(S, n) \subseteq S
  BY DEF Oldest

Statuses == Open \cup Settled \cup {"absent", "deleted"}

RowTypes == /\ status \in [Rows -> Statuses] /\ attempts \in [Rows -> Nat]
            /\ due \in [Rows -> BOOLEAN] /\ stale \in [Rows -> BOOLEAN]

(* An UPDATE of a row keeps the types of the columns.                      *)
LEMMA SetRowType ==
    ASSUME TypeOK, NEW d \in Rows, NEW s \in Statuses, NEW n \in Nat,
           NEW b \in BOOLEAN, SetRow(d, s, n, b)
    PROVE  RowTypes'
<1>1. CASE status[d] = "deleted"
  BY <1>1 DEF SetRow, rowVars, TypeOK, RowTypes, Statuses
<1>2. CASE status[d] # "deleted"
  <2>1. /\ status' = [status EXCEPT ![d] = s] /\ attempts' = [attempts EXCEPT ![d] = n]
        /\ due' = [due EXCEPT ![d] = b] /\ stale' = [stale EXCEPT ![d] = FALSE]
    BY <1>2 DEF SetRow
  <2>2. due' \in [Rows -> BOOLEAN] /\ stale' \in [Rows -> BOOLEAN]
    BY <2>1, Zenon DEF TypeOK
  <2> QED
    BY <2>1, <2>2 DEF TypeOK, RowTypes, Statuses
<1> QED
  BY <1>1, <1>2

(* Marking a row sets its status to the outcome and counts one attempt, or *)
(* does nothing to a row that was deleted.                                 *)
Marked(d, s) ==
    IF status[d] = "deleted"
    THEN UNCHANGED rowVars
    ELSE /\ status' = [status EXCEPT ![d] = s]
         /\ attempts' = [attempts EXCEPT ![d] = attempts[d] + 1]
         /\ s = "dead" => attempts[d] + 1 >= MaxRetries
         /\ s = "failed" => attempts[d] + 1 < MaxRetries

LEMMA MarkEffect ==
    ASSUME TypeOK, NEW d \in Rows, SetSuccess(d) \/ SetFailed(d)
    PROVE  /\ RowTypes'
           /\ SetSuccess(d) => Marked(d, "success")
           /\ SetFailed(d) => \E s \in {"dead", "failed"} : Marked(d, s)
<1>1. attempts[d] \in Nat /\ attempts[d] + 1 \in Nat /\ MaxRetries \in Nat
  <2>1. attempts[d] \in Nat
    BY Zenon DEF TypeOK
  <2> QED
    BY <2>1, BoundAssumption
<1>2. ASSUME SetSuccess(d) PROVE RowTypes' /\ Marked(d, "success")
  <2>1. RowTypes'
    BY <1>1, <1>2, SetRowType DEF SetSuccess, Statuses, Settled
  <2>2. Marked(d, "success")
    BY <1>2 DEF SetSuccess, SetRow, Marked
  <2> QED
    BY <2>1, <2>2
<1>3. ASSUME SetFailed(d) PROVE RowTypes' /\ \E s \in {"dead", "failed"} : Marked(d, s)
  <2>1. \/ attempts[d] + 1 >= MaxRetries /\ SetRow(d, "dead", attempts[d] + 1, TRUE)
        \/ attempts[d] + 1 < MaxRetries /\ SetRow(d, "failed", attempts[d] + 1, FALSE)
    <3>1. \/ attempts[d] + 1 >= MaxRetries
          \/ ~(attempts[d] + 1 >= MaxRetries) /\ attempts[d] + 1 < MaxRetries
      BY <1>1
    <3> QED
      BY <1>3, <3>1, Zenon DEF SetFailed
  <2>2. RowTypes'
    BY <1>1, <2>1, SetRowType DEF Statuses, Settled, Open
  <2>3. Marked(d, "dead") \/ Marked(d, "failed")
    BY <1>1, <2>1 DEF SetRow, Marked
  <2> QED
    BY <2>2, <2>3
<1> QED
  BY <1>2, <1>3

-----------------------------------------------------------------------------
(* Types, the row an agent has in hand, and the rows that are held.        *)

Typed == TypeOK /\ InHand /\ HeldRecorded

(* What an agent that moves on with its batch, or drops it, leaves behind. *)
LEMMA MovesOn ==
    ASSUME TypeOK, NEW a \in Agents, Proceed(a) \/ Abandon(a)
    PROVE  /\ held' \in [Agents -> SUBSET Rows]
           /\ current' \in [Agents -> Rows \cup {NoRow}]
           /\ pc' \in [Agents -> {"loop", "accepted", "refused"}]
           /\ pc'[a] = "loop" /\ held'[a] \subseteq held[a] /\ current[a] \notin held'[a]
           /\ \A b \in Agents \ {a} : /\ held'[b] = held[b] /\ pc'[b] = pc[b]
                                      /\ current'[b] = current[b]
  BY DEF TypeOK, Proceed, Abandon

LEMMA TypedStep == ASSUME Typed, [Next]_vars PROVE Typed'
<1> USE RowAssumption, BoundAssumption DEF Typed, TypeOK
<1>1. ASSUME NEW d \in Rows, RecordEvent(d) PROVE Typed'
  <2>1. RowTypes'
    BY <1>1, SetRowType DEF RecordEvent, Statuses, Open
  <2>2. TypeOK' /\ InHand'
    BY <1>1, <2>1 DEF RecordEvent, agentVars, history, RowTypes, Statuses, InHand
  <2>3. HeldRecorded'
    BY <1>1 DEF RecordEvent, SetRow, agentVars, history, HeldRecorded
  <2> QED
    BY <2>2, <2>3
<1>2. ASSUME NEW d \in Rows, StartTest(d) PROVE Typed'
  <2>1. RowTypes'
    BY <1>2, SetRowType DEF StartTest, Statuses, Open
  <2>2. d \in TestRows /\ d \in Agents /\ held[d] = {}
    BY <1>2 DEF StartTest, Agents, HeldRecorded
  <2>3. pc[d] = "loop"
    BY <2>2 DEF InHand
  <2>4. held' \in [Agents -> SUBSET Rows]
    BY <1>2, <2>2 DEF StartTest
  <2>5. TypeOK'
    BY <1>2, <2>1, <2>4 DEF StartTest, history, RowTypes, Statuses
  <2>6. InHand'
    BY <1>2, <2>2, <2>3 DEF StartTest, history, InHand
  <2>7. status' = [status EXCEPT ![d] = "pending"] /\ attempts' = [attempts EXCEPT ![d] = 0]
    BY <1>2 DEF StartTest, SetRow
  <2>8. HeldRecorded'
    BY <1>2, <2>2, <2>7 DEF StartTest, history, HeldRecorded
  <2> QED
    BY <2>5, <2>6, <2>8
<1>3. ASSUME NEW h \in Hooks, HookStep(h) PROVE Typed'
  <2>1. CASE DeleteHook(h)
    BY <2>1 DEF DeleteHook, agentVars, history, InHand, HeldRecorded, Statuses
  <2>2. ASSUME NEW s \in {"active", "disabled"}, UpdateHook(h, s) PROVE Typed'
    BY <2>2 DEF UpdateHook, rowVars, agentVars, history, InHand, HeldRecorded
  <2> QED
    BY <1>3, <2>1, <2>2 DEF HookStep
<1>4. ASSUME NEW S \in SUBSET Claimable, ClaimRows(S),
             UNCHANGED <<hook, current, pc, history>>, faults' \in 0..FaultBudget,
             \/ held' = held
             \/ \E w \in Workers : held[w] = {} /\ held' = [held EXCEPT ![w] = S]
      PROVE  Typed'
  <2>1. S \subseteq Rows /\ \A d \in S : status[d] # "absent"
    BY DEF Claimable, Deliverable
  <2>2. /\ status' \in [Rows -> Open \cup Settled \cup {"absent", "deleted"}]
        /\ stale' \in [Rows -> BOOLEAN]
        /\ \A d \in Rows : status'[d] = IF d \in S THEN "delivering" ELSE status[d]
    BY <1>4, <2>1 DEF ClaimRows, Open
  <2>3. held' \in [Agents -> SUBSET Rows]
    BY <1>4, <2>1 DEF Agents
  <2>4. TypeOK'
    BY <1>4, <2>2, <2>3 DEF ClaimRows, history
  <2>5. InHand'
    BY <1>4 DEF InHand, history, Agents
  <2>6. HeldRecorded'
    BY <1>4, <2>1, <2>2 DEF HeldRecorded, history, ClaimRows, Agents
  <2> QED
    BY <2>4, <2>5, <2>6
<1>5. ASSUME NEW a \in Agents, Claim(a) PROVE Typed'
  BY <1>4, <1>5, OldestSubset DEF Claim, Idle
<1>6. ASSUME NEW a \in Agents, ClaimError(a) PROVE Typed'
  BY <1>4, <1>6, OldestSubset DEF ClaimError, Fault, agentVars
<1>7. ASSUME NEW a \in Agents, Send(a) PROVE Typed'
  <2>1. PICK d \in held[a] : /\ current' = [current EXCEPT ![a] = d]
                             /\ requests' = [requests EXCEPT ![d] = @ + 1]
                             /\ \/ /\ pc' = [pc EXCEPT ![a] = "accepted"]
                                   /\ accepted' = accepted \cup {d}
                                \/ /\ pc' = [pc EXCEPT ![a] = "refused"]
                                   /\ accepted' = accepted
    BY <1>7 DEF Send
  <2>2. d \in Rows /\ status[d] # "absent"
    BY DEF HeldRecorded
  <2>3. TypeOK'
    BY <1>7, <2>1, <2>2 DEF Send, rowVars
  <2>4. InHand'
    BY <1>7, <2>1 DEF Send, InHand
  <2>5. HeldRecorded'
    BY <1>7, <2>1, <2>2 DEF Send, HeldRecorded, rowVars
  <2> QED
    BY <2>3, <2>4, <2>5
<1>8. ASSUME NEW a \in Agents, Proceed(a) \/ Abandon(a), pc[a] # "loop" \/ UNCHANGED rowVars,
             SetSuccess(current[a]) \/ SetFailed(current[a]) \/ UNCHANGED rowVars,
             UNCHANGED <<hook, history>>, faults' \in 0..FaultBudget
      PROVE  Typed'
  <2>1. RowTypes' /\ \A d \in Rows : status'[d] = "absent"
                        => status[d] = "absent" /\ attempts'[d] = attempts[d]
    <3>1. CASE UNCHANGED rowVars
      BY <3>1 DEF rowVars, RowTypes, Statuses
    <3>2. CASE ~UNCHANGED rowVars
      <4>1. current[a] \in Rows
        BY <1>8, <3>2 DEF InHand
      <4> QED
        BY <1>8, <3>2, <4>1, MarkEffect DEF Marked
    <3> QED
      BY <3>1, <3>2
  <2>2. TypeOK'
    BY <1>8, <2>1, MovesOn DEF RowTypes, Statuses, history
  <2>3. InHand'
    <3> SUFFICES ASSUME NEW b \in Agents, pc'[b] # "loop"
                 PROVE  current'[b] \in held'[b] /\ (pc'[b] = "accepted" => current'[b] \in accepted')
      BY DEF InHand
    <3>1. b # a
      BY <1>8, MovesOn
    <3> QED
      BY <1>8, <3>1, MovesOn DEF InHand, history
  <2>4. \A b \in Agents : held'[b] \subseteq held[b]
    BY <1>8, MovesOn
  <2>5. HeldRecorded'
    <3>1. TestRows \subseteq Agents
      BY DEF Agents
    <3>2. \A b \in Agents : \A d \in held[b] : d \in Rows
      OBVIOUS
    <3> QED
      BY <1>8, <2>1, <2>4, <3>1, <3>2 DEF HeldRecorded, history
  <2> QED
    BY <2>2, <2>3, <2>5
<1>9. ASSUME NEW a \in Agents,
             MarkDeliverySuccess(a) \/ MarkDeliveryFailed(a) \/ SuccessMarkError(a)
                \/ FailedMarkError(a) \/ Crash(a)
      PROVE  Typed'
  BY <1>8, <1>9 DEF MarkDeliverySuccess, MarkDeliveryFailed, SuccessMarkError,
                    FailedMarkError, Crash, Fault
<1>10. ASSUME NEW d \in Rows, TimeStep(d) PROVE Typed'
  <2>1. due' \in [Rows -> BOOLEAN] /\ stale' \in [Rows -> BOOLEAN]
    <3>1. \/ stale' = [stale EXCEPT ![d] = TRUE] /\ due' = due
          \/ due' = [due EXCEPT ![d] = TRUE] /\ stale' = stale
      BY <1>10 DEF TimeStep, LeaseRunsOut, RetryDelayPasses
    <3> QED
      BY <3>1, Zenon
  <2> QED
    BY <1>10, <2>1 DEF TimeStep, LeaseRunsOut, RetryDelayPasses, agentVars, history,
                       InHand, HeldRecorded
<1>11. CASE UNCHANGED vars
  BY <1>11 DEF vars, rowVars, agentVars, history, InHand, HeldRecorded
<1> QED
  BY <1>1, <1>2, <1>3, <1>5, <1>6, <1>7, <1>9, <1>10, <1>11
     DEF Next, AgentStep, FaultStep

LEMMA TypedAlways == Spec => []Typed
<1>1. Init => Typed
  BY RowAssumption, BoundAssumption
     DEF Init, Typed, TypeOK, InHand, HeldRecorded, Agents
<1> QED
  BY <1>1, TypedStep, PTL DEF Spec

(* Every variable keeps its type, whatever happens to workers, tests and   *)
(* webhooks.                                                               *)
THEOREM TypeCorrect == Spec => []TypeOK
  BY TypedAlways, PTL DEF Typed

-----------------------------------------------------------------------------
(* The steps, by what they do to a row.                                    *)

(* An agent with the row in hand records its outcome and one attempt.      *)
Outcome(d) ==
    /\ status[d] # "deleted"
    /\ attempts'[d] = attempts[d] + 1
    /\ \E a \in Agents :
          /\ pc[a] # "loop" /\ current[a] = d /\ d \in held[a]
          /\ \/ pc[a] = "accepted" /\ status'[d] = "success"
             \/ /\ pc[a] = "refused"
                /\ \/ status'[d] = "dead" /\ attempts'[d] >= MaxRetries
                   \/ status'[d] = "failed" /\ attempts'[d] < MaxRetries

RowMove(d) ==
    \/ Outcome(d)
    \/ /\ attempts'[d] = attempts[d]
       /\ \/ status'[d] = status[d]
          \/ status[d] = "absent" /\ status'[d] = "pending" /\ attempts[d] = 0
          \/ d \in Claimable /\ status'[d] = "delivering"
          \/ status[d] # "absent" /\ status'[d] = "deleted"

LEMMA MarkMoves ==
    ASSUME Typed, NEW d \in Rows, NEW a \in Agents,
           \/ pc[a] = "accepted" /\ SetSuccess(current[a])
           \/ pc[a] = "refused" /\ SetFailed(current[a])
    PROVE  RowMove(d)
<1> USE DEF Typed, TypeOK
<1>1. current[a] \in Rows /\ current[a] \in held[a]
  BY DEF InHand
<1>2. PICK s \in {"success", "dead", "failed"} :
         /\ Marked(current[a], s)
         /\ (s = "success") <=> (pc[a] = "accepted")
  BY <1>1, MarkEffect
<1>3. CASE d = current[a] /\ status[d] # "deleted"
  <2>1. status'[d] = s /\ attempts'[d] = attempts[d] + 1
    BY <1>2, <1>3 DEF Marked
  <2>2. /\ s = "dead" => attempts'[d] >= MaxRetries
        /\ s = "failed" => attempts'[d] < MaxRetries
    BY <1>2, <1>3, <2>1 DEF Marked
  <2> QED
    BY <1>1, <1>2, <1>3, <2>1, <2>2 DEF RowMove, Outcome
<1>4. CASE d # current[a] \/ status[d] = "deleted"
  <2>1. status'[d] = status[d] /\ attempts'[d] = attempts[d]
    BY <1>1, <1>2, <1>4 DEF Marked, rowVars
  <2> QED
    BY <2>1 DEF RowMove
<1> QED
  BY <1>3, <1>4

LEMMA RowMoves == ASSUME Typed, [Next]_vars, NEW d \in Rows PROVE RowMove(d)
<1> USE DEF Typed
<1>1. ASSUME NEW e \in Rows, RecordEvent(e) \/ StartTest(e) PROVE RowMove(d)
  BY <1>1 DEF RecordEvent, StartTest, SetRow, RowMove, HeldRecorded, TypeOK
<1>2. ASSUME NEW a \in Agents, Claim(a) \/ ClaimError(a) PROVE RowMove(d)
  <2>1. PICK S \in SUBSET Claimable : ClaimRows(S)
    BY <1>2, OldestSubset DEF Claim, ClaimError
  <2> QED
    BY <2>1 DEF ClaimRows, RowMove
<1>3. ASSUME NEW a \in Agents,
             MarkDeliverySuccess(a) \/ MarkDeliveryFailed(a) \/ SuccessMarkError(a)
      PROVE  RowMove(d)
  <2>1. CASE UNCHANGED rowVars
    BY <2>1 DEF RowMove, rowVars
  <2>2. CASE ~UNCHANGED rowVars
    BY <1>3, <2>2, MarkMoves
       DEF MarkDeliverySuccess, MarkDeliveryFailed, SuccessMarkError
  <2> QED
    BY <2>1, <2>2
<1>4. ASSUME NEW h \in Hooks, DeleteHook(h) PROVE RowMove(d)
  BY <1>4 DEF DeleteHook, RowMove
<1>5. CASE UNCHANGED <<status, attempts>>
  BY <1>5 DEF RowMove
<1> QED
  BY <1>1, <1>2, <1>3, <1>4, <1>5
     DEF Next, vars, rowVars, AgentStep, FaultStep, TimeStep, HookStep, UpdateHook,
         Send, FailedMarkError, Crash, LeaseRunsOut, RetryDelayPasses

-----------------------------------------------------------------------------
(* The log does not lie.                                                   *)

(* A delivery that reads "success" was answered 2xx: what the target has   *)
(* accepted only grows, and only an agent that saw it accepted says so.    *)
THEOREM SuccessWasAcceptedAlways == Spec => []SuccessWasAccepted
<1>1. Typed /\ Init => SuccessWasAccepted
  BY DEF Init, SuccessWasAccepted, Typed
<1>2. Typed /\ Typed' /\ SuccessWasAccepted /\ [Next]_vars => SuccessWasAccepted'
  <2> SUFFICES ASSUME Typed, Typed', SuccessWasAccepted, [Next]_vars
               PROVE  SuccessWasAccepted'
    OBVIOUS
  <2> USE DEF Typed, SuccessWasAccepted
  <2>1. accepted \subseteq accepted'
    BY DEF Next, vars, rowVars, agentVars, history, AgentStep, FaultStep, TimeStep,
           HookStep, UpdateHook, DeleteHook, RecordEvent, StartTest, Claim, Send,
           MarkDeliverySuccess, MarkDeliveryFailed, ClaimError, SuccessMarkError,
           FailedMarkError, Crash, LeaseRunsOut, RetryDelayPasses
  <2>2. ASSUME NEW d \in Rows, status'[d] = "success" PROVE d \in accepted'
    <3>1. RowMove(d)
      BY RowMoves
    <3>2. status[d] = "success" \/ \E a \in Agents : pc[a] = "accepted" /\ current[a] = d
      BY <2>2, <3>1 DEF RowMove, Outcome
    <3> QED
      BY <2>1, <3>2 DEF InHand
  <2> QED
    BY <2>2
<1> QED
  BY <1>1, <1>2, TypedAlways, PTL DEF Spec

-----------------------------------------------------------------------------
(* The lease.                                                              *)

(* What happens to a row that is held, in a step that leaves it held.      *)
LEMMA LeaseStep ==
    ASSUME ~MayOverrun, Typed, Typed', Leased, Exclusive, [Next]_vars
    PROVE  Leased' /\ Exclusive'
<1> USE RowAssumption DEF Typed, TypeOK
<1>1. ASSUME NEW a \in Agents, Claim(a) PROVE Leased' /\ Exclusive'
  <2> DEFINE picked == Oldest(Claimable, Limit)
  <2>1. picked \subseteq Claimable /\ picked \subseteq Rows
    BY OldestSubset DEF Claimable
  <2>2. \A b \in Agents : held[b] \cap picked \cap EventRows = {}
    BY <1>1, <2>1 DEF Claimable, Deliverable, Leased
  <2>3. held' = [held EXCEPT ![a] = picked] /\ ClaimRows(picked) /\ a \in Workers
    BY <1>1 DEF Claim
  <2> HIDE DEF picked
  <2>4. Leased'
    BY <1>1, <2>1, <2>2, <2>3 DEF Leased, ClaimRows
  <2>5. Exclusive'
    BY <1>1, <2>2, <2>3 DEF Exclusive
  <2> QED
    BY <2>4, <2>5
<1>2. ASSUME NEW a \in Agents, ClaimError(a) PROVE Leased' /\ Exclusive'
  <2>1. held' = held
    BY <1>2 DEF ClaimError, agentVars
  <2>2. PICK S \in SUBSET Claimable : ClaimRows(S)
    BY <1>2, OldestSubset DEF ClaimError
  <2>3. Leased'
    BY <2>1, <2>2 DEF Leased, ClaimRows, Claimable, Deliverable
  <2> QED
    BY <2>1, <2>3 DEF Exclusive
<1>3. ASSUME NEW a \in Agents, pc[a] # "loop" \/ UNCHANGED rowVars, Proceed(a) \/ Abandon(a),
             SetSuccess(current[a]) \/ SetFailed(current[a]) \/ UNCHANGED rowVars
      PROVE  Leased' /\ Exclusive'
  <2>1. \A b \in Agents : held'[b] \subseteq held[b]
    BY <1>3, MovesOn
  <2>2. Exclusive'
    BY <2>1 DEF Exclusive
  <2>3. ASSUME ~UNCHANGED rowVars, NEW b \in Agents, NEW d \in held'[b] \cap EventRows
        PROVE  status'[d] = status[d] /\ stale'[d] = stale[d]
    <3>1. current[a] \in held[a] /\ current[a] \in Rows
      BY <1>3, <2>3 DEF InHand
    <3>2. d # current[a]
      BY <1>3, <2>1, <2>3, <3>1, MovesOn DEF Exclusive
    <3> QED
      BY <1>3, <2>3, <3>1, <3>2 DEF SetSuccess, SetFailed, SetRow, rowVars
  <2>4. Leased'
    <3>1. CASE UNCHANGED rowVars
      BY <2>1, <3>1 DEF Leased, rowVars
    <3>2. CASE ~UNCHANGED rowVars
      BY <2>1, <2>3, <3>2 DEF Leased
    <3> QED
      BY <3>1, <3>2
  <2> QED
    BY <2>2, <2>4
<1>4. ASSUME NEW d \in Rows, RecordEvent(d) PROVE Leased' /\ Exclusive'
  BY <1>4 DEF RecordEvent, SetRow, agentVars, Leased, Exclusive, HeldRecorded
<1>5. ASSUME NEW d \in Rows, StartTest(d) PROVE Leased' /\ Exclusive'
  <2>1. /\ d \notin EventRows /\ d \in Agents /\ held' = [held EXCEPT ![d] = {d}]
        /\ \A e \in Rows \ {d} : status'[e] = status[e] /\ stale'[e] = stale[e]
    BY <1>5 DEF StartTest, SetRow, Agents
  <2> QED
    BY <2>1 DEF Leased, Exclusive
<1>6. ASSUME NEW h \in Hooks, DeleteHook(h) PROVE Leased' /\ Exclusive'
  BY <1>6 DEF DeleteHook, agentVars, Leased, Exclusive
<1>7. ASSUME NEW d \in Rows, LeaseRunsOut(d) PROVE Leased' /\ Exclusive'
  <2>1. \A a \in Agents : d \in held[a] => d \notin EventRows
    <3>1. \A w \in Workers : d \notin held[w]
      BY <1>7 DEF LeaseRunsOut
    <3>2. \A t \in TestRows : d \in held[t] => d = t
      BY DEF HeldRecorded
    <3> QED
      BY <3>1, <3>2 DEF Agents
  <2> QED
    BY <1>7, <2>1 DEF LeaseRunsOut, agentVars, Leased, Exclusive
<1>8. CASE UNCHANGED <<status, stale, held>>
  BY <1>8 DEF Leased, Exclusive
<1> QED
  BY <1>1, <1>2, <1>3, <1>4, <1>5, <1>6, <1>7, <1>8
     DEF Next, vars, rowVars, agentVars, AgentStep, FaultStep, TimeStep, HookStep,
         UpdateHook, Send, MarkDeliverySuccess, MarkDeliveryFailed, SuccessMarkError,
         FailedMarkError, Crash, RetryDelayPasses

LEMMA LeaseInvariant == Spec => [](Leased /\ Exclusive)
<1>1. Init => Leased /\ Exclusive
  BY DEF Init, Leased, Exclusive, Agents
<1>2. Typed /\ Typed' /\ Leased /\ Exclusive /\ [Next]_vars => Leased' /\ Exclusive'
  <2>1. CASE MayOverrun
    BY <2>1 DEF Leased, Exclusive
  <2>2. CASE ~MayOverrun
    BY <2>2, LeaseStep
  <2> QED
    BY <2>1, <2>2
<1> QED
  BY <1>1, <1>2, TypedAlways, PTL DEF Spec

-----------------------------------------------------------------------------
(* The attempts.                                                           *)

InFlight(d) == {a \in Agents : pc[a] # "loop" /\ current[a] = d}

LEMMA InFlightFinite == ASSUME NEW d PROVE IsFiniteSet(InFlight(d)) /\ Unmarked(d) \in Nat
<1>1. IsFiniteSet(Agents)
  BY RowAssumption, FS_Union DEF Agents
<1>2. InFlight(d) \subseteq Agents
  BY DEF InFlight
<1>3. IsFiniteSet(InFlight(d))
  BY <1>1, <1>2, FS_Subset
<1> QED
  BY <1>3, FS_CardinalityType DEF InFlight, Unmarked

(* Sending puts the agent among those that have the row in flight, moving  *)
(* on takes it away, and both leave every other row alone.                 *)
LEMMA UnmarkedSteps ==
    ASSUME TypeOK, NEW a \in Agents, NEW d \in Rows,
           \A b \in Agents \ {a} : pc'[b] = pc[b] /\ current'[b] = current[b]
    PROVE  /\ pc[a] = "loop" /\ pc'[a] # "loop"
              => Unmarked(d)' = IF current'[a] = d THEN Unmarked(d) + 1 ELSE Unmarked(d)
           /\ pc[a] # "loop" /\ pc'[a] = "loop"
              => Unmarked(d)' = IF current[a] = d THEN Unmarked(d) - 1 ELSE Unmarked(d)
           /\ pc[a] = "loop" /\ pc'[a] = "loop" => Unmarked(d)' = Unmarked(d)
<1> USE DEF InFlight
<1>1. /\ IsFiniteSet(InFlight(d)) /\ Unmarked(d) = Cardinality(InFlight(d))
      /\ Unmarked(d)' = Cardinality(InFlight(d)')
  BY InFlightFinite DEF Unmarked
<1>2. CASE pc[a] = "loop" /\ pc'[a] # "loop"
  <2>1. a \notin InFlight(d)
        /\ InFlight(d)' = IF current'[a] = d THEN InFlight(d) \cup {a} ELSE InFlight(d)
    BY <1>2
  <2> QED
    BY <1>1, <1>2, <2>1, FS_AddElement
<1>3. CASE pc[a] # "loop" /\ pc'[a] = "loop"
  <2>1. InFlight(d)' = IF current[a] = d THEN InFlight(d) \ {a} ELSE InFlight(d)
    BY <1>3
  <2>2. current[a] = d => a \in InFlight(d)
    BY <1>3
  <2> QED
    BY <1>1, <1>3, <2>1, <2>2, FS_RemoveElement
<1>4. CASE pc[a] = "loop" /\ pc'[a] = "loop"
  <2>1. InFlight(d)' = InFlight(d)
    BY <1>4
  <2> QED
    BY <1>1, <1>4, <2>1
<1> QED
  BY <1>2, <1>3, <1>4

WellCounted(d) ==
    status[d] # "deleted" =>
        /\ attempts[d] + Unmarked(d) <= requests[d]
        /\ requests[d] <= attempts[d] + Unmarked(d) + faults

LEMMA CountStep ==
    ASSUME Typed, Typed', EveryRequestCounted, [Next]_vars PROVE EveryRequestCounted'
<1> SUFFICES ASSUME NEW d \in Rows, status'[d] # "deleted" PROVE WellCounted(d)'
  BY DEF EveryRequestCounted, WellCounted
<1> USE DEF Typed
<1>1. /\ attempts[d] \in Nat /\ requests[d] \in Nat /\ attempts'[d] \in Nat
      /\ requests'[d] \in Nat /\ faults \in Nat /\ faults' \in Nat
  <2>1. /\ attempts[d] \in Nat /\ requests[d] \in Nat /\ attempts'[d] \in Nat
        /\ requests'[d] \in Nat
    BY Zenon DEF TypeOK
  <2> QED
    BY <2>1, BoundAssumption DEF TypeOK
<1>2. Unmarked(d) \in Nat /\ Unmarked(d)' \in Nat
  <2>1. Unmarked(d) \in Nat
    BY InFlightFinite
  <2>2. IsFiniteSet(Agents) /\ {a \in Agents : pc'[a] # "loop" /\ current'[a] = d} \subseteq Agents
    BY RowAssumption, FS_Union DEF Agents
  <2>3. Unmarked(d)' \in Nat
    BY <2>2, FS_Subset, FS_CardinalityType DEF Unmarked
  <2> QED
    BY <2>1, <2>3
<1>3. RowMove(d)
  BY RowMoves
<1>4. status[d] # "deleted" /\ WellCounted(d)
  BY <1>3 DEF RowMove, Outcome, EveryRequestCounted, WellCounted, Claimable, Deliverable
<1>5. /\ attempts[d] + Unmarked(d) <= requests[d]
      /\ requests[d] <= attempts[d] + Unmarked(d) + faults
  BY <1>4 DEF WellCounted
<1>6. ASSUME NEW a \in Agents, Send(a) PROVE WellCounted(d)'
  <2>1. /\ pc[a] = "loop" /\ pc'[a] # "loop" /\ attempts'[d] = attempts[d] /\ faults' = faults
        /\ \A b \in Agents \ {a} : pc'[b] = pc[b] /\ current'[b] = current[b]
        /\ requests'[d] = IF current'[a] = d THEN requests[d] + 1 ELSE requests[d]
    BY <1>6 DEF Send, TypeOK, rowVars
  <2>2. Unmarked(d)' = IF current'[a] = d THEN Unmarked(d) + 1 ELSE Unmarked(d)
    BY <2>1, UnmarkedSteps
  <2> QED
    BY <1>1, <1>2, <1>5, <2>1, <2>2 DEF WellCounted
<1>7. ASSUME NEW a \in Agents,
             MarkDeliverySuccess(a) \/ MarkDeliveryFailed(a) \/ SuccessMarkError(a)
                \/ FailedMarkError(a) \/ Crash(a)
      PROVE  WellCounted(d)'
  <2>1. /\ pc'[a] = "loop" /\ requests' = requests
        /\ \A b \in Agents \ {a} : pc'[b] = pc[b] /\ current'[b] = current[b]
    BY <1>7, MovesOn DEF MarkDeliverySuccess, MarkDeliveryFailed, SuccessMarkError,
                         FailedMarkError, Crash, history
  <2>2. CASE pc[a] # "loop" /\ current[a] = d
    <3>1. Unmarked(d)' = Unmarked(d) - 1
      BY <2>1, <2>2, UnmarkedSteps
    <3>2. \/ attempts'[d] = attempts[d] + 1 /\ faults' \in {faults, faults + 1}
          \/ attempts'[d] = attempts[d] /\ faults' = faults + 1
      BY <1>4, <1>7, <2>2
         DEF MarkDeliverySuccess, MarkDeliveryFailed, SuccessMarkError, FailedMarkError,
             Crash, SetSuccess, SetFailed, SetRow, Fault, rowVars, TypeOK
    <3> QED
      BY <1>1, <1>2, <1>5, <2>1, <3>1, <3>2 DEF WellCounted
  <2>3. CASE pc[a] = "loop" \/ current[a] # d
    <3>1. Unmarked(d)' = Unmarked(d)
      BY <2>1, <2>3, UnmarkedSteps
    <3>2. attempts'[d] = attempts[d]
      BY <1>7, <2>3
         DEF MarkDeliverySuccess, MarkDeliveryFailed, SuccessMarkError, FailedMarkError,
             Crash, SetSuccess, SetFailed, SetRow, rowVars, TypeOK
    <3>3. faults' \in {faults, faults + 1}
      BY <1>7 DEF MarkDeliverySuccess, MarkDeliveryFailed, SuccessMarkError,
                  FailedMarkError, Crash, Fault
    <3> QED
      BY <1>1, <1>2, <1>5, <2>1, <3>1, <3>2, <3>3 DEF WellCounted
  <2> QED
    BY <2>2, <2>3
<1>8. CASE UNCHANGED <<pc, current, requests>> /\ attempts'[d] = attempts[d]
           /\ faults' \in {faults, faults + 1}
  <2>1. Unmarked(d)' = Unmarked(d)
    BY <1>8 DEF Unmarked
  <2> QED
    BY <1>1, <1>2, <1>5, <1>8, <2>1 DEF WellCounted
<1>9. ASSUME NEW e \in Rows, RecordEvent(e) \/ StartTest(e) PROVE WellCounted(d)'
  <2>1. attempts'[d] = attempts[d]
    BY <1>9 DEF RecordEvent, StartTest, SetRow, HeldRecorded, TypeOK
  <2> QED
    BY <1>8, <1>9, <2>1 DEF RecordEvent, StartTest, agentVars, history
<1> QED
  BY <1>6, <1>7, <1>8, <1>9
     DEF Next, vars, rowVars, agentVars, history, AgentStep, FaultStep, TimeStep, HookStep,
         UpdateHook, DeleteHook, Claim, ClaimError, ClaimRows, LeaseRunsOut,
         RetryDelayPasses, Fault

(* attempt_count counts the requests the target has seen: two senders of a *)
(* row lose no attempt, and only a fault leaves a request uncounted.       *)
THEOREM EveryRequestCountedAlways == Spec => []EveryRequestCounted
<1>1. Init => EveryRequestCounted
  <2> SUFFICES ASSUME Init, NEW d \in Rows PROVE Unmarked(d) = 0
    BY DEF Init, EveryRequestCounted
  <2>1. {a \in Agents : pc[a] # "loop" /\ current[a] = d} = {}
    BY DEF Init
  <2> QED
    BY <2>1, FS_EmptySet DEF Unmarked
<1> QED
  BY <1>1, CountStep, TypedAlways, PTL DEF Spec

(* A row is given up after MaxRetries attempts and tried as long as it has *)
(* fewer; the delivery of an event is never tried again after that.        *)
THEOREM RetryAccountingAlways == Spec => []RetryAccounting
<1>1. Init => RetryAccounting
  BY BoundAssumption DEF Init, RetryAccounting, Open
<1>2. Typed /\ Typed' /\ Leased /\ RetryAccounting /\ [Next]_vars => RetryAccounting'
  <2> SUFFICES ASSUME Typed, Typed', Leased, RetryAccounting, [Next]_vars, NEW d \in Rows
               PROVE  /\ status'[d] \in Open => attempts'[d] < MaxRetries
                      /\ status'[d] = "dead" => attempts'[d] >= MaxRetries
                      /\ d \in EventRows /\ ~MayOverrun => attempts'[d] <= MaxRetries
    BY DEF RetryAccounting
  <2>1. attempts[d] \in Nat /\ attempts'[d] \in Nat /\ MaxRetries \in Nat \ {0}
    <3>1. attempts[d] \in Nat /\ attempts'[d] \in Nat
      BY Zenon DEF Typed, TypeOK
    <3> QED
      BY <3>1, BoundAssumption
  <2>2. CASE Outcome(d)
    <3>1. d \in EventRows /\ ~MayOverrun => attempts[d] < MaxRetries
      BY <2>2 DEF Outcome, Leased, RetryAccounting, Open
    <3> QED
      BY <2>1, <2>2, <3>1 DEF Outcome, Open
  <2>3. CASE ~Outcome(d)
    <3>1. RowMove(d)
      BY RowMoves
    <3>2. d \in Claimable => attempts[d] < MaxRetries
      BY DEF Claimable, Deliverable, RetryAccounting, Open
    <3> QED
      BY <2>1, <2>3, <3>1, <3>2 DEF RowMove, RetryAccounting, Open
  <2> QED
    BY <2>2, <2>3
<1> QED
  BY <1>1, <1>2, TypedAlways, LeaseInvariant, PTL DEF Spec

(* What the log of deliveries says is true: success was accepted by the    *)
(* target, every request is counted, and a row is given up when its        *)
(* attempts are used up and not before.                                    *)
THEOREM LogIsTrueAlways == Spec => []LogIsTrue
  BY SuccessWasAcceptedAlways, EveryRequestCountedAlways, RetryAccountingAlways, PTL
     DEF LogIsTrue

(* The outcome of an event's delivery is final while batches end within    *)
(* their lease, although the marks address the row by id alone.            *)
THEOREM OutcomeStaysFinal == Spec => OutcomeIsFinal
<1> DEFINE A == \A d \in EventRows :
                   ~MayOverrun /\ status[d] \in Settled => status'[d] \in {status[d], "deleted"}
<1>1. Typed /\ Leased /\ [Next]_vars => [A]_vars
  <2> SUFFICES ASSUME Typed, Leased, [Next]_vars, NEW d \in EventRows, ~MayOverrun,
                      status[d] \in Settled
               PROVE  status'[d] \in {status[d], "deleted"}
    OBVIOUS
  <2>1. d \in Rows /\ RowMove(d)
    BY RowMoves DEF Rows
  <2>2. ~Outcome(d)
    BY DEF Outcome, Leased, Settled
  <2> QED
    BY <2>1, <2>2 DEF RowMove, Claimable, Deliverable, Settled
<1> QED
  BY <1>1, TypedAlways, LeaseInvariant, PTL DEF Spec, OutcomeIsFinal

-----------------------------------------------------------------------------
(***************************************************************************)
(* A zone: one primary domain, nothing served once it is archived, runtime *)
(* webhooks that follow their installations.                               *)

(* What a request has in hand at each of its steps.                        *)
Fit(s, r) ==
    /\ s \in Steps
    /\ s \in {"activate", "provision"} => r.d \in Domains
    /\ s \in {"lock", "insert"} =>
          /\ r.op \in Kinds /\ r.w \in Ws
          /\ r.op = "installation" => r.i \in Installations /\ r.to \in {"enabled", "disabled"}
    /\ s = "run" =>
          /\ r.op \in {"addDomain", "setPrimary", "deleteDomain"} => r.d \in Domains
          /\ r.op = "lifecycle" => r.to \in {"suspend", "resume", "archive"}
          /\ r.op = "archiveWs" => r.w \in Ws
          /\ r.op \in {"update", "switch", "uninstall", "drop"} => r.i \in Installations
          /\ r.op \in {"update", "switch"} => r.to \in {"enabled", "disabled"}
          /\ r.op = "quota" => r.to \in {"hard", "monitor"} /\ r.n \in 1..MaxQuota

HandsFit ==
    /\ DOMAIN stage = Handlers /\ DOMAIN req = Handlers
    /\ \A h \in Handlers : Fit(stage[h], req[h])

ZoneRows == zone \in [st : {"none", "provisioning", "active", "suspended", "archived"}, main : 0..MaxWs]

(* Before the zone is claimed nothing is under way; before it is           *)
(* provisioned, only that; its primary workspace has its slug.             *)
Started ==
    /\ zone.st = "none" => /\ url = NoDomain /\ \A d \in Domains : dom[d].st = "none"
                           /\ \A h \in Handlers : stage[h] = "idle"
    /\ zone.st = "provisioning" =>
          /\ url = NoDomain
          /\ \A h \in Handlers : stage[h] \in {"idle", "provision"}
          /\ \A d, e \in Domains : LiveDomain(d) /\ LiveDomain(e) => d = e
    /\ selfHosted => zone.st \notin {"none", "provisioning"}
    /\ zone.main # 0 => zone.main \in slugged /\ ws[zone.main] # "none"

ZoneInv ==
    /\ ZoneTypeOK /\ ZoneRows /\ HandsFit /\ Started
    /\ OnePrimary /\ ArchivedIsDark /\ HooksFollow

(* The primary domain, stated of one domain after another.                 *)
Primary(d) ==
    /\ \A e \in Domains : LiveDomain(e) /\ dom[e].kind = "primary" <=> e = d
    /\ zone.st # "provisioning" => zone.main # 0 /\ url = d

LEMMA OnePrimaryIs == OnePrimary <=> (zone.st # "none" => \E d \in Domains : Primary(d))
<1>1. \A d \in Domains :
         {e \in Domains : LiveDomain(e) /\ dom[e].kind = "primary"} = {d} <=>
         \A e \in Domains : LiveDomain(e) /\ dom[e].kind = "primary" <=> e = d
  OBVIOUS
<1> QED
  BY <1>1 DEF OnePrimary, Primary

LEMMA ZoneStarts == ZoneInit => ZoneInv
<1> SUFFICES ASSUME ZoneInit PROVE ZoneInv
  OBVIOUS
<1>1. PICK d \in Domains :
         /\ zone = IF selfHosted THEN [st |-> "active", main |-> 1]
                                 ELSE [st |-> "none", main |-> 0]
         /\ url = IF selfHosted THEN d ELSE NoDomain
         /\ dom = [e \in Domains |-> IF selfHosted /\ e = d
                                     THEN [st |-> "active", kind |-> "primary"]
                                     ELSE [st |-> "none", kind |-> "alias"]]
  BY DEF ZoneInit
<1>2. 1 \in Ws /\ MaxQuota \in 1..MaxQuota /\ 0 \in 0..MaxWs /\ 1 \in 0..MaxWs
  BY ZoneBounds DEF Ws
<1>3. ZoneRows
  BY <1>1, <1>2 DEF ZoneRows
<1>4. ZoneTypeOK
  <2>1. dom \in [Domains -> [st : {"none", "pending", "active", "suspended", "deleted"},
                             kind : {"primary", "alias"}]]
    BY <1>1
  <2>2. url \in Domains \cup {NoDomain}
    BY <1>1
  <2>3. quota \in [mode : {"hard", "monitor"}, max : 1..MaxQuota]
    BY <1>2 DEF ZoneInit
  <2>4. ws \in [Ws -> {"none", "active", "suspended", "archived", "gone"}] /\ slugged \subseteq Ws
    BY <1>2 DEF ZoneInit
  <2>5. home \in [Installations -> 0..MaxWs] /\ plain \in [Webhooks -> 0..MaxWs]
    BY <1>2 DEF ZoneInit
  <2> QED
    BY <1>3, <2>1, <2>2, <2>3, <2>4, <2>5 DEF ZoneInit, ZoneTypeOK, ZoneRows, Steps
<1>5. HandsFit
  BY DEF ZoneInit, HandsFit, Fit, Steps
<1>6. Started
  BY <1>1, <1>2 DEF ZoneInit, Started
<1>7. OnePrimary
  <2>1. zone.st # "none" => Primary(d)
    BY <1>1 DEF Primary, LiveDomain
  <2> QED
    BY <2>1, OnePrimaryIs
<1>8. ArchivedIsDark /\ HooksFollow
  BY <1>1 DEF ZoneInit, ArchivedIsDark, HooksFollow
<1> QED
  BY <1>3, <1>4, <1>5, <1>6, <1>7, <1>8 DEF ZoneInv

-----------------------------------------------------------------------------
(* Every step does nothing to domains, workspaces and the zone, or is one  *)
(* of these.                                                               *)
ZoneStep ==
    \/ UNCHANGED <<zone, url, dom, ws, slugged>>
    \/ \E d \in Domains : CreateDomainClaim(d)
    \/ EnsureSelfHostedInstance
    \/ \E h \in Handlers :
          \/ ActivateVerifiedDomain(h) \/ ProvisionVerifiedDomain(h)
          \/ CreateAdditionalDomain(h) \/ SetPrimaryDomain(h) \/ DeleteZoneDomain(h)
          \/ SetZoneLifecycle(h) \/ ArchiveWorkspace(h) \/ CreateWorkspace(h)

(* A request is admitted and changes nothing else; a transaction ends its  *)
(* request, unless it has only got hold of the quota.                      *)
LEMMA RequestsAdmit == ASSUME NEW h, Requests(h) PROVE \E s, r : Admit(h, s, r)
BY DEF Requests, VerifyDomainClaim, DomainRequest, Manage, LifecycleRequest, InsertRequest, QuotaRequest

LEMMA TransactionsEnd == ASSUME NEW h, Transactions(h) PROVE Done(h) \/ LockQuota(h)
BY DEF Transactions, ActivateVerifiedDomain, ProvisionVerifiedDomain, CreateAdditionalDomain,
   SetPrimaryDomain, DeleteZoneDomain, SetZoneLifecycle, ArchiveWorkspace, CreateWorkspace,
   CreateOutgoing, CreateAutomationInstallation, UpdateAutomationInstallation,
   DeleteAutomationInstallation, UpdateOutgoing, DeleteOutgoing, UpdateZoneQuota, Abort, Inserting

LEMMA ZoneSteps == ASSUME [ZoneNext]_tenancyVars PROVE ZoneStep
<1>1. CASE UNCHANGED tenancyVars
  BY <1>1 DEF tenancyVars, zoneVars, wsVars, ZoneStep
<1>2. ASSUME NEW h \in Handlers, Requests(h) PROVE ZoneStep
  BY <1>2, RequestsAdmit DEF Admit, zoneVars, wsVars, ZoneStep
<1>3. ASSUME NEW h \in Handlers, Transactions(h) PROVE ZoneStep
  BY <1>3 DEF Transactions, LockQuota, CreateOutgoing, CreateAutomationInstallation,
     UpdateAutomationInstallation, DeleteAutomationInstallation, UpdateOutgoing, DeleteOutgoing,
     UpdateZoneQuota, Abort, zoneVars, wsVars, ZoneStep
<1>4. ASSUME NEW d \in Domains, VerificationExpires(d) PROVE ZoneStep
  BY <1>4 DEF VerificationExpires, wsVars, ZoneStep
<1> QED
  BY <1>1, <1>2, <1>3, <1>4 DEF ZoneNext, ZoneStep

(* A request is admitted, goes on to its insertion, or is over.            *)
Goes(h, s, r) ==
    /\ DOMAIN stage' = Handlers /\ DOMAIN req' = Handlers /\ Fit(s, r)
    /\ \A g \in Handlers : /\ stage'[g] = IF g = h THEN s ELSE stage[g]
                          /\ req'[g] = IF g = h THEN r ELSE req[g]
    /\ \/ s = "idle"
       \/ stage[h] = "lock" /\ s = "insert"
       \/ zone.st = "provisioning" /\ s = "provision"
       \/ zone.st \notin {"none", "provisioning"}

LEMMA Admitted ==
    ASSUME HandsFit, NEW h \in Handlers, NEW s, NEW r, Admit(h, s, r), Fit(s, r),
           \/ zone.st = "provisioning" /\ s = "provision"
           \/ zone.st \notin {"none", "provisioning"}
    PROVE  \E t, q : Goes(h, t, q)
<1>1. Goes(h, s, r)
  BY DEF Admit, HandsFit, Goes
<1> QED
  BY <1>1

LEMMA RequestsGo ==
    ASSUME HandsFit, Started, NEW h \in Handlers, Requests(h)
    PROVE  \E s, r : Goes(h, s, r)
<1>1. Blank.op = "none"
  BY DEF Blank
<1>2. ASSUME NEW d \in Domains, VerifyDomainClaim(h, d) PROVE \E s, r : Goes(h, s, r)
  <2> DEFINE s == IF zone.st = "active" /\ HasHome THEN "activate" ELSE "provision"
             r == [Blank EXCEPT !.op = "verify", !.d = d]
  <2>1. Admit(h, s, r) /\ dom[d].st = "pending"
    BY <1>2 DEF VerifyDomainClaim
  <2>2. Fit(s, r)
    BY DEF Fit, Blank, Steps
  <2>3. zone.st # "none" /\ (zone.st = "provisioning" => s = "provision")
    BY <2>1 DEF Started
  <2> QED
    BY <2>1, <2>2, <2>3, Admitted
<1>3. ASSUME NEW r, NEW op, Manage(h, op, r), Fit("run", [r EXCEPT !.op = op])
      PROVE  \E s, q : Goes(h, s, q)
  <2>1. zone.st \notin {"none", "provisioning"} /\ Admit(h, "run", [r EXCEPT !.op = op])
    BY <1>3 DEF Manage, Serving
  <2> QED
    BY <1>3, <2>1, Admitted
<1>4. ASSUME NEW d \in Domains, NEW op \in {"addDomain", "setPrimary", "deleteDomain"},
             DomainRequest(h, op, d)
      PROVE  \E s, r : Goes(h, s, r)
  <2>1. Fit("run", [[Blank EXCEPT !.d = d] EXCEPT !.op = op])
    BY DEF Fit, Blank, Steps
  <2> QED
    BY <1>3, <1>4, <2>1 DEF DomainRequest
<1>5. ASSUME NEW move \in DOMAIN Moves, LifecycleRequest(h, move) PROVE \E s, r : Goes(h, s, r)
  <2>1. Fit("run", [Blank EXCEPT !.op = "lifecycle", !.to = move])
    BY DEF Fit, Blank, Steps, Moves
  <2>2. zone.st \notin {"none", "provisioning"}
    BY <1>5 DEF LifecycleRequest, Recoverable
  <2> QED
    BY <1>5, <2>1, <2>2, Admitted DEF LifecycleRequest
<1>6. ASSUME NEW w \in Ws, Manage(h, "archiveWs", [Blank EXCEPT !.w = w])
      PROVE  \E s, r : Goes(h, s, r)
  <2>1. Fit("run", [[Blank EXCEPT !.w = w] EXCEPT !.op = "archiveWs"])
    BY DEF Fit, Blank, Steps
  <2> QED
    BY <1>3, <1>6, <2>1
<1>7. ASSUME NEW k \in Kinds, NEW w \in Ws, NEW i, NEW st,
             k = "installation" => i \in Installations /\ st \in {"enabled", "disabled"},
             InsertRequest(h, k, w, i, st)
      PROVE  \E s, r : Goes(h, s, r)
  <2> DEFINE r == [Blank EXCEPT !.op = k, !.w = w, !.i = i, !.to = st, !.n = Usage(k)]
  <2>1. Fit("lock", r)
    BY <1>7 DEF Fit, Blank, Steps
  <2>2. zone.st \notin {"none", "provisioning"} /\ Admit(h, "lock", r)
    BY <1>7 DEF InsertRequest, Serving
  <2> QED
    BY <2>1, <2>2, Admitted
<1>8. ASSUME NEW i \in Installations, NEW st \in {"enabled", "disabled"}, NEW op \in {"update", "switch"},
             Manage(h, op, [Blank EXCEPT !.i = i, !.to = st])
      PROVE  \E s, r : Goes(h, s, r)
  <2>1. Fit("run", [[Blank EXCEPT !.i = i, !.to = st] EXCEPT !.op = op])
    BY DEF Fit, Blank, Steps
  <2> QED
    BY <1>3, <1>8, <2>1
<1>9. ASSUME NEW i \in Installations, NEW op \in {"uninstall", "drop"},
             Manage(h, op, [Blank EXCEPT !.i = i])
      PROVE  \E s, r : Goes(h, s, r)
  <2>1. Fit("run", [[Blank EXCEPT !.i = i] EXCEPT !.op = op])
    BY DEF Fit, Blank, Steps
  <2> QED
    BY <1>3, <1>9, <2>1
<1>10. ASSUME NEW mode \in {"hard", "monitor"}, NEW max \in 1..MaxQuota, QuotaRequest(h, mode, max)
       PROVE  \E s, r : Goes(h, s, r)
  <2>1. Fit("run", [Blank EXCEPT !.op = "quota", !.to = mode, !.n = max])
    BY DEF Fit, Blank, Steps
  <2>2. zone.st \notin {"none", "provisioning"}
    BY <1>10 DEF QuotaRequest, Serving
  <2> QED
    BY <1>10, <2>1, <2>2, Admitted DEF QuotaRequest
<1> QED
  BY <1>2, <1>4, <1>5, <1>6, <1>7, <1>8, <1>9, <1>10 DEF Requests, Kinds

LEMMA TransactionsGo ==
    ASSUME HandsFit, NEW h \in Handlers, Transactions(h)
    PROVE  \E s, r : Goes(h, s, r)
<1>1. CASE Done(h)
  <2>1. Goes(h, "idle", Blank)
    BY <1>1 DEF Done, HandsFit, Goes, Fit, Steps
  <2> QED
    BY <2>1
<1>2. CASE LockQuota(h)
  <2>1. Goes(h, "insert", req[h])
    BY <1>2 DEF LockQuota, HandsFit, Goes, Fit, Steps
  <2> QED
    BY <2>1
<1> QED
  BY <1>1, <1>2, TransactionsEnd

LEMMA HandSteps ==
    ASSUME HandsFit, Started, [ZoneNext]_tenancyVars
    PROVE  UNCHANGED <<stage, req>> \/ \E h \in Handlers : \E s, r : Goes(h, s, r)
<1>1. CASE UNCHANGED tenancyVars
  BY <1>1 DEF tenancyVars
<1>2. ASSUME NEW d \in Domains, CreateDomainClaim(d) \/ VerificationExpires(d)
      PROVE  UNCHANGED <<stage, req>>
  BY <1>2 DEF CreateDomainClaim, VerificationExpires
<1>3. CASE EnsureSelfHostedInstance
  BY <1>3 DEF EnsureSelfHostedInstance
<1> QED
  BY <1>1, <1>2, <1>3, RequestsGo, TransactionsGo DEF ZoneNext

LEMMA HandsStayFit ==
    ASSUME HandsFit, Started, [ZoneNext]_tenancyVars PROVE HandsFit'
<1>1. CASE UNCHANGED <<stage, req>>
  <2>1. HandsFit' <=> HandsFit
    BY <1>1 DEF HandsFit, Fit
  <2> QED
    BY <2>1
<1>2. ASSUME NEW h \in Handlers, NEW s, NEW r, Goes(h, s, r) PROVE HandsFit'
  <2>1. \A g \in Handlers : Fit(stage'[g], req'[g])
    BY <1>2 DEF HandsFit, Goes
  <2> QED
    BY <1>2, <2>1 DEF HandsFit, Goes, Fit
<1> QED
  BY <1>1, <1>2, HandSteps

-----------------------------------------------------------------------------
(* The rows of the zone.                                                   *)

(* What a step does to automations, quotas and expired verifications.      *)
AutoStep ==
    \/ UNCHANGED autoVars
    \/ \E h \in Handlers :
          \/ SetZoneLifecycle(h) \/ CreateOutgoing(h) \/ CreateAutomationInstallation(h)
          \/ UpdateAutomationInstallation(h) \/ DeleteAutomationInstallation(h)
          \/ UpdateOutgoing(h) \/ DeleteOutgoing(h)

LEMMA AutoSteps == ASSUME [ZoneNext]_tenancyVars PROVE AutoStep
<1>1. CASE UNCHANGED tenancyVars
  BY <1>1 DEF tenancyVars, AutoStep
<1>2. ASSUME NEW h \in Handlers, Requests(h) PROVE AutoStep
  BY <1>2, RequestsAdmit DEF Admit, AutoStep
<1>3. ASSUME NEW h \in Handlers, Transactions(h) PROVE AutoStep
  BY <1>3 DEF Transactions, ActivateVerifiedDomain, ProvisionVerifiedDomain, CreateAdditionalDomain,
     SetPrimaryDomain, DeleteZoneDomain, ArchiveWorkspace, LockQuota, CreateWorkspace,
     UpdateZoneQuota, Abort, AutoStep
<1>4. CASE EnsureSelfHostedInstance
  BY <1>4 DEF EnsureSelfHostedInstance, AutoStep
<1>5. ASSUME NEW d \in Domains, CreateDomainClaim(d) \/ VerificationExpires(d) PROVE AutoStep
  BY <1>5 DEF CreateDomainClaim, VerificationExpires, AutoStep
<1> QED
  BY <1>1, <1>2, <1>3, <1>4, <1>5 DEF ZoneNext

LEMMA RestSteps ==
    ASSUME HandsFit, ZoneTypeOK, [ZoneNext]_tenancyVars
    PROVE  /\ expired' \subseteq Domains /\ lock' \in Handlers \cup {NoOne}
           /\ quota' \in [mode : {"hard", "monitor"}, max : 1..MaxQuota]
<1> USE DEF ZoneTypeOK
<1>1. CASE UNCHANGED tenancyVars
  BY <1>1 DEF tenancyVars, zoneVars, quotaVars
<1>2. ASSUME NEW h \in Handlers, Requests(h)
      PROVE  UNCHANGED <<expired, lock, quota>>
  BY <1>2, RequestsAdmit DEF Admit, zoneVars, quotaVars
<1>3. ASSUME NEW h \in Handlers, UpdateZoneQuota(h)
      PROVE  UNCHANGED <<expired, lock>> /\ quota' \in [mode : {"hard", "monitor"}, max : 1..MaxQuota]
  <2>1. req[h].to \in {"hard", "monitor"} /\ req[h].n \in 1..MaxQuota
    BY <1>3 DEF UpdateZoneQuota, Running, HandsFit, Fit
  <2> QED
    BY <1>3, <2>1 DEF UpdateZoneQuota, zoneVars
<1>4. ASSUME NEW h \in Handlers, Transactions(h), ~UpdateZoneQuota(h)
      PROVE  UNCHANGED quota /\ expired' \subseteq Domains /\ lock' \in Handlers \cup {NoOne}
  BY <1>4 DEF Transactions, ActivateVerifiedDomain, ProvisionVerifiedDomain, CreateAdditionalDomain,
     SetPrimaryDomain, DeleteZoneDomain, SetZoneLifecycle, ArchiveWorkspace, LockQuota,
     CreateWorkspace, CreateOutgoing, CreateAutomationInstallation, UpdateAutomationInstallation,
     DeleteAutomationInstallation, UpdateOutgoing, DeleteOutgoing, Abort, Inserting,
     zoneVars, quotaVars
<1>5. CASE EnsureSelfHostedInstance
  <2>1. MaxQuota \in 1..MaxQuota
    BY ZoneBounds
  <2> QED
    BY <1>5, <2>1 DEF EnsureSelfHostedInstance
<1>6. ASSUME NEW d \in Domains, CreateDomainClaim(d) \/ VerificationExpires(d)
      PROVE  UNCHANGED <<lock, quota>> /\ expired' \subseteq Domains
  BY <1>6 DEF CreateDomainClaim, VerificationExpires, quotaVars
<1> QED
  BY <1>1, <1>2, <1>3, <1>4, <1>5, <1>6 DEF ZoneNext

LEMMA HandTypes ==
    ASSUME HandsFit, Started, ZoneTypeOK, [ZoneNext]_tenancyVars
    PROVE  stage' \in [Handlers -> Steps]
<1>2. ASSUME NEW h \in Handlers, Requests(h) PROVE \E s : stage' = [stage EXCEPT ![h] = s]
  BY <1>2, RequestsAdmit DEF Admit
<1>3. ASSUME NEW h \in Handlers, Transactions(h) PROVE \E s : stage' = [stage EXCEPT ![h] = s]
  BY <1>3, TransactionsEnd DEF Done, LockQuota
<1>4. UNCHANGED stage \/ \E h \in Handlers : \E s : stage' = [stage EXCEPT ![h] = s]
  BY <1>2, <1>3 DEF ZoneNext, CreateDomainClaim, VerificationExpires, EnsureSelfHostedInstance,
     tenancyVars
<1>5. HandsFit' /\ stage \in [Handlers -> Steps]
  BY HandsStayFit DEF ZoneTypeOK
<1>6. \A h \in Handlers : stage'[h] \in Steps
  BY <1>5 DEF HandsFit, Fit
<1> QED
  BY <1>4, <1>5, <1>6

LEMMA DomainOn ==
    ASSUME ZoneTypeOK, NEW d
    PROVE  [dom EXCEPT ![d].st = "active"] \in
              [Domains -> [st : {"none", "pending", "active", "suspended", "deleted"},
                           kind : {"primary", "alias"}]]
<1>1. \A e \in Domains : [dom[e] EXCEPT !.st = "active"] \in
         [st : {"none", "pending", "active", "suspended", "deleted"}, kind : {"primary", "alias"}]
  BY DEF ZoneTypeOK
<1>2. dom \in [Domains -> [st : {"none", "pending", "active", "suspended", "deleted"},
                          kind : {"primary", "alias"}]]
  BY DEF ZoneTypeOK
<1> QED
  BY <1>1, <1>2

LEMMA ZoneTypes ==
    ASSUME ZoneTypeOK, ZoneRows, HandsFit, [ZoneNext]_tenancyVars
    PROVE  /\ ZoneRows' /\ url' \in Domains \cup {NoDomain}
           /\ dom' \in [Domains -> [st : {"none", "pending", "active", "suspended", "deleted"},
                                    kind : {"primary", "alias"}]]
           /\ ws' \in [Ws -> {"none", "active", "suspended", "archived", "gone"}]
           /\ slugged' \subseteq Ws
<1> DEFINE Fine == /\ ZoneRows' /\ url' \in Domains \cup {NoDomain}
                   /\ dom' \in [Domains -> [st : {"none", "pending", "active", "suspended", "deleted"},
                                            kind : {"primary", "alias"}]]
                   /\ ws' \in [Ws -> {"none", "active", "suspended", "archived", "gone"}]
                   /\ slugged' \subseteq Ws
<1> USE DEF ZoneTypeOK, ZoneRows
<1>1. CASE UNCHANGED <<zone, url, dom, ws, slugged>>
  BY <1>1
<1>2. ASSUME NEW d \in Domains, CreateDomainClaim(d) PROVE Fine
  BY <1>2 DEF CreateDomainClaim, wsVars
<1>3. CASE EnsureSelfHostedInstance
  <2>1. \A d \in Domains : [dom[d] EXCEPT !.st = "active"] \in
           [st : {"none", "pending", "active", "suspended", "deleted"}, kind : {"primary", "alias"}]
        /\ [dom[d] EXCEPT !.st = "deleted"] \in
           [st : {"none", "pending", "active", "suspended", "deleted"}, kind : {"primary", "alias"}]
    OBVIOUS
  <2>2. dom' \in [Domains -> [st : {"none", "pending", "active", "suspended", "deleted"},
                              kind : {"primary", "alias"}]]
    BY <1>3, <2>1 DEF EnsureSelfHostedInstance
  <2> QED
    BY <1>3, <2>2 DEF EnsureSelfHostedInstance
<1>4. ASSUME NEW h \in Handlers, ActivateVerifiedDomain(h) PROVE Fine
  <2>1. UNCHANGED <<zone, url, ws, slugged>> /\ dom' = [dom EXCEPT ![req[h].d].st = "active"]
    BY <1>4 DEF ActivateVerifiedDomain, wsVars
  <2>2. dom' \in [Domains -> [st : {"none", "pending", "active", "suspended", "deleted"},
                              kind : {"primary", "alias"}]]
    BY <2>1, DomainOn
  <2> QED
    BY <2>1, <2>2
<1>5. ASSUME NEW h \in Handlers, ProvisionVerifiedDomain(h) PROVE Fine
  <2>1. req[h].d \in Domains
    BY <1>5 DEF ProvisionVerifiedDomain, HandsFit, Fit
  <2>2. PICK w \in Ws :
           /\ ProvisionWorkspace(w)
           /\ zone' = IF zone.st = "provisioning" THEN [st |-> "active", main |-> w] ELSE zone
    BY <1>5 DEF ProvisionVerifiedDomain
  <2>3. w \in 0..MaxWs
    BY ZoneBounds DEF Ws
  <2>4. ZoneRows'
    BY <2>2, <2>3
  <2>5. url' \in Domains \cup {NoDomain}
    BY <1>5, <2>1 DEF ProvisionVerifiedDomain
  <2>6. dom' \in [Domains -> [st : {"none", "pending", "active", "suspended", "deleted"},
                              kind : {"primary", "alias"}]]
    <3>1. dom' = [dom EXCEPT ![req[h].d].st = "active"]
      BY <1>5 DEF ProvisionVerifiedDomain
    <3> QED
      BY <3>1, DomainOn
  <2>7. ws' \in [Ws -> {"none", "active", "suspended", "archived", "gone"}] /\ slugged' \subseteq Ws
    BY <2>2 DEF ProvisionWorkspace
  <2> QED
    BY <2>4, <2>5, <2>6, <2>7
<1>6. ASSUME NEW h \in Handlers, CreateAdditionalDomain(h) \/ DeleteZoneDomain(h) PROVE Fine
  BY <1>6 DEF CreateAdditionalDomain, DeleteZoneDomain, wsVars
<1>7. ASSUME NEW h \in Handlers, SetPrimaryDomain(h) PROVE Fine
  <2>1. req[h].d \in Domains
    BY <1>7 DEF SetPrimaryDomain, Running, HandsFit, Fit
  <2>2. \A d \in Domains : [dom[d] EXCEPT !.kind = "alias"] \in
           [st : {"none", "pending", "active", "suspended", "deleted"}, kind : {"primary", "alias"}]
    OBVIOUS
  <2>3. dom' \in [Domains -> [st : {"none", "pending", "active", "suspended", "deleted"},
                              kind : {"primary", "alias"}]]
    BY <1>7, <2>2 DEF SetPrimaryDomain
  <2> QED
    BY <1>7, <2>1, <2>3 DEF SetPrimaryDomain, NewAddress, wsVars
<1>8. ASSUME NEW h \in Handlers, SetZoneLifecycle(h) PROVE Fine
  <2>1. req[h].to \in {"suspend", "resume", "archive"}
    BY <1>8 DEF SetZoneLifecycle, Running, HandsFit, Fit
  <2> DEFINE to == Moves[req[h].to].to
  <2>2. to \in {"active", "suspended", "archived"}
    BY <2>1 DEF Moves
  <2>3. \A d \in Domains : [dom[d] EXCEPT !.st = "suspended"] \in
           [st : {"none", "pending", "active", "suspended", "deleted"}, kind : {"primary", "alias"}]
    OBVIOUS
  <2>4. zone' = [zone EXCEPT !.st = to] /\ ws' = [w \in Ws |-> IF LiveWs(w) THEN to ELSE ws[w]]
        /\ dom' = [d \in Domains |-> IF to = "archived" /\ LiveDomain(d)
                                     THEN [dom[d] EXCEPT !.st = "suspended"] ELSE dom[d]]
        /\ UNCHANGED <<url, slugged>>
    BY <1>8 DEF SetZoneLifecycle
  <2> HIDE DEF to
  <2>5. dom' \in [Domains -> [st : {"none", "pending", "active", "suspended", "deleted"},
                              kind : {"primary", "alias"}]]
    BY <2>3, <2>4
  <2> QED
    BY <2>2, <2>4, <2>5
<1>9. ASSUME NEW h \in Handlers, ArchiveWorkspace(h) \/ CreateWorkspace(h) PROVE Fine
  BY <1>9 DEF ArchiveWorkspace, CreateWorkspace, zoneVars
<1> HIDE DEF ZoneTypeOK, ZoneRows, Fine
<1>10. ZoneStep
  BY ZoneSteps
<1>11. Fine
  BY <1>1, <1>2, <1>3, <1>4, <1>5, <1>6, <1>7, <1>8, <1>9, <1>10 DEF ZoneStep, Fine
<1> QED
  BY <1>11 DEF Fine

LEMMA AutoTypes ==
    ASSUME ZoneTypeOK, HandsFit, [ZoneNext]_tenancyVars
    PROVE  /\ inst' \in [Installations -> {"none", "enabled", "disabled", "deleted"}]
           /\ home' \in [Installations -> 0..MaxWs]
           /\ runtime' \in [Installations -> {"none", "active", "disabled"}]
           /\ plain' \in [Webhooks -> 0..MaxWs] /\ late' \subseteq Installations
<1> DEFINE Fine == /\ inst' \in [Installations -> {"none", "enabled", "disabled", "deleted"}]
                   /\ home' \in [Installations -> 0..MaxWs]
                   /\ runtime' \in [Installations -> {"none", "active", "disabled"}]
                   /\ plain' \in [Webhooks -> 0..MaxWs] /\ late' \subseteq Installations
<1> USE DEF ZoneTypeOK
<1>1. CASE UNCHANGED autoVars
  BY <1>1 DEF autoVars
<1>2. ASSUME NEW i \in Installations, NEW st, Switched(i, st)
      PROVE  runtime' \in [Installations -> {"none", "active", "disabled"}]
             /\ late' \subseteq Installations
  BY <1>2 DEF Switched
<1>3. ASSUME NEW h \in Handlers, SetZoneLifecycle(h) PROVE Fine
  <2>1. inst' \in [Installations -> {"none", "enabled", "disabled", "deleted"}]
        /\ UNCHANGED <<home, plain>> /\ late' = {}
    BY <1>3 DEF SetZoneLifecycle
  <2>2. \E to : runtime' = [i \in Installations |-> SyncHook(i, inst', to)]
    BY <1>3 DEF SetZoneLifecycle
  <2>3. runtime' \in [Installations -> {"none", "active", "disabled"}]
    BY <2>2 DEF SyncHook
  <2> QED
    BY <2>1, <2>3
<1>4. ASSUME NEW h \in Handlers, CreateOutgoing(h) PROVE Fine
  <2>1. req[h].w \in Ws
    BY <1>4 DEF CreateOutgoing, Inserting, HandsFit, Fit
  <2>2. req[h].w \in 0..MaxWs
    BY <2>1, ZoneBounds DEF Ws
  <2> QED
    BY <1>4, <2>2 DEF CreateOutgoing
<1>5. ASSUME NEW h \in Handlers, CreateAutomationInstallation(h) PROVE Fine
  <2>1. req[h].w \in Ws /\ req[h].i \in Installations /\ req[h].to \in {"enabled", "disabled"}
    BY <1>5 DEF CreateAutomationInstallation, Inserting, HandsFit, Fit
  <2>2. req[h].w \in 0..MaxWs
    BY <2>1, ZoneBounds DEF Ws
  <2>3. Switched(req[h].i, req[h].to)
    BY <1>5 DEF CreateAutomationInstallation
  <2>4. inst' \in [Installations -> {"none", "enabled", "disabled", "deleted"}]
        /\ home' \in [Installations -> 0..MaxWs] /\ UNCHANGED plain
    BY <1>5, <2>1, <2>2 DEF CreateAutomationInstallation
  <2> QED
    BY <1>2, <2>1, <2>3, <2>4
<1>6. ASSUME NEW h \in Handlers, UpdateAutomationInstallation(h) PROVE Fine
  <2>1. req[h].i \in Installations /\ req[h].to \in {"enabled", "disabled"}
    BY <1>6 DEF UpdateAutomationInstallation, Running, HandsFit, Fit
  <2>2. Switched(req[h].i, req[h].to) /\ UNCHANGED <<home, plain>>
        /\ inst' \in [Installations -> {"none", "enabled", "disabled", "deleted"}]
    BY <1>6, <2>1 DEF UpdateAutomationInstallation
  <2> QED
    BY <1>2, <2>1, <2>2
<1>7. ASSUME NEW h \in Handlers, DeleteAutomationInstallation(h) PROVE Fine
  BY <1>7 DEF DeleteAutomationInstallation, DropHook
<1>8. ASSUME NEW h \in Handlers, UpdateOutgoing(h) PROVE Fine
  <2>1. req[h].i \in Installations
    BY <1>8 DEF UpdateOutgoing, Running, HandsFit, Fit
  <2>2. Switched(req[h].i, req[h].to) /\ UNCHANGED <<inst, home, plain>>
    BY <1>8 DEF UpdateOutgoing
  <2> QED
    BY <1>2, <2>1, <2>2
<1>9. ASSUME NEW h \in Handlers, DeleteOutgoing(h) PROVE Fine
  BY <1>9 DEF DeleteOutgoing
<1> HIDE DEF ZoneTypeOK, Fine
<1>10. AutoStep
  BY AutoSteps
<1>11. Fine
  BY <1>1, <1>3, <1>4, <1>5, <1>6, <1>7, <1>8, <1>9, <1>10 DEF AutoStep, Fine
<1> QED
  BY <1>11 DEF Fine

LEMMA ZoneTypeStep ==
    ASSUME ZoneTypeOK, ZoneRows, HandsFit, Started, [ZoneNext]_tenancyVars
    PROVE  ZoneTypeOK' /\ ZoneRows'
<1>1. ZoneRows' => zone'.st \in {"none", "provisioning", "active", "suspended", "archived"}
                   /\ zone'.main \in 0..MaxWs
  BY DEF ZoneRows
<1> QED
  BY <1>1, RestSteps, HandTypes, ZoneTypes, AutoTypes DEF ZoneTypeOK

-----------------------------------------------------------------------------
(* A zone that is claimed keeps one primary domain, and an archived one is *)
(* dark.                                                                   *)

(* What a step of a running request finds.                                 *)
LEMMA Underway ==
    ASSUME ZoneInv, NEW h \in Handlers, stage[h] \notin {"idle", "provision"}
    PROVE  zone.st \notin {"none", "provisioning"}
BY DEF ZoneInv, Started

(* A zone that is not provisioned after a step was not before it.           *)
LEMMA Unprovisioned ==
    ASSUME ZoneInv, [ZoneNext]_tenancyVars, zone'.st \in {"none", "provisioning"}
    PROVE  UNCHANGED <<zone, url, dom>> \/ \E d \in Domains : CreateDomainClaim(d)
<1>1. ZoneTypeOK /\ ZoneRows /\ HandsFit /\ Started
  BY DEF ZoneInv
<1>2. ZoneStep
  BY ZoneSteps
<1>3. ~EnsureSelfHostedInstance
  BY DEF EnsureSelfHostedInstance, ZoneInv, ZoneRows
<1>4. ASSUME NEW h \in Handlers, ProvisionVerifiedDomain(h) PROVE FALSE
  <2>1. zone.st # "none"
    BY <1>1, <1>4 DEF ProvisionVerifiedDomain, Started
  <2>2. zone'.st = IF zone.st = "provisioning" THEN "active" ELSE zone.st
    BY <1>4 DEF ProvisionVerifiedDomain
  <2> QED
    BY <2>1, <2>2
<1>5. ASSUME NEW h \in Handlers,
             \/ ActivateVerifiedDomain(h) \/ CreateAdditionalDomain(h) \/ SetPrimaryDomain(h)
             \/ DeleteZoneDomain(h) \/ ArchiveWorkspace(h) \/ CreateWorkspace(h)
      PROVE  FALSE
  <2>1. stage[h] \notin {"idle", "provision"} /\ zone' = zone
    BY <1>5 DEF ActivateVerifiedDomain, CreateAdditionalDomain, SetPrimaryDomain, DeleteZoneDomain,
       ArchiveWorkspace, CreateWorkspace, Inserting, Running, zoneVars
  <2> QED
    BY <2>1, Underway
<1>6. ASSUME NEW h \in Handlers, SetZoneLifecycle(h) PROVE FALSE
  <2>1. req[h].to \in {"suspend", "resume", "archive"}
    BY <1>1, <1>6 DEF SetZoneLifecycle, Running, HandsFit, Fit
  <2>2. zone'.st = Moves[req[h].to].to
    BY <1>1, <1>6 DEF SetZoneLifecycle, ZoneRows
  <2> QED
    BY <2>1, <2>2 DEF Moves
<1> QED
  BY <1>2, <1>3, <1>4, <1>5, <1>6 DEF ZoneStep

LEMMA MainStep ==
    ASSUME ZoneInv, [ZoneNext]_tenancyVars, zone'.main # 0
    PROVE  zone'.main \in slugged' /\ ws'[zone'.main] # "none"
<1>1. ZoneTypeOK /\ ZoneRows /\ HandsFit /\ Started
  BY DEF ZoneInv
<1>2. ASSUME NEW h \in Handlers, ProvisionVerifiedDomain(h)
      PROVE  zone'.main \in slugged' /\ ws'[zone'.main] # "none"
  <2>1. PICK w \in Ws :
           /\ ProvisionWorkspace(w)
           /\ zone' = IF zone.st = "provisioning" THEN [st |-> "active", main |-> w] ELSE zone
    BY <1>2 DEF ProvisionVerifiedDomain
  <2>2. ws'[w] = "active" /\ w \in slugged' /\ slugged \subseteq slugged'
        /\ \A v \in Ws : v # w => ws'[v] = ws[v]
    BY <1>1, <2>1 DEF ProvisionWorkspace, ZoneTypeOK
  <2>3. slugged \subseteq Ws
    BY <1>1 DEF ZoneTypeOK
  <2> QED
    BY <1>1, <2>1, <2>2, <2>3 DEF Started
<1>3. ASSUME zone'.main = zone.main, slugged' = slugged, \A w \in Ws : ws[w] # "none" => ws'[w] # "none"
      PROVE  zone'.main \in slugged' /\ ws'[zone'.main] # "none"
  BY <1>1, <1>3 DEF Started, ZoneTypeOK
<1>4. ASSUME NEW d \in Domains, CreateDomainClaim(d)
      PROVE  zone'.main = zone.main /\ UNCHANGED <<ws, slugged>>
  BY <1>1, <1>4 DEF CreateDomainClaim, wsVars, ZoneRows
<1>5. CASE EnsureSelfHostedInstance
  <2>1. zone'.main = zone.main /\ slugged' = slugged
    BY <1>1, <1>5 DEF EnsureSelfHostedInstance, ZoneRows
  <2>2. \A w \in Ws : ws[w] # "none" => ws'[w] # "none"
    BY <1>1, <1>5 DEF EnsureSelfHostedInstance, ZoneTypeOK
  <2> QED
    BY <1>3, <2>1, <2>2
<1>6. ASSUME NEW h \in Handlers, SetZoneLifecycle(h)
      PROVE  zone'.main \in slugged' /\ ws'[zone'.main] # "none"
  <2>1. req[h].to \in {"suspend", "resume", "archive"}
    BY <1>1, <1>6 DEF SetZoneLifecycle, Running, HandsFit, Fit
  <2>2. Moves[req[h].to].to # "none"
    BY <2>1 DEF Moves
  <2>3. zone'.main = zone.main /\ slugged' = slugged
    BY <1>1, <1>6 DEF SetZoneLifecycle, ZoneRows
  <2>4. \A w \in Ws : ws[w] # "none" => ws'[w] # "none"
    BY <1>6, <2>2 DEF SetZoneLifecycle
  <2> QED
    BY <1>3, <2>3, <2>4
<1>7. ASSUME NEW h \in Handlers, ArchiveWorkspace(h) \/ CreateWorkspace(h)
      PROVE  zone'.main \in slugged' /\ ws'[zone'.main] # "none"
  <2>1. zone' = zone /\ slugged' = slugged
    BY <1>7 DEF ArchiveWorkspace, CreateWorkspace, zoneVars
  <2>2. \A w \in Ws : ws[w] # "none" => ws'[w] # "none"
    BY <1>1, <1>7 DEF ArchiveWorkspace, CreateWorkspace, ZoneTypeOK
  <2> QED
    BY <1>3, <2>1, <2>2
<1>8. ASSUME NEW h \in Handlers,
             \/ ActivateVerifiedDomain(h) \/ CreateAdditionalDomain(h) \/ SetPrimaryDomain(h)
             \/ DeleteZoneDomain(h)
      PROVE  UNCHANGED <<zone, ws, slugged>>
  BY <1>8 DEF ActivateVerifiedDomain, CreateAdditionalDomain, SetPrimaryDomain, DeleteZoneDomain, wsVars
<1>9. ZoneStep
  BY ZoneSteps
<1> QED
  BY <1>2, <1>3, <1>4, <1>5, <1>6, <1>7, <1>8, <1>9 DEF ZoneStep

LEMMA StartedStep == ASSUME ZoneInv, [ZoneNext]_tenancyVars PROVE Started'
<1>1. ZoneTypeOK /\ ZoneRows /\ HandsFit /\ Started
  BY DEF ZoneInv
<1>2. selfHosted' = selfHosted
  <2>1. ASSUME NEW h \in Handlers, Requests(h) \/ Transactions(h) PROVE selfHosted' = selfHosted
    BY <2>1, RequestsAdmit, TransactionsEnd DEF Admit, Done, LockQuota
  <2> QED
    BY <2>1 DEF ZoneNext, CreateDomainClaim, VerificationExpires, EnsureSelfHostedInstance, tenancyVars
<1>3. UNCHANGED <<stage, req>> \/ \E h \in Handlers : \E s, r : Goes(h, s, r)
  BY <1>1, HandSteps
<1>4. CASE zone'.st = "none"
  <2>1. UNCHANGED <<zone, url, dom>>
    BY <1>1, <1>4, Unprovisioned DEF CreateDomainClaim, ZoneRows
  <2>2. \A h \in Handlers : stage'[h] = "idle"
    BY <1>1, <1>3, <1>4, <2>1 DEF Started, Goes
  <2> QED
    BY <1>1, <1>2, <1>4, <2>1, <2>2, MainStep DEF Started
<1>5. CASE zone'.st = "provisioning"
  <2>1. CASE UNCHANGED <<zone, url, dom>>
    <3>1. \A h \in Handlers : stage'[h] \in {"idle", "provision"}
      BY <1>1, <1>3, <1>5, <2>1 DEF Started, Goes
    <3>2. \A d, e \in Domains : LiveDomain(d)' /\ LiveDomain(e)' => d = e
      BY <1>1, <1>5, <2>1 DEF Started, LiveDomain
    <3> QED
      BY <1>1, <1>2, <1>5, <2>1, <3>1, <3>2, MainStep DEF Started
  <2>2. ASSUME NEW d \in Domains, CreateDomainClaim(d) PROVE Started'
    <3>1. zone.st = "none" /\ ~selfHosted /\ UNCHANGED <<stage, url>>
      BY <2>2 DEF CreateDomainClaim
    <3>2. \A e \in Domains : e # d => dom'[e].st = "none"
      BY <1>1, <2>2 DEF CreateDomainClaim, Started, ZoneTypeOK
    <3>3. \A e, f \in Domains : LiveDomain(e)' /\ LiveDomain(f)' => e = f
      BY <3>2 DEF LiveDomain
    <3> QED
      BY <1>1, <1>2, <1>5, <3>1, <3>3, MainStep DEF Started
  <2> QED
    BY <1>5, <2>1, <2>2, Unprovisioned
<1>6. CASE zone'.st \notin {"none", "provisioning"}
  BY <1>6, MainStep DEF Started
<1> QED
  BY <1>4, <1>5, <1>6

LEMMA OnePrimaryStep == ASSUME ZoneInv, [ZoneNext]_tenancyVars PROVE OnePrimary'
<1>1. ZoneTypeOK /\ ZoneRows /\ HandsFit /\ Started
  BY DEF ZoneInv
<1> DEFINE Kept == \E d \in Domains :
             /\ \A e \in Domains : LiveDomain(e)' /\ dom'[e].kind = "primary" <=> e = d
             /\ zone'.st # "provisioning" => zone'.main # 0 /\ url' = d
<1>2. Kept => OnePrimary'
  <2>1. \A d \in Domains :
           (\A e \in Domains : LiveDomain(e)' /\ dom'[e].kind = "primary" <=> e = d) =>
           {e \in Domains : LiveDomain(e)' /\ dom'[e].kind = "primary"} = {d}
    OBVIOUS
  <2> QED
    BY <2>1 DEF OnePrimary
<1>3. zone.st # "none" => \E d \in Domains : Primary(d)
  BY OnePrimaryIs DEF ZoneInv
<1>4. ASSUME NEW d \in Domains, Primary(d), zone'.main = zone.main,
             zone'.st = "provisioning" <=> zone.st = "provisioning", url' = url,
             \A e \in Domains : LiveDomain(e)' /\ dom'[e].kind = "primary" <=>
                                LiveDomain(e) /\ dom[e].kind = "primary"
      PROVE  Kept
  BY <1>4 DEF Primary
<1>5. CASE zone'.st = "none"
  BY <1>5 DEF OnePrimary
<1>6. ASSUME NEW d \in Domains, CreateDomainClaim(d) PROVE Kept
  <2>1. zone.st = "none" /\ zone'.st = "provisioning"
    BY <1>1, <1>6 DEF CreateDomainClaim, ZoneRows
  <2>2. dom' = [dom EXCEPT ![d] = [st |-> "pending", kind |-> "primary"]]
    BY <1>6 DEF CreateDomainClaim
  <2>3. \A e \in Domains : LiveDomain(e)' /\ dom'[e].kind = "primary" <=> e = d
    BY <1>1, <2>1, <2>2 DEF Started, ZoneTypeOK, LiveDomain
  <2> QED
    BY <2>1, <2>3
<1>7. ASSUME UNCHANGED <<zone, url, dom>>, zone.st # "none" PROVE Kept
  BY <1>3, <1>4, <1>7 DEF LiveDomain
<1>8. CASE EnsureSelfHostedInstance
  <2>1. zone.st \notin {"none", "provisioning"}
    BY <1>1, <1>8 DEF EnsureSelfHostedInstance, Started
  <2>2. zone'.st = "active" /\ zone'.main = zone.main /\ url' = url
    BY <1>1, <1>8 DEF EnsureSelfHostedInstance, ZoneRows
  <2>3. \A e \in Domains : LiveDomain(e)' /\ dom'[e].kind = "primary" <=>
                           LiveDomain(e) /\ dom[e].kind = "primary"
    BY <1>1, <1>8 DEF EnsureSelfHostedInstance, ZoneTypeOK, LiveDomain
  <2> QED
    BY <1>2, <1>3, <1>4, <2>1, <2>2, <2>3
<1>9. ASSUME NEW h \in Handlers, ActivateVerifiedDomain(h) PROVE Kept
  <2>1. zone.st \notin {"none", "provisioning"} /\ UNCHANGED <<zone, url>>
    BY <1>9, Underway DEF ActivateVerifiedDomain
  <2>2. \A e \in Domains : LiveDomain(e)' /\ dom'[e].kind = "primary" <=>
                           LiveDomain(e) /\ dom[e].kind = "primary"
    BY <1>1, <1>9 DEF ActivateVerifiedDomain, Activatable, ZoneTypeOK, LiveDomain
  <2> QED
    BY <1>3, <1>4, <2>1, <2>2
<1>10. ASSUME NEW h \in Handlers, ProvisionVerifiedDomain(h) PROVE Kept
  <2>1. req[h].d \in Domains /\ zone.st # "none"
    BY <1>1, <1>10 DEF ProvisionVerifiedDomain, HandsFit, Fit, Started
  <2>2. \A e \in Domains : LiveDomain(e)' /\ dom'[e].kind = "primary" <=>
                           LiveDomain(e) /\ dom[e].kind = "primary"
    BY <1>1, <1>10 DEF ProvisionVerifiedDomain, ZoneTypeOK, LiveDomain
  <2>3. PICK d \in Domains : Primary(d)
    BY <1>3, <2>1
  <2>4. CASE zone.st = "provisioning"
    <3>1. LiveDomain(req[h].d) /\ LiveDomain(d)
      BY <1>10, <2>3 DEF ProvisionVerifiedDomain, LiveDomain, Primary
    <3>2. req[h].d = d
      BY <1>1, <2>1, <2>4, <3>1 DEF Started
    <3>3. \E w \in Ws : zone' = [st |-> "active", main |-> w]
      BY <1>10, <2>4 DEF ProvisionVerifiedDomain
    <3>4. zone'.st = "active" /\ zone'.main # 0
      BY <3>3, ZoneBounds DEF Ws
    <3>5. url' = d
      BY <1>1, <1>10, <2>4, <3>2 DEF ProvisionVerifiedDomain, Started
    <3> QED
      BY <2>2, <2>3, <3>4, <3>5 DEF Primary
  <2>5. CASE zone.st # "provisioning"
    <3>1. url = d
      BY <2>3, <2>5 DEF Primary
    <3>2. url' = url /\ zone' = zone
      BY <1>10, <2>5, <3>1, FreshAssumption DEF ProvisionVerifiedDomain
    <3> QED
      BY <1>4, <2>2, <2>3, <3>2
  <2> QED
    BY <2>4, <2>5
<1>11. ASSUME NEW h \in Handlers, CreateAdditionalDomain(h) \/ DeleteZoneDomain(h) PROVE Kept
  <2>1. zone.st \notin {"none", "provisioning"} /\ UNCHANGED <<zone, url>>
    BY <1>11, Underway DEF CreateAdditionalDomain, DeleteZoneDomain, Running
  <2>2. \A e \in Domains : LiveDomain(e)' /\ dom'[e].kind = "primary" <=>
                           LiveDomain(e) /\ dom[e].kind = "primary"
    BY <1>1, <1>11 DEF CreateAdditionalDomain, DeleteZoneDomain, ZoneTypeOK, LiveDomain
  <2> QED
    BY <1>3, <1>4, <2>1, <2>2
<1>12. ASSUME NEW h \in Handlers, SetPrimaryDomain(h) PROVE Kept
  <2>1. zone.st \notin {"none", "provisioning"} /\ zone' = zone /\ url' = req[h].d
    BY <1>12, Underway DEF SetPrimaryDomain, Running, NewAddress
  <2>2. req[h].d \in Domains
    BY <1>1, <1>12 DEF SetPrimaryDomain, Running, HandsFit, Fit
  <2>3. \A e \in Domains : LiveDomain(e)' /\ dom'[e].kind = "primary" <=> e = req[h].d
    BY <1>1, <1>12, <2>2 DEF SetPrimaryDomain, ZoneTypeOK, LiveDomain
  <2>4. zone'.main # 0
    BY <1>3, <2>1 DEF Primary
  <2> QED
    BY <2>1, <2>2, <2>3, <2>4
<1>13. ASSUME NEW h \in Handlers, SetZoneLifecycle(h) PROVE Kept
  <2>1. zone.st \notin {"none", "provisioning"}
    BY <1>13, Underway DEF SetZoneLifecycle, Running
  <2>2. req[h].to \in {"suspend", "resume", "archive"}
    BY <1>1, <1>13 DEF SetZoneLifecycle, Running, HandsFit, Fit
  <2>3. zone'.st # "provisioning" /\ zone'.main = zone.main /\ url' = url
    BY <1>1, <1>13, <2>2 DEF SetZoneLifecycle, ZoneRows, Moves
  <2>4. \A e \in Domains : LiveDomain(e)' /\ dom'[e].kind = "primary" <=>
                           LiveDomain(e) /\ dom[e].kind = "primary"
    BY <1>1, <1>13 DEF SetZoneLifecycle, ZoneTypeOK, LiveDomain
  <2> QED
    BY <1>3, <1>4, <2>1, <2>3, <2>4
<1>14. ASSUME NEW h \in Handlers, ArchiveWorkspace(h) \/ CreateWorkspace(h)
       PROVE  UNCHANGED <<zone, url, dom>>
  BY <1>14 DEF ArchiveWorkspace, CreateWorkspace, zoneVars
<1> HIDE DEF Kept
<1>15. ZoneStep
  BY ZoneSteps
<1> QED
  BY <1>2, <1>5, <1>6, <1>7, <1>8, <1>9, <1>10, <1>11, <1>12, <1>13, <1>14, <1>15 DEF ZoneStep

LEMMA DarkStep == ASSUME ZoneInv, [ZoneNext]_tenancyVars PROVE ArchivedIsDark'
<1>1. ZoneTypeOK /\ ZoneRows /\ HandsFit /\ Started /\ ArchivedIsDark
  BY DEF ZoneInv
<1>2. ASSUME zone'.st = zone.st, HasHome' => HasHome,
             zone.st = "archived" /\ HasHome =>
                \A d \in Domains : dom'[d].st = "active" => dom[d].st = "active"
      PROVE  ArchivedIsDark'
  BY <1>1, <1>2 DEF ArchivedIsDark
<1>3. ASSUME zone'.st # "archived" PROVE ArchivedIsDark'
  BY <1>3 DEF ArchivedIsDark
<1>4. CASE UNCHANGED <<zone, url, dom, ws, slugged>>
  BY <1>2, <1>4 DEF HasHome, LiveWs
<1>5. ASSUME NEW d \in Domains, CreateDomainClaim(d) PROVE ArchivedIsDark'
  BY <1>1, <1>3, <1>5 DEF CreateDomainClaim, ZoneRows
<1>6. CASE EnsureSelfHostedInstance
  BY <1>1, <1>3, <1>6 DEF EnsureSelfHostedInstance, ZoneRows
<1>7. ASSUME NEW h \in Handlers, ActivateVerifiedDomain(h) PROVE ArchivedIsDark'
  BY <1>3, <1>7 DEF ActivateVerifiedDomain, Activatable
<1>8. ASSUME NEW h \in Handlers, ProvisionVerifiedDomain(h) PROVE ArchivedIsDark'
  <2>1. PICK w \in Ws :
           /\ ProvisionWorkspace(w)
           /\ zone' = IF zone.st = "provisioning" THEN [st |-> "active", main |-> w] ELSE zone
    BY <1>8 DEF ProvisionVerifiedDomain
  <2>2. CASE zone.st = "provisioning"
    BY <1>3, <2>1, <2>2
  <2>3. CASE zone.st # "provisioning"
    <3>1. ~HasHome
      BY <1>1, <2>1 DEF ProvisionWorkspace, HasHome, Started
    <3>2. zone' = zone /\ \A v \in Ws : v # w => ws'[v] = ws[v]
      BY <1>1, <2>1, <2>3 DEF ProvisionWorkspace, ZoneTypeOK
    <3>3. zone.main # 0 => zone.main \in Ws /\ zone.main # w
      BY <1>1, <2>1 DEF Started, ZoneTypeOK, ProvisionWorkspace
    <3> QED
      BY <1>2, <3>1, <3>2, <3>3 DEF HasHome, LiveWs
  <2> QED
    BY <2>2, <2>3
<1>9. ASSUME NEW h \in Handlers,
             CreateAdditionalDomain(h) \/ DeleteZoneDomain(h) \/ SetPrimaryDomain(h)
      PROVE  ArchivedIsDark'
  <2>1. UNCHANGED <<zone, ws>>
    BY <1>9 DEF CreateAdditionalDomain, DeleteZoneDomain, SetPrimaryDomain, wsVars
  <2>2. \A d \in Domains : dom'[d].st = "active" => dom[d].st = "active"
    BY <1>1, <1>9 DEF CreateAdditionalDomain, DeleteZoneDomain, SetPrimaryDomain, ZoneTypeOK
  <2> QED
    BY <1>2, <2>1, <2>2 DEF HasHome, LiveWs
<1>10. ASSUME NEW h \in Handlers, SetZoneLifecycle(h) PROVE ArchivedIsDark'
  <2> DEFINE to == Moves[req[h].to].to
  <2>1. zone' = [zone EXCEPT !.st = to]
        /\ dom' = [d \in Domains |-> IF to = "archived" /\ LiveDomain(d)
                                     THEN [dom[d] EXCEPT !.st = "suspended"] ELSE dom[d]]
    BY <1>10 DEF SetZoneLifecycle
  <2> HIDE DEF to
  <2>2. zone'.st = to
    BY <1>1, <2>1 DEF ZoneRows
  <2>3. to = "archived" => \A d \in Domains : dom'[d].st # "active"
    BY <1>1, <2>1 DEF ZoneTypeOK, LiveDomain
  <2> QED
    BY <2>2, <2>3 DEF ArchivedIsDark
<1>11. ASSUME NEW h \in Handlers, ArchiveWorkspace(h) \/ CreateWorkspace(h) PROVE ArchivedIsDark'
  <2>1. UNCHANGED <<zone, dom>>
    BY <1>11 DEF ArchiveWorkspace, CreateWorkspace, zoneVars
  <2>2. zone.main # 0 => zone.main \in Ws /\ ws[zone.main] # "none"
    BY <1>1 DEF Started, ZoneTypeOK
  <2>3. HasHome' => HasHome
    BY <1>1, <1>11, <2>1, <2>2 DEF ArchiveWorkspace, CreateWorkspace, HasHome, LiveWs, ZoneTypeOK
  <2> QED
    BY <1>2, <2>1, <2>3
<1>12. ZoneStep
  BY ZoneSteps
<1> QED
  BY <1>4, <1>5, <1>6, <1>7, <1>8, <1>9, <1>10, <1>11, <1>12 DEF ZoneStep

-----------------------------------------------------------------------------
(* Runtime webhooks follow their installations, and the zone.              *)
LEMMA HooksStep == ASSUME ZoneInv, [ZoneNext]_tenancyVars PROVE HooksFollow'
<1>1. ZoneTypeOK /\ ZoneRows /\ HandsFit /\ HooksFollow
  BY DEF ZoneInv
<1>2. ASSUME NEW i \in Installations, NEW st, Switched(i, st), zone' = zone,
             \A j \in Installations : j # i => inst'[j] = inst[j],
             inst'[i] \in {"enabled", "disabled"}
      PROVE  HooksFollow'
  <2>1. \A j \in Installations : /\ j # i => runtime'[j] = runtime[j] /\ (j \in late <=> j \in late')
                                 /\ j = i => (runtime'[j] = "active" => st = "enabled")
    BY <1>1, <1>2 DEF Switched, ZoneTypeOK
  <2>2. st = "enabled" /\ zone.st # "active" => i \in late'
    BY <1>2 DEF Switched
  <2> QED
    BY <1>1, <1>2, <2>1, <2>2 DEF HooksFollow, LiveInst
<1>3. ASSUME NEW h \in Handlers, SetZoneLifecycle(h) PROVE HooksFollow'
  <2> DEFINE to == Moves[req[h].to].to
  <2>1. /\ zone' = [zone EXCEPT !.st = to]
        /\ inst' = [i \in Installations |->
                      IF to = "archived" /\ LiveInst(i) THEN "disabled" ELSE inst[i]]
        /\ runtime' = [i \in Installations |-> SyncHook(i, inst', to)]
    BY <1>3 DEF SetZoneLifecycle
  <2> HIDE DEF to
  <2>2. zone'.st = to
    BY <1>1, <2>1 DEF ZoneRows
  <2>3. \A i \in Installations : /\ runtime'[i] = "active" => to = "active"
                                 /\ runtime'[i] # "none" => runtime[i] # "none"
    BY <2>1 DEF SyncHook
  <2>4. \A i \in Installations : LiveInst(i) => LiveInst(i)'
    BY <2>1 DEF LiveInst
  <2> QED
    BY <1>1, <2>2, <2>3, <2>4 DEF HooksFollow
<1>4. ASSUME NEW h \in Handlers, CreateAutomationInstallation(h) PROVE HooksFollow'
  <2>1. req[h].i \in Installations /\ req[h].to \in {"enabled", "disabled"}
    BY <1>1, <1>4 DEF CreateAutomationInstallation, Inserting, HandsFit, Fit
  <2>2. /\ Switched(req[h].i, req[h].to) /\ zone' = zone
        /\ \A j \in Installations : j # req[h].i => inst'[j] = inst[j]
        /\ inst'[req[h].i] \in {"enabled", "disabled"}
    BY <1>1, <1>4, <2>1 DEF CreateAutomationInstallation, zoneVars, LiveInst, ZoneTypeOK
  <2> QED
    BY <1>2, <2>1, <2>2
<1>5. ASSUME NEW h \in Handlers, UpdateAutomationInstallation(h) PROVE HooksFollow'
  <2>1. req[h].i \in Installations /\ req[h].to \in {"enabled", "disabled"}
    BY <1>1, <1>5 DEF UpdateAutomationInstallation, Running, HandsFit, Fit
  <2>2. /\ Switched(req[h].i, req[h].to) /\ zone' = zone
        /\ \A j \in Installations : j # req[h].i => inst'[j] = inst[j]
        /\ inst'[req[h].i] \in {"enabled", "disabled"}
    BY <1>1, <1>5, <2>1 DEF UpdateAutomationInstallation, zoneVars, LiveInst, ZoneTypeOK
  <2> QED
    BY <1>2, <2>1, <2>2
<1>6. ASSUME NEW h \in Handlers, UpdateOutgoing(h) PROVE HooksFollow'
  <2>1. req[h].i \in Installations
    BY <1>1, <1>6 DEF UpdateOutgoing, Running, HandsFit, Fit
  <2>2. Switched(req[h].i, req[h].to) /\ zone' = zone /\ inst' = inst /\ runtime[req[h].i] # "none"
    BY <1>6 DEF UpdateOutgoing, zoneVars
  <2>3. inst'[req[h].i] \in {"enabled", "disabled"}
    BY <1>1, <2>1, <2>2 DEF HooksFollow, LiveInst
  <2> QED
    BY <1>2, <2>1, <2>2, <2>3
<1>7. ASSUME NEW h \in Handlers, DeleteAutomationInstallation(h) \/ DeleteOutgoing(h)
      PROVE  HooksFollow'
  <2>1. /\ zone' = zone /\ runtime'[req[h].i] = "none" /\ req[h].i \in Installations
        /\ \A j \in Installations : j # req[h].i => runtime'[j] = runtime[j] /\ inst'[j] = inst[j]
        /\ late' = late \ {req[h].i}
    BY <1>1, <1>7 DEF DeleteAutomationInstallation, DeleteOutgoing, DropHook, Running, HandsFit,
       Fit, zoneVars, ZoneTypeOK
  <2> QED
    BY <1>1, <2>1 DEF HooksFollow, LiveInst
<1>8. ASSUME UNCHANGED <<inst, runtime, late>>, zone.st # "active" \/ zone'.st = "active"
      PROVE  HooksFollow'
  BY <1>1, <1>8 DEF HooksFollow, LiveInst
<1>9. ASSUME NEW h \in Handlers, CreateOutgoing(h) PROVE HooksFollow'
  BY <1>8, <1>9 DEF CreateOutgoing, zoneVars
<1>10. CASE UNCHANGED autoVars
  <2>1. zone.st # "active" \/ zone'.st = "active" \/ \E h \in Handlers : SetZoneLifecycle(h)
    <3>1. CASE EnsureSelfHostedInstance
      BY <1>1, <3>1 DEF EnsureSelfHostedInstance, ZoneRows
    <3>2. ASSUME NEW h \in Handlers, ProvisionVerifiedDomain(h) PROVE zone.st # "active" \/ zone'.st = "active"
      BY <3>2 DEF ProvisionVerifiedDomain
    <3>3. ASSUME NEW d \in Domains, CreateDomainClaim(d) PROVE zone.st # "active"
      BY <3>3 DEF CreateDomainClaim
    <3>4. ASSUME NEW h \in Handlers,
                 \/ ActivateVerifiedDomain(h) \/ CreateAdditionalDomain(h) \/ SetPrimaryDomain(h)
                 \/ DeleteZoneDomain(h) \/ ArchiveWorkspace(h) \/ CreateWorkspace(h)
          PROVE  zone' = zone
      BY <3>4 DEF ActivateVerifiedDomain, CreateAdditionalDomain, SetPrimaryDomain,
         DeleteZoneDomain, ArchiveWorkspace, CreateWorkspace, zoneVars
    <3> QED
      BY <3>1, <3>2, <3>3, <3>4, ZoneSteps DEF ZoneStep
  <2>2. UNCHANGED <<inst, runtime, late>>
    BY <1>10 DEF autoVars
  <2> QED
    BY <1>3, <1>8, <2>1, <2>2
<1>11. AutoStep
  BY AutoSteps
<1> QED
  BY <1>3, <1>4, <1>5, <1>6, <1>7, <1>9, <1>10, <1>11 DEF AutoStep

LEMMA ZoneInvStep == ASSUME ZoneInv, [ZoneNext]_tenancyVars PROVE ZoneInv'
<1>1. ZoneTypeOK /\ ZoneRows /\ HandsFit /\ Started
  BY DEF ZoneInv
<1>2. ZoneTypeOK' /\ ZoneRows' /\ HandsFit'
  BY <1>1, ZoneTypeStep, HandsStayFit
<1> QED
  BY <1>2, StartedStep, OnePrimaryStep, DarkStep, HooksStep DEF ZoneInv

(* However the requests of administrators overlap, a zone that has been    *)
(* claimed has one primary domain, where its clients are sent once it is   *)
(* provisioned, an archived zone serves no domain while it has a primary   *)
(* workspace, and the runtime webhooks belong to installations and rest    *)
(* while the zone does (modules/tenancy).                                  *)
THEOREM ZoneStaysConsistent == ZoneSpec => []ZoneConsistent
<1>1. ZoneSpec => []ZoneInv
  BY ZoneStarts, ZoneInvStep, PTL DEF ZoneSpec
<1>2. ZoneInv => ZoneConsistent
  BY DEF ZoneInv, ZoneConsistent
<1> QED
  BY <1>1, <1>2, PTL

-----------------------------------------------------------------------------
(* The quota.  Each of the sets that it counts grows by one element at a   *)
(* time, and only in a transaction whose trigger has counted it.           *)
Members == {w \in Ws : LiveWs(w)}
Installed == {i \in Installations : LiveInst(i)}
PlainHooks == {x \in Webhooks : plain[x] # 0}
RuntimeHooks == {i \in Installations : runtime[i] # "none"}

LEMMA GrowByOne ==
    ASSUME NEW S, NEW T, NEW x, T \subseteq S \cup {x}, IsFiniteSet(S)
    PROVE  IsFiniteSet(T) /\ Cardinality(T) <= Cardinality(S) + 1
<1>1. IsFiniteSet(S \cup {x}) /\ Cardinality(S \cup {x}) \in {Cardinality(S), Cardinality(S) + 1}
  BY FS_AddElement
<1>2. IsFiniteSet(T) /\ Cardinality(T) <= Cardinality(S \cup {x})
  BY <1>1, FS_Subset
<1>3. Cardinality(S) \in Nat /\ Cardinality(T) \in Nat
  BY <1>2, FS_CardinalityType
<1> QED
  BY <1>1, <1>2, <1>3

LEMMA FiniteCounts ==
    IsFiniteSet(Members) /\ IsFiniteSet(Installed) /\ IsFiniteSet(PlainHooks)
    /\ IsFiniteSet(RuntimeHooks)
<1>1. IsFiniteSet(Ws)
  BY FS_Interval, ZoneBounds DEF Ws
<1> QED
  BY <1>1, FiniteAssumption, FS_Subset DEF Members, Installed, PlainHooks, RuntimeHooks

LEMMA MembersGrow ==
    ASSUME ZoneInv, [ZoneNext]_tenancyVars
    PROVE  \/ Members' \subseteq Members
           \/ TriggerAllows("workspace") /\ \E w : Members' \subseteq Members \cup {w}
<1>1. ZoneTypeOK /\ HandsFit
  BY DEF ZoneInv
<1>2. ASSUME NEW w \in Ws, ws' = [ws EXCEPT ![w] = "active"] PROVE Members' \subseteq Members \cup {w}
  BY <1>1, <1>2 DEF Members, LiveWs, ZoneTypeOK
<1>3. ASSUME \A w \in Ws : LiveWs(w)' => LiveWs(w) PROVE Members' \subseteq Members
  BY <1>3 DEF Members
<1>4. ASSUME NEW h \in Handlers, ProvisionVerifiedDomain(h)
      PROVE  TriggerAllows("workspace") /\ \E w : Members' \subseteq Members \cup {w}
  BY <1>2, <1>4 DEF ProvisionVerifiedDomain, ProvisionWorkspace
<1>5. ASSUME NEW h \in Handlers, CreateWorkspace(h)
      PROVE  TriggerAllows("workspace") /\ \E w : Members' \subseteq Members \cup {w}
  BY <1>2, <1>5 DEF CreateWorkspace, Inserting
<1>6. ASSUME NEW h \in Handlers, SetZoneLifecycle(h) PROVE Members' \subseteq Members
  <2>1. \E to : ws' = [w \in Ws |-> IF LiveWs(w) THEN to ELSE ws[w]]
    BY <1>6 DEF SetZoneLifecycle
  <2> QED
    BY <1>3, <2>1 DEF LiveWs
<1>7. CASE EnsureSelfHostedInstance
  BY <1>1, <1>3, <1>7 DEF EnsureSelfHostedInstance, HasHome, LiveWs, ZoneTypeOK
<1>8. ASSUME NEW h \in Handlers, ArchiveWorkspace(h) PROVE Members' \subseteq Members
  BY <1>1, <1>3, <1>8 DEF ArchiveWorkspace, LiveWs, ZoneTypeOK
<1>9. ASSUME ws' = ws PROVE Members' \subseteq Members
  BY <1>3, <1>9 DEF LiveWs
<1>10. ASSUME NEW h \in Handlers,
              \/ ActivateVerifiedDomain(h) \/ CreateAdditionalDomain(h) \/ SetPrimaryDomain(h)
              \/ DeleteZoneDomain(h)
       PROVE  ws' = ws
  BY <1>10 DEF ActivateVerifiedDomain, CreateAdditionalDomain, SetPrimaryDomain, DeleteZoneDomain, wsVars
<1>11. ASSUME NEW d \in Domains, CreateDomainClaim(d) PROVE ws' = ws
  BY <1>11 DEF CreateDomainClaim, wsVars
<1>12. ZoneStep
  BY ZoneSteps
<1> QED
  BY <1>4, <1>5, <1>6, <1>7, <1>8, <1>9, <1>10, <1>11, <1>12 DEF ZoneStep

LEMMA InstalledGrow ==
    ASSUME ZoneInv, [ZoneNext]_tenancyVars
    PROVE  \/ Installed' \subseteq Installed
           \/ TriggerAllows("installation") /\ \E i : Installed' \subseteq Installed \cup {i}
<1>1. ZoneTypeOK /\ HandsFit
  BY DEF ZoneInv
<1>2. ASSUME NEW h \in Handlers, CreateAutomationInstallation(h)
      PROVE  TriggerAllows("installation") /\ \E i : Installed' \subseteq Installed \cup {i}
  <2>1. inst' = [inst EXCEPT ![req[h].i] = req[h].to] /\ TriggerAllows("installation")
    BY <1>2 DEF CreateAutomationInstallation, Inserting
  <2>2. Installed' \subseteq Installed \cup {req[h].i}
    BY <1>1, <2>1 DEF Installed, LiveInst, ZoneTypeOK
  <2> QED
    BY <2>1, <2>2
<1>3. ASSUME \A i \in Installations : LiveInst(i)' => LiveInst(i) PROVE Installed' \subseteq Installed
  BY <1>3 DEF Installed
<1>4. ASSUME NEW h \in Handlers, SetZoneLifecycle(h) PROVE Installed' \subseteq Installed
  <2>1. \E to : inst' = [i \in Installations |->
                    IF to = "archived" /\ LiveInst(i) THEN "disabled" ELSE inst[i]]
    BY <1>4 DEF SetZoneLifecycle
  <2> QED
    BY <1>3, <2>1 DEF LiveInst
<1>5. ASSUME NEW h \in Handlers, UpdateAutomationInstallation(h) \/ DeleteAutomationInstallation(h)
      PROVE  Installed' \subseteq Installed
  BY <1>1, <1>3, <1>5 DEF UpdateAutomationInstallation, DeleteAutomationInstallation, LiveInst, ZoneTypeOK
<1>6. ASSUME inst' = inst PROVE Installed' \subseteq Installed
  BY <1>3, <1>6 DEF LiveInst
<1>7. ASSUME NEW h \in Handlers, CreateOutgoing(h) \/ UpdateOutgoing(h) \/ DeleteOutgoing(h)
      PROVE  inst' = inst
  BY <1>7 DEF CreateOutgoing, UpdateOutgoing, DeleteOutgoing
<1>8. UNCHANGED autoVars => inst' = inst
  BY DEF autoVars
<1>9. AutoStep
  BY AutoSteps
<1> QED
  BY <1>2, <1>4, <1>5, <1>6, <1>7, <1>8, <1>9 DEF AutoStep

LEMMA HooksGrow ==
    ASSUME ZoneInv, [ZoneNext]_tenancyVars
    PROVE  \/ PlainHooks' \subseteq PlainHooks /\ RuntimeHooks' \subseteq RuntimeHooks
           \/ /\ TriggerAllows("webhook")
              /\ \E x : \/ PlainHooks' \subseteq PlainHooks \cup {x} /\ RuntimeHooks' \subseteq RuntimeHooks
                        \/ PlainHooks' \subseteq PlainHooks /\ RuntimeHooks' \subseteq RuntimeHooks \cup {x}
<1>1. ZoneTypeOK /\ HandsFit
  BY DEF ZoneInv
<1>2. plain' = plain => PlainHooks' \subseteq PlainHooks
  BY DEF PlainHooks
<1>3. runtime' = runtime => RuntimeHooks' \subseteq RuntimeHooks
  BY DEF RuntimeHooks
<1>4. ASSUME \A i \in Installations : runtime'[i] # "none" => runtime[i] # "none"
      PROVE  RuntimeHooks' \subseteq RuntimeHooks
  BY <1>4 DEF RuntimeHooks
<1>5. ASSUME NEW h \in Handlers, CreateOutgoing(h)
      PROVE  /\ TriggerAllows("webhook") /\ runtime' = runtime
             /\ \E x : PlainHooks' \subseteq PlainHooks \cup {x}
  <2>1. PICK x \in Webhooks : plain' = [plain EXCEPT ![x] = req[h].w]
    BY <1>5 DEF CreateOutgoing
  <2>2. PlainHooks' \subseteq PlainHooks \cup {x}
    BY <1>1, <2>1 DEF PlainHooks, ZoneTypeOK
  <2> QED
    BY <1>5, <2>2 DEF CreateOutgoing, Inserting
<1>6. ASSUME NEW h \in Handlers, CreateAutomationInstallation(h)
      PROVE  /\ TriggerAllows("webhook") /\ plain' = plain
             /\ \E x : RuntimeHooks' \subseteq RuntimeHooks \cup {x}
  <2>1. RuntimeHooks' \subseteq RuntimeHooks \cup {req[h].i}
    BY <1>1, <1>6 DEF CreateAutomationInstallation, Switched, RuntimeHooks, ZoneTypeOK
  <2> QED
    BY <1>6, <2>1 DEF CreateAutomationInstallation
<1>7. ASSUME NEW h \in Handlers, SetZoneLifecycle(h)
      PROVE  plain' = plain /\ RuntimeHooks' \subseteq RuntimeHooks
  <2>1. \E to : runtime' = [i \in Installations |-> SyncHook(i, inst', to)]
    BY <1>7 DEF SetZoneLifecycle
  <2> QED
    BY <1>4, <1>7, <2>1 DEF SyncHook, SetZoneLifecycle
<1>8. ASSUME NEW h \in Handlers,
             \/ UpdateAutomationInstallation(h) \/ DeleteAutomationInstallation(h)
             \/ UpdateOutgoing(h) \/ DeleteOutgoing(h)
      PROVE  plain' = plain /\ RuntimeHooks' \subseteq RuntimeHooks
  BY <1>1, <1>4, <1>8 DEF UpdateAutomationInstallation, DeleteAutomationInstallation, UpdateOutgoing,
     DeleteOutgoing, DropHook, Switched, ZoneTypeOK
<1>9. UNCHANGED autoVars => plain' = plain /\ runtime' = runtime
  BY DEF autoVars
<1>10. AutoStep
  BY AutoSteps
<1> QED
  BY <1>2, <1>3, <1>5, <1>6, <1>7, <1>8, <1>9, <1>10 DEF AutoStep

LEMMA FewerAreLess ==
    ASSUME NEW S, NEW T, IsFiniteSet(S), T \subseteq S
    PROVE  Cardinality(S) \in Nat /\ Cardinality(T) \in Nat /\ Cardinality(T) <= Cardinality(S)
BY FS_Subset, FS_CardinalityType

LEMMA OneMore ==
    ASSUME NEW S, NEW T, IsFiniteSet(S), \E x : T \subseteq S \cup {x}
    PROVE  Cardinality(S) \in Nat /\ Cardinality(T) \in Nat /\ Cardinality(T) <= Cardinality(S) + 1
BY GrowByOne, FS_CardinalityType

LEMMA QuotaStep ==
    ASSUME ZoneInv, [ZoneNext]_tenancyVars, NEW k \in Kinds, quota.mode = "hard",
           Counted(k)' > Counted(k)
    PROVE  Counted(k)' <= quota.max
<1>1. quota.max \in Nat
  BY DEF ZoneInv, ZoneTypeOK
<1>2. CASE k = "workspace"
  <2>1. Counted(k) = Cardinality(Members) /\ Counted(k)' = Cardinality(Members')
    BY <1>2 DEF Counted, Members
  <2>2. ~(Members' \subseteq Members)
    BY <2>1, FewerAreLess, FiniteCounts
  <2>3. TriggerAllows(k) /\ \E w : Members' \subseteq Members \cup {w}
    BY <1>2, <2>2, MembersGrow
  <2>4. Cardinality(Members) \in Nat /\ Cardinality(Members') \in Nat
        /\ Cardinality(Members') <= Cardinality(Members) + 1
    BY <2>3, OneMore, FiniteCounts
  <2>5. Counted(k) < quota.max
    BY <2>3 DEF TriggerAllows, Within
  <2> QED
    BY <1>1, <2>1, <2>4, <2>5
<1>3. CASE k = "installation"
  <2>1. Counted(k) = Cardinality(Installed) /\ Counted(k)' = Cardinality(Installed')
    BY <1>3 DEF Counted, Installed
  <2>2. ~(Installed' \subseteq Installed)
    BY <2>1, FewerAreLess, FiniteCounts
  <2>3. TriggerAllows(k) /\ \E i : Installed' \subseteq Installed \cup {i}
    BY <1>3, <2>2, InstalledGrow
  <2>4. Cardinality(Installed) \in Nat /\ Cardinality(Installed') \in Nat
        /\ Cardinality(Installed') <= Cardinality(Installed) + 1
    BY <2>3, OneMore, FiniteCounts
  <2>5. Counted(k) < quota.max
    BY <2>3 DEF TriggerAllows, Within
  <2> QED
    BY <1>1, <2>1, <2>4, <2>5
<1>4. CASE k = "webhook"
  <2> DEFINE P == Cardinality(PlainHooks)
             R == Cardinality(RuntimeHooks)
             Q == Cardinality(PlainHooks')
             U == Cardinality(RuntimeHooks')
  <2>1. Counted(k) = P + R /\ Counted(k)' = Q + U
    BY <1>4 DEF Counted, PlainHooks, RuntimeHooks
  <2>2. PlainHooks' \subseteq PlainHooks => P \in Nat /\ Q \in Nat /\ Q <= P
    BY FewerAreLess, FiniteCounts
  <2>3. RuntimeHooks' \subseteq RuntimeHooks => R \in Nat /\ U \in Nat /\ U <= R
    BY FewerAreLess, FiniteCounts
  <2>4. (\E x : PlainHooks' \subseteq PlainHooks \cup {x}) => P \in Nat /\ Q \in Nat /\ Q <= P + 1
    BY OneMore, FiniteCounts
  <2>5. (\E x : RuntimeHooks' \subseteq RuntimeHooks \cup {x}) => R \in Nat /\ U \in Nat /\ U <= R + 1
    BY OneMore, FiniteCounts
  <2> HIDE DEF P, R, Q, U
  <2>6. ~(PlainHooks' \subseteq PlainHooks /\ RuntimeHooks' \subseteq RuntimeHooks)
    BY <2>1, <2>2, <2>3
  <2>7. TriggerAllows(k)
        /\ \/ (\E x : PlainHooks' \subseteq PlainHooks \cup {x}) /\ RuntimeHooks' \subseteq RuntimeHooks
           \/ PlainHooks' \subseteq PlainHooks /\ \E x : RuntimeHooks' \subseteq RuntimeHooks \cup {x}
    BY <1>4, <2>6, HooksGrow
  <2>8. P + R < quota.max
    BY <2>1, <2>7 DEF TriggerAllows, Within
  <2>9. P \in Nat /\ R \in Nat /\ Q \in Nat /\ U \in Nat /\ Q + U <= P + R + 1
    <3>1. CASE (\E x : PlainHooks' \subseteq PlainHooks \cup {x}) /\ RuntimeHooks' \subseteq RuntimeHooks
      BY <2>3, <2>4, <3>1
    <3>2. CASE PlainHooks' \subseteq PlainHooks /\ \E x : RuntimeHooks' \subseteq RuntimeHooks \cup {x}
      BY <2>2, <2>5, <3>2
    <3> QED
      BY <2>7, <3>1, <3>2
  <2> QED
    BY <1>1, <2>1, <2>8, <2>9
<1> QED
  BY <1>2, <1>3, <1>4 DEF Kinds

(* Under a hard quota no step goes past the limit in force when it is      *)
(* taken, for any number of requests, workspaces, installations and        *)
(* webhooks: every insertion is behind a trigger that has just counted     *)
(* (migration 000026).                                                     *)
THEOREM QuotaHoldsAlways == ZoneSpec => QuotaHolds
<1>1. ZoneSpec => []ZoneInv
  BY ZoneStarts, ZoneInvStep, PTL DEF ZoneSpec
<1>2. ASSUME ZoneInv, [ZoneNext]_tenancyVars
      PROVE  [\A k \in Kinds : quota.mode = "hard" /\ Counted(k)' > Counted(k)
                               => Counted(k)' <= quota.max]_tenancyVars
  BY <1>2, QuotaStep
<1> QED
  BY <1>1, <1>2, PTL DEF ZoneSpec, QuotaHolds

-----------------------------------------------------------------------------
(* Presence: a socket has one row, and a row without one shows nobody.     *)
SocketsAreOwn ==
    /\ \A j, k \in PresenceKeys : seen[j].socket = seen[k].socket /\ seen[j].socket # NoSocket => j = k
    /\ \A k \in PresenceKeys : seen[k].socket = NoSocket => seen[k].st = "none"

SaysLast ==
    /\ \A k \in PresenceKeys \ silent : seen[k].socket # NoSocket =>
          seen[k].st = said[<<k, seen[k].socket>>]
    /\ \A k \in Listed : said[<<k, seen[k].socket>>] \in Shown

PresenceInv == PresenceTypeOK /\ SocketsAreOwn /\ SaysLast

LEMMA PresenceStarts == PresenceInit => PresenceInv
BY BeatAssumption DEF PresenceInit, PresenceInv, PresenceTypeOK, SocketsAreOwn, SaysLast, NeverSeen,
   Listed, Shown

(* A row of the table after a heartbeat with its socket.                   *)
LEMMA RowWritten ==
    ASSUME PresenceInv, NEW k \in PresenceKeys, NEW s \in PresenceSockets, NEW st \in Shown,
           Upsert(k, s, st)
    PROVE  /\ seen' \in [PresenceKeys -> [socket : PresenceSockets \cup {NoSocket},
                                         st : Shown \cup {"none", "offline"}]]
           /\ seen'[k] = [socket |-> s, st |-> st]
           /\ \A j \in PresenceKeys \ {k} :
                 \/ seen'[j] = seen[j] /\ seen[j].socket # s
                 \/ seen'[j] = NeverSeen
<1>1. PresenceTypeOK
  BY DEF PresenceInv
<1>2. [socket |-> s, st |-> st] \in [socket : PresenceSockets \cup {NoSocket},
                                     st : Shown \cup {"none", "offline"}]
      /\ NeverSeen \in [socket : PresenceSockets \cup {NoSocket}, st : Shown \cup {"none", "offline"}]
  BY DEF NeverSeen
<1>3. CASE ~Taken(k, s) /\ seen' = [seen EXCEPT ![k] = [socket |-> s, st |-> st]]
  BY <1>1, <1>2, <1>3 DEF PresenceTypeOK, Taken, RowOf
<1>4. CASE seen' = Moved(k, s, st)
  BY <1>1, <1>2, <1>4 DEF PresenceTypeOK, Moved, RowOf
<1> QED
  BY <1>3, <1>4 DEF Upsert

LEMMA UpsertKeeps ==
    ASSUME PresenceInv, NEW k \in PresenceKeys, NEW s \in PresenceSockets, NEW st \in Shown,
           Upsert(k, s, st)
    PROVE  PresenceInv'
<1>1. PresenceTypeOK /\ SocketsAreOwn /\ SaysLast /\ s # NoSocket
  BY SocketAssumption DEF PresenceInv
<1>2. /\ seen'[k] = [socket |-> s, st |-> st]
      /\ \A j \in PresenceKeys \ {k} :
            \/ seen'[j] = seen[j] /\ seen[j].socket # s
            \/ seen'[j] = NeverSeen
  BY RowWritten
<1>3. /\ silent' = silent \ ({k} \cup RowOf(s)) /\ said' = [said EXCEPT ![<<k, s>>] = st]
      /\ beats < MaxBeats /\ beats' = beats + 1
  BY DEF Upsert, Beats
<1>4. PresenceTypeOK'
  <2>1. <<k, s>> \in PresenceKeys \X PresenceSockets
    OBVIOUS
  <2>2. said' \in [PresenceKeys \X PresenceSockets -> Shown \cup {"none", "offline"}]
    BY <1>1, <1>3, <2>1 DEF PresenceTypeOK
  <2>3. beats' \in 0..MaxBeats
    BY <1>1, <1>3, BeatAssumption DEF PresenceTypeOK
  <2> QED
    BY <1>1, <1>3, <2>2, <2>3, RowWritten DEF PresenceTypeOK
<1>5. SocketsAreOwn'
  BY <1>1, <1>2 DEF SocketsAreOwn, NeverSeen
<1>6. said'[<<k, s>>] = st
  BY <1>1, <1>3 DEF PresenceTypeOK
<1>7. \A j \in PresenceKeys \ {k}, t \in PresenceSockets : said'[<<j, t>>] = said[<<j, t>>]
  BY <1>1, <1>3 DEF PresenceTypeOK
<1>8. ASSUME NEW j \in PresenceKeys, j # k, seen'[j].socket # NoSocket
      PROVE  /\ seen'[j] = seen[j] /\ seen[j].socket \in PresenceSockets
             /\ j \notin silent' => j \notin silent
  BY <1>1, <1>2, <1>3, <1>8 DEF NeverSeen, PresenceTypeOK, RowOf
<1>9. SaysLast'
  <2>1. \A j \in PresenceKeys \ silent' : seen'[j].socket # NoSocket =>
           seen'[j].st = said'[<<j, seen'[j].socket>>]
    BY <1>1, <1>2, <1>6, <1>7, <1>8 DEF SaysLast
  <2>2. ASSUME NEW j \in Listed' PROVE said'[<<j, seen'[j].socket>>] \in Shown
    <3>1. CASE j = k
      BY <1>2, <1>6, <3>1
    <3>2. CASE j # k
      <4>1. j \in PresenceKeys /\ seen'[j].st \in Shown
        BY DEF Listed
      <4>2. seen'[j].socket # NoSocket
        BY <1>5, <4>1 DEF SocketsAreOwn, Shown
      <4>3. seen'[j] = seen[j] /\ seen[j].socket \in PresenceSockets /\ j \in Listed
        BY <1>8, <3>2, <4>1, <4>2 DEF Listed
      <4> QED
        BY <1>1, <1>7, <3>2, <4>1, <4>3 DEF SaysLast
    <3> QED
      BY <3>1, <3>2
  <2> QED
    BY <2>1, <2>2 DEF SaysLast
<1> QED
  BY <1>4, <1>5, <1>9 DEF PresenceInv

LEMMA GoodbyeKeeps ==
    ASSUME PresenceInv, NEW k \in PresenceKeys, NEW s \in PresenceSockets, MarkSocketOffline(k, s)
    PROVE  PresenceInv'
<1>1. PresenceTypeOK /\ SocketsAreOwn /\ SaysLast /\ s # NoSocket
  BY SocketAssumption DEF PresenceInv
<1>2. said' = [said EXCEPT ![<<k, s>>] = "offline"] /\ beats < MaxBeats /\ beats' = beats + 1
  BY DEF MarkSocketOffline, Beats
<1>3. /\ said'[<<k, s>>] = "offline"
      /\ \A j \in PresenceKeys, t \in PresenceSockets :
            j # k \/ t # s => said'[<<j, t>>] = said[<<j, t>>]
  BY <1>1, <1>2 DEF PresenceTypeOK
<1>4. said' \in [PresenceKeys \X PresenceSockets -> Shown \cup {"none", "offline"}]
      /\ beats' \in 0..MaxBeats
  BY <1>1, <1>2, BeatAssumption DEF PresenceTypeOK
<1>5. CASE seen[k].socket = s
  <2>1. seen' = [seen EXCEPT ![k].st = "offline"] /\ silent' = silent \ {k}
    BY <1>5 DEF MarkSocketOffline, OwnSocket
  <2>2. /\ seen'[k].st = "offline" /\ seen'[k].socket = s
        /\ \A j \in PresenceKeys : j # k => seen'[j] = seen[j]
    BY <1>1, <1>5, <2>1 DEF PresenceTypeOK
  <2>3. PresenceTypeOK'
    BY <1>1, <1>4, <2>1 DEF PresenceTypeOK
  <2>4. SocketsAreOwn'
    BY <1>1, <1>5, <2>2 DEF SocketsAreOwn
  <2>5. \A j \in PresenceKeys : seen[j].socket \in PresenceSockets \cup {NoSocket}
    BY <1>1 DEF PresenceTypeOK
  <2>6. SaysLast'
    <3>1. \A j \in PresenceKeys \ silent' : seen'[j].socket # NoSocket =>
             seen'[j].st = said'[<<j, seen'[j].socket>>]
      BY <1>1, <1>3, <2>1, <2>2, <2>5 DEF SaysLast
    <3>2. \A j \in Listed' : j \in Listed /\ j # k /\ seen[j].socket # NoSocket
      BY <1>1, <2>2 DEF Listed, Shown, SocketsAreOwn
    <3> QED
      BY <1>1, <1>3, <2>2, <2>5, <3>1, <3>2 DEF SaysLast, Listed
  <2> QED
    BY <2>3, <2>4, <2>6 DEF PresenceInv
<1>6. CASE seen[k].socket # s
  <2>1. UNCHANGED <<seen, silent>>
    BY <1>6 DEF MarkSocketOffline, OwnSocket
  <2>2. \A j \in PresenceKeys : seen[j].socket \in PresenceSockets \cup {NoSocket}
    BY <1>1 DEF PresenceTypeOK
  <2>3. \A j \in Listed : seen[j].socket # NoSocket /\ j \in PresenceKeys
    BY <1>1 DEF Listed, Shown, SocketsAreOwn
  <2>4. \A j \in PresenceKeys : seen[j].socket # NoSocket =>
           said'[<<j, seen[j].socket>>] = said[<<j, seen[j].socket>>]
    BY <1>3, <1>6, <2>2
  <2>5. Listed' = Listed
    BY <2>1 DEF Listed
  <2>6. SaysLast'
    BY <1>1, <2>1, <2>3, <2>4, <2>5 DEF SaysLast
  <2> QED
    BY <1>1, <1>4, <2>1, <2>6 DEF PresenceInv, PresenceTypeOK, SocketsAreOwn
<1> QED
  BY <1>5, <1>6

LEMMA PresenceStep == ASSUME PresenceInv, [PresenceNext]_presenceVars PROVE PresenceInv'
<1>1. PresenceTypeOK /\ SocketsAreOwn /\ SaysLast
  BY DEF PresenceInv
<1>2. CASE UNCHANGED presenceVars
  BY <1>1, <1>2 DEF presenceVars, PresenceInv, PresenceTypeOK, SocketsAreOwn, SaysLast, Listed
<1>3. CASE Heartbeat
  BY <1>3, UpsertKeeps, GoodbyeKeeps DEF Heartbeat
<1>4. CASE HeartbeatFails
  BY <1>1, <1>4, BeatAssumption
     DEF HeartbeatFails, PresenceInv, PresenceTypeOK, SocketsAreOwn, SaysLast, Listed
<1>5. CASE FallsSilent
  BY <1>1, <1>5 DEF FallsSilent, PresenceInv, PresenceTypeOK, SocketsAreOwn, SaysLast, Listed
<1>6. CASE CleanupStale
  <2>1. PresenceTypeOK'
    BY <1>1, <1>6 DEF CleanupStale, PresenceTypeOK
  <2>2. \A k \in PresenceKeys :
           /\ seen'[k].socket = seen[k].socket
           /\ \/ seen'[k] = seen[k]
              \/ k \in silent /\ seen'[k].st = "offline" /\ seen[k].st \in Shown
    BY <1>1, <1>6 DEF CleanupStale, PresenceTypeOK
  <2>3. SocketsAreOwn'
    BY <1>1, <2>2 DEF SocketsAreOwn, Shown
  <2>4. \A k \in Listed' : k \in Listed /\ seen'[k] = seen[k]
    BY <2>2 DEF Listed, Shown
  <2>5. SaysLast'
    BY <1>1, <1>6, <2>2, <2>4 DEF SaysLast, CleanupStale
  <2> QED
    BY <2>1, <2>3, <2>5 DEF PresenceInv
<1> QED
  BY <1>2, <1>3, <1>4, <1>5, <1>6 DEF PresenceNext

(* For any number of people, devices and sockets: a socket has one row,    *)
(* and the row shows what its own socket said last, however heartbeats,    *)
(* late goodbyes and the sweep interleave (module presence).               *)
THEOREM PresenceStaysTrue == PresenceSpec => []PresenceIsTrue
<1>1. PresenceInv => PresenceIsTrue
  <2> SUFFICES ASSUME PresenceInv PROVE PresenceIsTrue
    OBVIOUS
  <2>1. ASSUME NEW s \in PresenceSockets PROVE Cardinality(RowOf(s)) <= 1
    <3>1. s # NoSocket
      BY SocketAssumption
    <3>2. RowOf(s) = {} \/ \E k : RowOf(s) = {k}
      BY <3>1 DEF PresenceInv, SocketsAreOwn, RowOf
    <3>3. Cardinality({}) = 0 /\ \A k : Cardinality({k}) = 1
      BY FS_EmptySet, FS_Singleton
    <3>4. Cardinality(RowOf(s)) \in {0, 1}
      BY <3>2, <3>3, Zenon
    <3> QED
      BY <3>4
  <2> QED
    BY <2>1 DEF PresenceInv, SaysLast, PresenceIsTrue
<1> QED
  BY <1>1, PresenceStarts, PresenceStep, PTL DEF PresenceSpec

-----------------------------------------------------------------------------
(* Notices.                                                                *)
ChannelWishes == [mode : Modes \cup {"none"}, until : Untils]
Sights == [space : Modes \cup {"none"}, channel : ChannelWishes]

(* What a notice of a type goes with: the settings asked for it, or only   *)
(* the 'mentions' of the channel did not.                                  *)
Explains(s, type) == AskedFor(type, s) \/ ChannelMentionsUnheeded(type, s)

NoticesInv ==
    /\ NoticesTypeOK /\ NoticesWereWanted
    /\ shown \in [Posts -> [Readers -> Sights]]

LEMMA NoticesStart == NoticesInit => NoticesInv
<1> SUFFICES ASSUME NoticesInit PROVE NoticesInv
  OBVIOUS
<1>1. NoticesTypeOK
  BY NoticeAssumption DEF NoticesInit, NoticesTypeOK, NoWish, Untils
<1>2. NoSight \in Sights
  BY DEF NoSight, NoWish, Sights, ChannelWishes, Untils
<1>3. NoticesWereWanted
  BY DEF NoticesInit, NoticesWereWanted
<1> QED
  BY <1>1, <1>2, <1>3 DEF NoticesInit, NoticesInv

(* Changes of settings and members leave the notices alone.                *)
LEMMA NoticesKept ==
    ASSUME NoticesInv, NoticesTypeOK', UNCHANGED <<notice, readBy, shown>>
    PROVE  NoticesInv'
BY DEF NoticesInv, NoticesWereWanted

LEMMA ChangesTyped == ASSUME NoticesTypeOK, Changes PROVE wishes' \in 0..MaxNotices
BY NoticeAssumption DEF Changes, NoticesTypeOK

LEMMA ReadsKeep ==
    ASSUME NoticesInv, NEW S \in SUBSET (Posts \X Readers), Reads(S),
           \A x \in S : notice[x[1]][x[2]] # "none"
    PROVE  NoticesInv'
BY DEF NoticesInv, NoticesTypeOK, NoticesWereWanted, Reads, settingVars

(* What somebody who is notified was shown: not muted, and mentions only   *)
(* for the workspace only if he is mentioned.                              *)
LEMMA RecipientsWant ==
    ASSUME NoticesTypeOK, NEW e \in Posts, NEW u \in Recipients(e)
    PROVE  /\ Settings(u) \in Sights
           /\ Explains(Settings(u), IF u \in MentionsOf[e] THEN "mention" ELSE "message")
           /\ u \in Readers /\ u # AuthorOf[e] /\ notice[e][u] = "none"
<1>1. /\ u \in inChannel /\ u \in Readers /\ u # AuthorOf[e] /\ notice[e][u] = "none"
      /\ Wants(u, e) /\ Hears(u)
  BY DEF Recipients, NoticesTypeOK
<1>2. /\ GetChannelPreference(u) \in ChannelWishes
      /\ GetChannelPreference(u).mode # "muted" /\ GetChannelPreference(u).until # "later"
  BY <1>1 DEF GetChannelPreference, NoWish, Hears, NoticesTypeOK, ChannelWishes, Modes, Untils
<1>3. /\ GetPreference(u) \in Modes \cup {"none"} /\ GetPreference(u) # "muted"
      /\ GetPreference(u) = "mentions" => u \in MentionsOf[e]
  BY <1>1 DEF GetPreference, Wants, NoticesTypeOK, Modes
<1>4. PICK sp \in Modes \cup {"none"}, ch \in ChannelWishes :
         /\ Settings(u) = [space |-> sp, channel |-> ch] /\ sp # "muted"
         /\ ch.mode # "muted" /\ ch.until # "later"
         /\ sp = "mentions" => u \in MentionsOf[e]
  BY <1>2, <1>3 DEF Settings
<1>5. Settings(u) \in Sights
  BY <1>4 DEF Sights
<1>6. Settings(u).space = sp /\ Settings(u).channel = ch
  BY <1>4
<1>7. CASE u \in MentionsOf[e]
  BY <1>1, <1>4, <1>5, <1>6, <1>7 DEF Explains, AskedFor
<1>8. CASE u \notin MentionsOf[e]
  BY <1>1, <1>4, <1>5, <1>6, <1>8 DEF Explains, AskedFor, ChannelMentionsUnheeded
<1> QED
  BY <1>7, <1>8

LEMMA NoticesOfOne ==
    ASSUME NoticesInv, NEW e \in Posts, CreateMessageNotifications(e) PROVE NoticesInv'
<1> DEFINE Said(u) == IF u \in MentionsOf[e] THEN "mention" ELSE "message"
<1>1. NoticesTypeOK /\ NoticesWereWanted /\ shown \in [Posts -> [Readers -> Sights]]
  BY DEF NoticesInv
<1>2. \A u \in Recipients(e) :
         /\ Settings(u) \in Sights /\ Explains(Settings(u), Said(u))
         /\ u \in Readers /\ u # AuthorOf[e] /\ notice[e][u] = "none"
  BY <1>1, RecipientsWant
<1>3. /\ notice' = [notice EXCEPT ![e] = [u \in Readers |-> IF u \notin Recipients(e) THEN @[u] ELSE Said(u)]]
      /\ shown' = [shown EXCEPT ![e] = [u \in Readers |-> IF u \notin Recipients(e) THEN @[u] ELSE Settings(u)]]
      /\ UNCHANGED <<settingVars, readBy>>
  BY DEF CreateMessageNotifications
<1>4. \A u \in Readers : Said(u) \in {"message", "mention"} /\ (Said(u) = "mention" <=> u \in MentionsOf[e])
  OBVIOUS
<1> HIDE DEF Said
<1>5. shown' \in [Posts -> [Readers -> Sights]]
  BY <1>1, <1>2, <1>3
<1>6. NoticesTypeOK'
  BY <1>1, <1>3, <1>4 DEF NoticesTypeOK, settingVars
<1>7. ASSUME NEW f \in Posts, NEW u \in Readers
      PROVE  \/ notice'[f][u] = notice[f][u] /\ shown'[f][u] = shown[f][u]
             \/ f = e /\ u \in Recipients(e) /\ notice'[f][u] = Said(u) /\ shown'[f][u] = Settings(u)
  BY <1>1, <1>3 DEF NoticesTypeOK
<1>8. NoticesWereWanted'
  <2>1. ASSUME NEW f \in Posts, NEW u \in Readers, notice'[f][u] # "none"
        PROVE  /\ u # AuthorOf[f] /\ (notice'[f][u] = "mention" <=> u \in MentionsOf[f])
               /\ Explains(shown'[f][u], notice'[f][u])
    <3>1. CASE notice'[f][u] = notice[f][u] /\ shown'[f][u] = shown[f][u]
      <4>1. /\ u # AuthorOf[f] /\ (notice[f][u] = "mention" <=> u \in MentionsOf[f])
            /\ Explains(shown[f][u], notice[f][u])
        BY <1>1, <2>1, <3>1 DEF NoticesWereWanted, Explains
      <4> QED
        BY <3>1, <4>1
    <3>2. CASE f = e /\ u \in Recipients(e) /\ notice'[f][u] = Said(u) /\ shown'[f][u] = Settings(u)
      BY <1>2, <1>4, <3>2
    <3> QED
      BY <1>7, <3>1, <3>2
  <2>2. \A x \in readBy' : notice'[x[1]][x[2]] # "none"
    BY <1>1, <1>3, <1>4, <1>7 DEF NoticesWereWanted, NoticesTypeOK
  <2> QED
    BY <2>1, <2>2 DEF NoticesWereWanted, Explains
<1> QED
  BY <1>5, <1>6, <1>8 DEF NoticesInv

LEMMA NoticesStep == ASSUME NoticesInv, [NoticesNext]_noticeVars PROVE NoticesInv'
<1>1. NoticesTypeOK
  BY DEF NoticesInv
<1>2. CASE UNCHANGED noticeVars
  <2>1. NoticesTypeOK'
    BY <1>1, <1>2 DEF noticeVars, settingVars, NoticesTypeOK
  <2> QED
    BY <1>2, <2>1, NoticesKept DEF noticeVars
<1>3. ASSUME NEW u \in Readers, UpsertPreference(u) \/ UpsertChannelPreference(u) PROVE NoticesInv'
  <2>1. UNCHANGED <<notice, readBy, shown>> /\ wishes' \in 0..MaxNotices
    BY <1>1, <1>3, ChangesTyped DEF UpsertPreference, UpsertChannelPreference, Changes
  <2>2. /\ wish' \in [Readers -> Modes \cup {"none"}]
        /\ channelWish' \in [Readers -> [mode : Modes \cup {"none"}, until : Untils]]
        /\ UNCHANGED <<inSpace, inChannel, spaceUp>>
    <3>1. CASE UpsertPreference(u)
      BY <1>1, <3>1 DEF UpsertPreference, Accepted, NoticesTypeOK
    <3>2. CASE UpsertChannelPreference(u)
      <4>1. \E r \in [mode : Modes \cup {"none"}, until : Untils] :
               channelWish' = [channelWish EXCEPT ![u] = r]
        BY <3>2 DEF UpsertChannelPreference, Accepted, Untils
      <4>2. UNCHANGED <<inSpace, inChannel, spaceUp, wish>>
        BY <3>2 DEF UpsertChannelPreference
      <4>3. channelWish \in [Readers -> [mode : Modes \cup {"none"}, until : Untils]]
            /\ wish \in [Readers -> Modes \cup {"none"}]
        BY <1>1 DEF NoticesTypeOK
      <4> QED
        BY <4>1, <4>2, <4>3
    <3> QED
      BY <1>3, <3>1, <3>2
  <2>3. NoticesTypeOK'
    BY <1>1, <2>1, <2>2 DEF NoticesTypeOK
  <2> QED
    BY <2>1, <2>3, NoticesKept
<1>4. ASSUME NEW u \in Readers, MarkRead(u) PROVE NoticesInv'
  <2>1. PICK e \in ListForUser(u) : Reads({<<e, u>>})
    BY <1>4 DEF MarkRead
  <2> QED
    BY <2>1, ReadsKeep DEF ListForUser
<1>5. ASSUME NEW u \in Readers, MarkAllRead(u) PROVE NoticesInv'
  <2>1. \A x \in ListForUser(u) \X {u} : x \in Posts \X Readers /\ notice[x[1]][x[2]] # "none"
    BY DEF ListForUser
  <2> QED
    BY <1>5, <2>1, ReadsKeep DEF MarkAllRead
<1>6. ASSUME NEW u \in Readers, MuteRunsOut(u) PROVE NoticesInv'
  <2>1. NoticesTypeOK'
    BY <1>1, <1>6 DEF MuteRunsOut, NoticesTypeOK, Untils
  <2> QED
    BY <1>6, <2>1, NoticesKept DEF MuteRunsOut
<1>7. CASE MembersChange
  <2>1. UNCHANGED <<notice, readBy, shown>> /\ wishes' \in 0..MaxNotices
    BY <1>1, <1>7, ChangesTyped DEF MembersChange, Changes
  <2>2. NoticesTypeOK'
    BY <1>1, <1>7, <2>1 DEF MembersChange, Toggled, NoticesTypeOK
  <2> QED
    BY <2>1, <2>2, NoticesKept
<1> QED
  BY <1>2, <1>3, <1>4, <1>5, <1>6, <1>7, NoticesOfOne DEF NoticesNext

(* For any members, messages and settings, however settings and membership *)
(* change while notices are written and read: nobody is notified of what,  *)
(* as he was shown it, he had muted, or not asked for in the workspace, or *)
(* of his own message, and only notices are read; a channel's 'mentions'   *)
(* is the one setting shown that is not heeded (module notifications).     *)
THEOREM NoticesStayWanted == NoticesSpec => [](NoticesTypeOK /\ NoticesWereWanted)
<1>1. NoticesInv => NoticesTypeOK /\ NoticesWereWanted
  BY DEF NoticesInv
<1> QED
  BY <1>1, NoticesStart, NoticesStep, PTL DEF NoticesSpec

-----------------------------------------------------------------------------
(* Roles, tickets and posts: what a request was admitted for stays true    *)
(* enough until it runs.                                                   *)

(* Whoever may give roles now is remembered, and so is whoever a request   *)
(* under way gives them for.                                               *)
GrantsRemembered ==
    /\ Granters \subseteq granters
    /\ \A p \in PermitRequests : doing[p].op \in {"assignRole", "addMember"} =>
          <<doing[p].at, doing[p].by>> \in granters

(* A ticket that somebody has is of a workspace.                           *)
TicketsAreSomewhere == \A t \in Tickets : ticket[t].who # Nobody => ticket[t].at \in Places

PermitsInv ==
    /\ PermitsTypeOK /\ RolesStayHome /\ TicketsAreDated
    /\ GrantsRemembered /\ TicketsAreSomewhere

(* A program that began with a spent credential never gets to post, and    *)
(* one that posts has a channel.                                           *)
RunsFit ==
    /\ run \in [Programs -> [step : {"idle", "find", "post"}, with : ApiTokens \cup Incoming \cup {"none"},
                             at : {Global} \cup Places, room : Rooms \cup {NoRoom}, late : BOOLEAN]]
    /\ \A p \in Programs :
          /\ run[p].step = "find" /\ run[p].late => run[p].with \in spent
          /\ run[p].step = "find" /\ run[p].with \in ApiTokens => run[p].room # NoRoom
          /\ run[p].step = "post" => run[p].room # NoRoom /\ ~run[p].late

IntegrationsInv == IntegrationsTypeOK /\ RunsFit /\ PostsWereAllowed

WorkspacesInv == PermitsInv /\ IntegrationsInv

LEMMA PermitsStart == PermitsInit => PermitsInv
<1> SUFFICES ASSUME PermitsInit PROVE PermitsInv
  OBVIOUS
<1> USE DEF PermitsInit
<1>1. \A c \in DOMAIN SystemRoles : <<Global, c>> \in RoleIds
  BY SystemAssumption DEF RoleIds
<1>2. DOMAIN can \subseteq RoleIds /\ \A r \in DOMAIN can : can[r] \subseteq Permissions
  BY <1>1, SystemAssumption
<1>3. <<Global, "workspace_owner">> \in DOMAIN can /\ <<Global, "workspace_owner">> \in RoleIds
  BY <1>1, SystemAssumption
<1>4. \A x \in DOMAIN givenBy :
         \E w \in Places : x = <<w, Owner[w], <<Global, "workspace_owner">>>> /\ givenBy[x] = Owner[w]
  OBVIOUS
<1>5. \A w \in Places : Owner[w] \in People /\ standing[w][Owner[w]] = "active"
  BY OwnerAssumption
<1>6. granters \subseteq Places \X People
  BY DEF Granters
<1>7. \A t \in Tickets : ticket[t] = NoTicket
  OBVIOUS
<1>8. PermitsTypeOK
  <2>1. DOMAIN givenBy \subseteq Places \X People \X RoleIds /\ \A x \in DOMAIN givenBy : givenBy[x] \in People
    <3> SUFFICES ASSUME NEW x \in DOMAIN givenBy
                 PROVE  x \in Places \X People \X RoleIds /\ givenBy[x] \in People
      OBVIOUS
    <3>1. PICK w \in Places : x = <<w, Owner[w], <<Global, "workspace_owner">>>> /\ givenBy[x] = Owner[w]
      BY <1>4
    <3> QED
      BY <1>3, <1>5, <3>1
  <2>2. ticket \in [Tickets -> [st : {"none"} \cup TicketStatus, at : {Global} \cup Places,
                                who : People \cup {Nobody}, resolved : BOOLEAN, closed : BOOLEAN]]
    BY DEF NoTicket
  <2>3. standing \in [Places -> [People -> Standings]]
    BY DEF Standings
  <2>4. admitted \in 0..MaxPermits
    BY AskAssumption
  <2>5. archived \subseteq Places /\ doing \in [PermitRequests -> PermitAsks \cup {NoAsk}]
    OBVIOUS
  <2> QED
    BY <1>2, <1>6, <2>1, <2>2, <2>3, <2>4, <2>5 DEF PermitsTypeOK
<1>9. RolesStayHome
  <2> SUFFICES ASSUME NEW x \in DOMAIN givenBy
               PROVE  /\ x[3] \in ListRoles(x[1]) /\ standing[x[1]][x[2]] # "none"
                      /\ <<x[1], givenBy[x]>> \in granters
    BY DEF RolesStayHome
  <2>1. PICK w \in Places : x = <<w, Owner[w], <<Global, "workspace_owner">>>> /\ givenBy[x] = Owner[w]
    BY <1>4
  <2>2. x[1] = w /\ x[2] = Owner[w] /\ x[3] = <<Global, "workspace_owner">>
    BY <2>1
  <2>3. x[3] \in ListRoles(w)
    BY <1>3, <2>2 DEF ListRoles
  <2>4. <<w, Owner[w]>> \in Granters
    BY <1>5 DEF Granters, HasWorkspacePermission, MayGive
  <2> QED
    BY <1>5, <2>1, <2>2, <2>3, <2>4
<1>10. TicketsAreDated /\ TicketsAreSomewhere
  BY <1>7 DEF TicketsAreDated, TicketsAreSomewhere, NoTicket
<1>11. GrantsRemembered
  BY DEF GrantsRemembered, NoAsk, Ask
<1> QED
  BY <1>8, <1>9, <1>10, <1>11 DEF PermitsInv

-----------------------------------------------------------------------------
(* What a request under way asked for is one of PermitAsks.                *)
LEMMA Doing ==
    ASSUME PermitsTypeOK, NEW p \in PermitRequests, doing[p].op # "none"
    PROVE  doing[p] \in PermitAsks /\ doing[p].at \in Places /\ doing[p].by \in People
           /\ doing[p].role[2] \in Codes /\ doing[p].role \in RoleIds
BY AskAssumption DEF PermitsTypeOK, NoAsk, Ask, RoleIds

(* A step that leaves roles and members alone, and whose request was       *)
(* allowed what it asks.                                                   *)
LEMMA OnlyDoing ==
    ASSUME PermitsInv, UNCHANGED <<memberVars, roleVars, granters, ticket>>,
           NEW p \in PermitRequests, NEW a \in PermitAsks \cup {NoAsk},
           doing' = [doing EXCEPT ![p] = a], admitted' \in 0..MaxPermits,
           a.op \in {"assignRole", "addMember"} => <<a.at, a.by>> \in Granters
    PROVE  PermitsInv'
<1>1. PermitsTypeOK'
  BY DEF PermitsInv, PermitsTypeOK, memberVars, roleVars
<1>2. RolesStayHome' /\ TicketsAreDated' /\ TicketsAreSomewhere'
  BY DEF PermitsInv, RolesStayHome, TicketsAreDated, TicketsAreSomewhere, ListRoles, memberVars, roleVars
<1>3. Granters' = Granters
  BY DEF Granters, HasWorkspacePermission, RolesOf, Holds, memberVars, roleVars
<1>4. GrantsRemembered'
  BY <1>3 DEF PermitsInv, GrantsRemembered, PermitsTypeOK
<1> QED
  BY <1>1, <1>2, <1>4 DEF PermitsInv

LEMMA AdmitKeeps ==
    ASSUME PermitsInv, NEW p \in PermitRequests, AdmitPerson(p) PROVE PermitsInv'
<1>1. PICK a \in PermitAsks :
         /\ \/ a.op = "createRole" /\ MayCreateRole(a)
            \/ a.op = "assignRole" /\ MayAssignRole(a)
            \/ a.op = "revokeRole" /\ MayRevokeRole(a)
            \/ a.op = "addMember" /\ MayAddMember(a)
            \/ a.op = "setStatus" /\ MaySetStatus(a)
            \/ a.op = "archive" /\ MayArchive(a)
            \/ a.op = "openTicket" /\ MayOpenTicket(a)
            \/ a.op = "updateTicket" /\ MayUpdateTicket(a)
         /\ doing' = [doing EXCEPT ![p] = a]
  BY DEF AdmitPerson
<1>2. a.op = "assignRole" => MayAssignRole(a)
  BY <1>1
<1>3. a.op = "addMember" => MayAddMember(a)
  BY <1>1
<1>4. a.at \in Places /\ a.by \in People
  BY AskAssumption
<1>5. a.op \in {"assignRole", "addMember"} => <<a.at, a.by>> \in Granters
  BY <1>2, <1>3, <1>4 DEF MayAssignRole, MayAddMember, Granters, MayGive
<1>6. admitted' \in 0..MaxPermits
  BY AskAssumption DEF AdmitPerson, PermitsInv, PermitsTypeOK
<1>7. UNCHANGED <<memberVars, roleVars, granters, ticket>>
  BY DEF AdmitPerson
<1> QED
  BY <1>1, <1>5, <1>6, <1>7, OnlyDoing

LEMMA NothingKeeps ==
    ASSUME PermitsInv, NEW p \in PermitRequests, NothingDone(p) PROVE PermitsInv'
<1>1. admitted' \in 0..MaxPermits /\ NoAsk.op = "none"
  BY DEF NothingDone, PermitsInv, PermitsTypeOK, NoAsk, Ask
<1> QED
  BY <1>1, OnlyDoing DEF NothingDone

(* The end of a statement.                                                 *)
LEMMA RunEnds ==
    ASSUME PermitsTypeOK, NEW p \in PermitRequests, NEW op, Runs(p, op)
    PROVE  /\ doing' \in [PermitRequests -> PermitAsks \cup {NoAsk}] /\ admitted' \in 0..MaxPermits
           /\ \A q \in PermitRequests : doing'[q] = NoAsk \/ doing'[q] = doing[q]
BY DEF Runs, PermitsTypeOK

(* A statement that forgets nobody who could give roles, drops no role     *)
(* that exists and makes no member one who never was.                      *)
LEMMA StatementKeeps ==
    ASSUME PermitsInv, NEW p \in PermitRequests, NEW op, Runs(p, op), Remember,
           archived' \subseteq Places, standing' \in [Places -> [People -> Standings]],
           DOMAIN can' \subseteq RoleIds, \A r \in DOMAIN can' : can'[r] \subseteq Permissions,
           DOMAIN can \subseteq DOMAIN can',
           \A w \in Places, u \in People : standing[w][u] # "none" => standing'[w][u] # "none",
           ticket' = ticket,
           \A x \in DOMAIN givenBy' :
              \/ x \in DOMAIN givenBy /\ givenBy'[x] = givenBy[x]
              \/ /\ x \in Places \X People \X RoleIds /\ <<x[1], givenBy'[x]>> \in granters
                 /\ x[3] \in DOMAIN can /\ x[3][1] \in {Global, x[1]}
                 /\ standing'[x[1]][x[2]] # "none"
    PROVE  PermitsInv'
<1>1. /\ PermitsTypeOK /\ RolesStayHome /\ TicketsAreDated /\ GrantsRemembered
      /\ TicketsAreSomewhere
  BY DEF PermitsInv
<1>2. granters' = granters \cup Granters'
  BY DEF Remember
<1>3. Granters' \subseteq Places \X People
  BY DEF Granters
<1>4. DOMAIN givenBy' \subseteq Places \X People \X RoleIds /\ \A x \in DOMAIN givenBy' : givenBy'[x] \in People
  <2> SUFFICES ASSUME NEW x \in DOMAIN givenBy'
               PROVE  x \in Places \X People \X RoleIds /\ givenBy'[x] \in People
    OBVIOUS
  <2>1. CASE x \in DOMAIN givenBy /\ givenBy'[x] = givenBy[x]
    BY <1>1, <2>1 DEF PermitsTypeOK
  <2>2. CASE x \in Places \X People \X RoleIds /\ <<x[1], givenBy'[x]>> \in granters
    BY <1>1, <2>2 DEF PermitsTypeOK
  <2> QED
    BY <2>1, <2>2
<1>5. PermitsTypeOK'
  BY <1>1, <1>2, <1>3, <1>4, RunEnds DEF PermitsTypeOK
<1>6. RolesStayHome'
  <2> SUFFICES ASSUME NEW x \in DOMAIN givenBy'
               PROVE  /\ x[3] \in ListRoles(x[1])' /\ standing'[x[1]][x[2]] # "none"
                      /\ <<x[1], givenBy'[x]>> \in granters'
    BY DEF RolesStayHome, ListRoles
  <2>1. x[1] \in Places /\ x[2] \in People
    BY <1>4
  <2>2. CASE x \in DOMAIN givenBy /\ givenBy'[x] = givenBy[x]
    BY <1>1, <1>2, <2>1, <2>2 DEF RolesStayHome, ListRoles
  <2>3. CASE ~(x \in DOMAIN givenBy /\ givenBy'[x] = givenBy[x])
    BY <1>1, <1>2, <2>3 DEF ListRoles
  <2> QED
    BY <2>2, <2>3
<1>7. TicketsAreDated' /\ TicketsAreSomewhere'
  <2> SUFFICES ASSUME NEW t \in Tickets, ticket[t].who # Nobody
               PROVE  standing'[ticket[t].at][ticket[t].who] # "none"
    BY <1>1 DEF TicketsAreDated, TicketsAreSomewhere
  <2>1. ticket[t].who \in People /\ ticket[t].at \in Places
    BY <1>1 DEF PermitsTypeOK, TicketsAreSomewhere
  <2> QED
    BY <1>1, <2>1 DEF TicketsAreDated
<1>8. GrantsRemembered'
  <2>1. \A q \in PermitRequests : doing'[q] = NoAsk \/ doing'[q] = doing[q]
    BY <1>1, RunEnds
  <2> QED
    BY <1>1, <1>2, <2>1 DEF GrantsRemembered, NoAsk, Ask
<1> QED
  BY <1>5, <1>6, <1>7, <1>8 DEF PermitsInv

LEMMA CreateRoleKeeps ==
    ASSUME PermitsInv, NEW p \in PermitRequests, CreateRole(p) PROVE PermitsInv'
<1> DEFINE r == <<doing[p].at, doing[p].role[2]>>
<1>1. PermitsTypeOK
  BY DEF PermitsInv
<1>2. Runs(p, "createRole") /\ Remember /\ UNCHANGED <<archived, standing, givenBy, ticket>>
  BY DEF CreateRole, memberVars
<1>3. r \in RoleIds
  BY <1>1, <1>2, Doing DEF Runs, RoleIds
<1>4. can' = IF r \in DOMAIN can THEN can
             ELSE [s \in DOMAIN can \cup {r} |->
                      IF s = r THEN doing[p].can \cap Permissions ELSE can[s]]
  BY DEF CreateRole
<1> HIDE DEF r
<1>5. /\ DOMAIN can' \subseteq RoleIds /\ \A s \in DOMAIN can' : can'[s] \subseteq Permissions
      /\ DOMAIN can \subseteq DOMAIN can'
  BY <1>1, <1>3, <1>4 DEF PermitsTypeOK
<1>6. archived \subseteq Places /\ standing \in [Places -> [People -> Standings]]
  BY <1>1 DEF PermitsTypeOK
<1> QED
  BY <1>2, <1>5, <1>6, StatementKeeps

(* What a gift of a role leaves in the table.                              *)
LEMMA GiveWrites ==
    ASSUME NEW w, NEW u, NEW r, NEW by, Give(w, u, r, by)
    PROVE  \A x \in DOMAIN givenBy' :
              \/ x \in DOMAIN givenBy /\ givenBy'[x] = givenBy[x]
              \/ x = <<w, u, r>> /\ givenBy'[x] = by
BY DEF Give

(* The role a request gives is remembered as somebody's to give.           *)
LEMMA GiftKeeps ==
    ASSUME PermitsInv, NEW p \in PermitRequests, NEW op \in {"assignRole", "addMember"}, Runs(p, op),
           Remember, UNCHANGED <<archived, can, ticket>>, doing[p].who \in People,
           NEW r \in DOMAIN can, r[1] \in {Global, doing[p].at},
           Give(doing[p].at, doing[p].who, r, doing[p].by),
           standing' \in [Places -> [People -> Standings]],
           \A w \in Places, u \in People : standing[w][u] # "none" => standing'[w][u] # "none",
           standing'[doing[p].at][doing[p].who] # "none"
    PROVE  PermitsInv'
<1>1. PermitsTypeOK /\ GrantsRemembered
  BY DEF PermitsInv
<1>2. doing[p].op = op
  BY DEF Runs
<1>3. doing[p].at \in Places /\ doing[p].by \in People /\ <<doing[p].at, doing[p].by>> \in granters
  BY <1>1, <1>2, Doing DEF GrantsRemembered
<1>4. \A x \in DOMAIN givenBy' :
         \/ x \in DOMAIN givenBy /\ givenBy'[x] = givenBy[x]
         \/ x = <<doing[p].at, doing[p].who, r>> /\ givenBy'[x] = doing[p].by
  BY GiveWrites
<1>5. archived \subseteq Places /\ DOMAIN can \subseteq RoleIds
      /\ \A s \in DOMAIN can : can[s] \subseteq Permissions
  BY <1>1 DEF PermitsTypeOK
<1>6. ASSUME NEW x \in DOMAIN givenBy', x = <<doing[p].at, doing[p].who, r>>,
             givenBy'[x] = doing[p].by
      PROVE  /\ x \in Places \X People \X RoleIds /\ <<x[1], givenBy'[x]>> \in granters
             /\ x[3] \in DOMAIN can /\ x[3][1] \in {Global, x[1]}
             /\ standing'[x[1]][x[2]] # "none"
  BY <1>3, <1>5, <1>6
<1> QED
  BY <1>4, <1>5, <1>6, StatementKeeps

LEMMA AssignKeeps ==
    ASSUME PermitsInv, NEW p \in PermitRequests, AssignWorkspaceRole(p) PROVE PermitsInv'
<1> DEFINE a == doing[p]
<1>1. PermitsTypeOK
  BY DEF PermitsInv
<1>2. Runs(p, "assignRole") /\ Remember /\ UNCHANGED <<archived, standing, can, ticket>>
  BY DEF AssignWorkspaceRole, memberVars
<1>3. a.at \in Places /\ a.who \in People
  BY <1>1, <1>2, Doing, AskAssumption DEF Runs
<1>4. /\ archived \subseteq Places /\ standing \in [Places -> [People -> Standings]]
      /\ DOMAIN can \subseteq RoleIds /\ \A s \in DOMAIN can : can[s] \subseteq Permissions
  BY <1>1 DEF PermitsTypeOK
<1>5. CASE Assignable(a.at, a.who, a.role)
  <2>1. Give(a.at, a.who, a.role, a.by)
    BY <1>5 DEF AssignWorkspaceRole
  <2>2. standing[a.at][a.who] = "active" /\ a.role \in DOMAIN can /\ a.role[1] \in {Global, a.at}
    BY <1>5 DEF Assignable
  <2> QED
    BY <1>2, <1>3, <1>4, <2>1, <2>2, GiftKeeps
<1>6. CASE ~Assignable(a.at, a.who, a.role)
  <2>1. givenBy' = givenBy
    BY <1>6 DEF AssignWorkspaceRole
  <2> QED
    BY <1>2, <1>4, <2>1, StatementKeeps
<1> QED
  BY <1>5, <1>6

LEMMA RevokeKeeps ==
    ASSUME PermitsInv, NEW p \in PermitRequests, RevokeWorkspaceRole(p) PROVE PermitsInv'
<1>1. PermitsTypeOK
  BY DEF PermitsInv
<1>2. Runs(p, "revokeRole") /\ Remember /\ UNCHANGED <<archived, standing, can, ticket>>
  BY DEF RevokeWorkspaceRole, memberVars
<1>3. \A x \in DOMAIN givenBy' : x \in DOMAIN givenBy /\ givenBy'[x] = givenBy[x]
  BY DEF RevokeWorkspaceRole
<1>4. /\ archived \subseteq Places /\ standing \in [Places -> [People -> Standings]]
      /\ DOMAIN can \subseteq RoleIds /\ \A s \in DOMAIN can : can[s] \subseteq Permissions
  BY <1>1 DEF PermitsTypeOK
<1> QED
  BY <1>2, <1>3, <1>4, StatementKeeps

LEMMA AddMemberKeeps ==
    ASSUME PermitsInv, NEW p \in PermitRequests, AddMember(p) PROVE PermitsInv'
<1> DEFINE a == doing[p]
<1>1. PermitsTypeOK
  BY DEF PermitsInv
<1>2. Runs(p, "addMember") /\ Remember /\ UNCHANGED <<archived, can, ticket>>
  BY DEF AddMember
<1>3. a.at \in Places /\ a.who \in People
  BY <1>1, <1>2, Doing, AskAssumption DEF Runs
<1>4. /\ archived \subseteq Places /\ standing \in [Places -> [People -> Standings]]
      /\ DOMAIN can \subseteq RoleIds /\ \A s \in DOMAIN can : can[s] \subseteq Permissions
  BY <1>1 DEF PermitsTypeOK
<1>5. ASSUME NEW r \in Chosen(a.at, a.role[2]),
             standing' = [standing EXCEPT ![a.at][a.who] = "active"], Give(a.at, a.who, r, a.by)
      PROVE  PermitsInv'
  <2>1. r \in DOMAIN can /\ r[1] \in {Global, a.at}
    BY DEF Chosen
  <2>2. /\ standing' \in [Places -> [People -> Standings]]
        /\ \A w \in Places, u \in People : standing[w][u] # "none" => standing'[w][u] # "none"
        /\ standing'[a.at][a.who] # "none"
    BY <1>3, <1>4, <1>5 DEF Standings
  <2> QED
    BY <1>2, <1>3, <1>5, <2>1, <2>2, GiftKeeps
<1>6. CASE UNCHANGED <<standing, givenBy>>
  BY <1>2, <1>4, <1>6, StatementKeeps
<1> QED
  BY <1>5, <1>6 DEF AddMember

LEMMA SetStatusKeeps ==
    ASSUME PermitsInv, NEW p \in PermitRequests, UpdateMemberStatus(p) PROVE PermitsInv'
<1> DEFINE a == doing[p]
<1>1. PermitsTypeOK
  BY DEF PermitsInv
<1>2. Runs(p, "setStatus") /\ Remember /\ UNCHANGED <<archived, can, givenBy, ticket>>
  BY DEF UpdateMemberStatus, roleVars
<1>3. a.at \in Places /\ a.who \in People /\ a.st \in {"active", "disabled", "left"}
  BY <1>1, <1>2, Doing, AskAssumption DEF Runs
<1>4. /\ archived \subseteq Places /\ standing \in [Places -> [People -> Standings]]
      /\ DOMAIN can \subseteq RoleIds /\ \A s \in DOMAIN can : can[s] \subseteq Permissions
  BY <1>1 DEF PermitsTypeOK
<1>5. standing' = IF standing[a.at][a.who] = "none" THEN standing
                  ELSE [standing EXCEPT ![a.at][a.who] = a.st]
  BY DEF UpdateMemberStatus
<1> HIDE DEF a
<1>6. /\ standing' \in [Places -> [People -> Standings]]
      /\ \A w \in Places, u \in People : standing[w][u] # "none" => standing'[w][u] # "none"
  BY <1>3, <1>4, <1>5 DEF Standings
<1> QED
  BY <1>2, <1>4, <1>6, StatementKeeps

LEMMA ArchiveKeeps ==
    ASSUME PermitsInv, NEW p \in PermitRequests, Archive(p) PROVE PermitsInv'
<1>1. PermitsTypeOK
  BY DEF PermitsInv
<1>2. Runs(p, "archive") /\ Remember /\ UNCHANGED <<standing, can, givenBy, ticket>>
      /\ archived' = archived \cup {doing[p].at}
  BY DEF Archive, roleVars
<1>3. doing[p].at \in Places
  BY <1>1, <1>2, Doing DEF Runs
<1>4. /\ archived \subseteq Places /\ standing \in [Places -> [People -> Standings]]
      /\ DOMAIN can \subseteq RoleIds /\ \A s \in DOMAIN can : can[s] \subseteq Permissions
  BY <1>1 DEF PermitsTypeOK
<1> QED
  BY <1>2, <1>3, <1>4, StatementKeeps

(* A ticket that is written has the dates of its status, and somebody who  *)
(* is a member or was one.                                                 *)
LEMMA TicketKeeps ==
    ASSUME PermitsInv, NEW p \in PermitRequests, NEW op \in {"openTicket", "updateTicket"}, Runs(p, op),
           UNCHANGED <<memberVars, roleVars, granters>>, NEW t \in Tickets,
           NEW k \in [st : {"none"} \cup TicketStatus, at : {Global} \cup Places,
                      who : People \cup {Nobody}, resolved : BOOLEAN, closed : BOOLEAN],
           ticket' = [ticket EXCEPT ![t] = k],
           k.resolved <=> k.st \in {"resolved", "closed"}, k.closed <=> k.st = "closed",
           k.who # Nobody => k.at \in Places /\ standing[k.at][k.who] # "none"
    PROVE  PermitsInv'
<1>1. PermitsTypeOK /\ RolesStayHome /\ TicketsAreDated /\ GrantsRemembered /\ TicketsAreSomewhere
  BY DEF PermitsInv
<1>2. PermitsTypeOK'
  BY <1>1, RunEnds DEF PermitsTypeOK, memberVars, roleVars
<1>3. RolesStayHome'
  BY <1>1 DEF RolesStayHome, ListRoles, memberVars, roleVars
<1>4. Granters' = Granters
  BY DEF Granters, HasWorkspacePermission, RolesOf, Holds, memberVars, roleVars
<1>5. GrantsRemembered'
  BY <1>1, <1>4, RunEnds DEF GrantsRemembered, NoAsk, Ask
<1>6. \A s \in Tickets : ticket'[s] = IF s = t THEN k ELSE ticket[s]
  BY <1>1 DEF PermitsTypeOK
<1>7. TicketsAreDated' /\ TicketsAreSomewhere'
  BY <1>1, <1>6 DEF TicketsAreDated, TicketsAreSomewhere, memberVars
<1> QED
  BY <1>2, <1>3, <1>5, <1>7 DEF PermitsInv

LEMMA CreateTicketKeeps ==
    ASSUME PermitsInv, NEW p \in PermitRequests, CreateTicket(p) PROVE PermitsInv'
<1> DEFINE a == doing[p]
           k == [NoTicket EXCEPT !.st = "open", !.at = a.at, !.who = a.who]
<1>1. PermitsTypeOK
  BY DEF PermitsInv
<1>2. Runs(p, "openTicket") /\ UNCHANGED <<memberVars, roleVars, granters>>
  BY DEF CreateTicket
<1>3. a.at \in Places /\ a.who \in People \cup {Nobody}
  BY <1>1, <1>2, Doing, AskAssumption DEF Runs
<1>4. PICK t \in Tickets : Assignee(a.at, a.who) /\ ticket' = [ticket EXCEPT ![t] = k]
  BY DEF CreateTicket
<1>6. a.who # Nobody => standing[a.at][a.who] = "active"
  BY <1>4 DEF Assignee
<1>7. k \in [st : {"none"} \cup TicketStatus, at : {Global} \cup Places,
             who : People \cup {Nobody}, resolved : BOOLEAN, closed : BOOLEAN]
  BY <1>3 DEF NoTicket, TicketStatus
<1>8. /\ k.st = "open" /\ ~k.resolved /\ ~k.closed /\ k.at = a.at /\ k.who = a.who
  BY DEF NoTicket
<1> HIDE DEF a, k
<1> QED
  BY <1>2, <1>3, <1>4, <1>6, <1>7, <1>8, TicketKeeps

LEMMA UpdateTicketKeeps ==
    ASSUME PermitsInv, NEW p \in PermitRequests, UpdateTicket(p) PROVE PermitsInv'
<1> DEFINE a == doing[p]
<1>1. PermitsTypeOK /\ TicketsAreDated
  BY DEF PermitsInv
<1>2. Runs(p, "updateTicket") /\ UNCHANGED <<memberVars, roleVars, granters>>
  BY DEF UpdateTicket
<1>3. a.at \in Places /\ a.who \in People \cup {Nobody} /\ a.st \in {"none"} \cup TicketStatus
  BY <1>1, <1>2, Doing, AskAssumption DEF Runs
<1>a. PICK t \in Tickets : \E who \in {ticket[t].who, a.who} :
         /\ ticket[t].at = a.at /\ (who # ticket[t].who => Assignee(a.at, who))
         /\ ticket' = [ticket EXCEPT ![t] = Dated([@ EXCEPT !.who = who], a.st)]
  BY DEF UpdateTicket
<1>4. PICK who \in {ticket[t].who, a.who} :
         /\ ticket[t].at = a.at /\ (who # ticket[t].who => Assignee(a.at, who))
         /\ ticket' = [ticket EXCEPT ![t] = Dated([@ EXCEPT !.who = who], a.st)]
  BY <1>a
<1> DEFINE old == [ticket[t] EXCEPT !.who = who]
           k == Dated(old, a.st)
<1>5. ticket[t] \in [st : {"none"} \cup TicketStatus, at : {Global} \cup Places,
                     who : People \cup {Nobody}, resolved : BOOLEAN, closed : BOOLEAN]
      /\ ticket' = [ticket EXCEPT ![t] = k]
  BY <1>1, <1>4 DEF PermitsTypeOK
<1>6. /\ old \in [st : {"none"} \cup TicketStatus, at : {Global} \cup Places,
                  who : People \cup {Nobody}, resolved : BOOLEAN, closed : BOOLEAN]
      /\ old.at = a.at /\ old.who = who /\ old.st = ticket[t].st
      /\ old.resolved = ticket[t].resolved /\ old.closed = ticket[t].closed
  BY <1>3, <1>4, <1>5
<1>7. /\ old.resolved <=> old.st \in {"resolved", "closed"}
      /\ old.closed <=> old.st = "closed"
  BY <1>1, <1>6 DEF TicketsAreDated
<1>8. who # Nobody => standing[a.at][who] # "none"
  BY <1>1, <1>4 DEF TicketsAreDated, Assignee
<1> HIDE DEF a, old
<1>9. k \in [st : {"none"} \cup TicketStatus, at : {Global} \cup Places,
             who : People \cup {Nobody}, resolved : BOOLEAN, closed : BOOLEAN]
  <2> DEFINE ended == a.st \in {"resolved", "closed"}
             shut == a.st = "closed"
  <2>1. ended \in BOOLEAN /\ shut \in BOOLEAN
    OBVIOUS
  <2>2. k = IF a.st = "none" THEN old
            ELSE [old EXCEPT !.st = a.st, !.resolved = ended, !.closed = shut]
    BY DEF Dated
  <2> HIDE DEF ended, shut, k
  <2> QED
    BY <1>3, <1>6, <2>1, <2>2
<1>10. /\ k.resolved <=> k.st \in {"resolved", "closed"}
       /\ k.closed <=> k.st = "closed"
       /\ k.at = a.at /\ k.who = who
  BY <1>3, <1>6, <1>7 DEF Dated
<1> HIDE DEF k
<1> QED
  BY <1>2, <1>3, <1>5, <1>8, <1>9, <1>10, TicketKeeps

LEMMA PermitsStep == ASSUME PermitsInv, PermitsNext PROVE PermitsInv'
BY AdmitKeeps, NothingKeeps, CreateRoleKeeps, AssignKeeps, RevokeKeeps, AddMemberKeeps,
   SetStatusKeeps, ArchiveKeeps, CreateTicketKeeps, UpdateTicketKeeps DEF PermitsNext

-----------------------------------------------------------------------------
(* Programs: tokens, incoming webhooks and what is posted with them.       *)

LEMMA IntegrationsStart == IntegrationsInit => IntegrationsInv
BY ProgramAssumption DEF IntegrationsInit, IntegrationsInv, IntegrationsTypeOK, RunsFit, PostsWereAllowed,
   NoToken, NoIncoming, Resting

(* Requests of people.                                                     *)
LEMMA ManagersKeepPermits ==
    ASSUME PermitsInv, NEW p \in PermitRequests,
           \/ AdmitManager(p) \/ CreateToken(p) \/ RevokeToken(p)
           \/ CreateIncoming(p) \/ UpdateIncoming(p) \/ DeleteIncoming(p)
    PROVE  PermitsInv'
<1>1. CASE AdmitManager(p)
  <2>1. PICK a \in PermitAsks :
           /\ a.op \in {"createToken", "revokeToken", "createHook", "updateHook", "deleteHook"}
           /\ doing' = [doing EXCEPT ![p] = a]
    BY <1>1 DEF AdmitManager
  <2>2. admitted' \in 0..MaxPermits
    BY <1>1, AskAssumption DEF AdmitManager, PermitsInv, PermitsTypeOK
  <2>3. UNCHANGED <<memberVars, roleVars, granters, ticket>>
    BY <1>1 DEF AdmitManager
  <2> QED
    BY <2>1, <2>2, <2>3, OnlyDoing
<1>2. ASSUME NEW op, Manages(p, op) PROVE PermitsInv'
  <2>1. /\ doing' = [doing EXCEPT ![p] = NoAsk] /\ admitted' = admitted
        /\ UNCHANGED <<memberVars, roleVars, granters, ticket>>
    BY <1>2 DEF Manages, Runs
  <2>2. admitted' \in 0..MaxPermits /\ NoAsk.op = "none"
    BY <2>1 DEF PermitsInv, PermitsTypeOK, NoAsk, Ask
  <2> QED
    BY <2>1, <2>2, OnlyDoing
<1> QED
  BY <1>1, <1>2 DEF CreateToken, RevokeToken, CreateIncoming, UpdateIncoming, DeleteIncoming

(* A change of credentials that leaves programs and posts alone.           *)
LEMMA CredentialsKeep ==
    ASSUME IntegrationsInv, UNCHANGED <<zoneOpen, closed, zoneMoves, run, posted>>,
           token' \in [ApiTokens -> [st : {"none", "active", "revoked"}, at : {Global} \cup Places,
                                     writes : BOOLEAN, due : {"never", "later", "past"}]],
           incoming' \in [Incoming -> [st : {"none", "active", "disabled", "deleted"},
                                       at : {Global} \cup Places, room : Rooms \cup {NoRoom}]],
           spent \subseteq spent', spent' \subseteq ApiTokens \cup Incoming,
           \A k \in ApiTokens : k \in spent' <=> token'[k].st = "revoked",
           \A h \in Incoming :
              /\ h \in spent' <=> incoming'[h].st = "deleted"
              /\ incoming'[h].room # NoRoom => RoomOf[incoming'[h].room] = incoming'[h].at
    PROVE  IntegrationsInv'
BY DEF IntegrationsInv, IntegrationsTypeOK, RunsFit, PostsWereAllowed

LEMMA TokensKeep ==
    ASSUME PermitsInv, IntegrationsInv, NEW p \in PermitRequests, CreateToken(p) \/ RevokeToken(p)
    PROVE  IntegrationsInv'
<1>1. PermitsTypeOK /\ IntegrationsTypeOK /\ PostsWereAllowed
  BY DEF PermitsInv, IntegrationsInv
<1>2. UNCHANGED <<zoneOpen, closed, zoneMoves, run, posted, incoming>>
  BY DEF CreateToken, RevokeToken, Manages
<1>3. CASE CreateToken(p)
  <2>1. doing[p].at \in Places
    BY <1>1, <1>3, Doing DEF CreateToken, Manages, Runs
  <2>2. PICK k \in ApiTokens, r \in [st : {"active"}, at : Places, writes : BOOLEAN,
                                     due : {"never", "later", "past"}] :
           token[k].st = "none" /\ token' = [token EXCEPT ![k] = r]
    BY <1>3, <2>1 DEF CreateToken
  <2>3. spent' = spent
    BY <1>3 DEF CreateToken
  <2>4. token' \in [ApiTokens -> [st : {"none", "active", "revoked"}, at : {Global} \cup Places,
                                  writes : BOOLEAN, due : {"never", "later", "past"}]]
    BY <1>1, <2>2 DEF IntegrationsTypeOK
  <2>5. \A j \in ApiTokens : j \in spent' <=> token'[j].st = "revoked"
    BY <1>1, <2>2, <2>3 DEF IntegrationsTypeOK, PostsWereAllowed
  <2> QED
    BY <1>1, <1>2, <2>3, <2>4, <2>5, CredentialsKeep DEF IntegrationsTypeOK, PostsWereAllowed
<1>4. CASE RevokeToken(p)
  <2>1. PICK k \in ApiTokens : token' = [token EXCEPT ![k].st = "revoked"] /\ spent' = spent \cup {k}
    BY <1>4 DEF RevokeToken
  <2>2. token' \in [ApiTokens -> [st : {"none", "active", "revoked"}, at : {Global} \cup Places,
                                  writes : BOOLEAN, due : {"never", "later", "past"}]]
    <3>1. [token[k] EXCEPT !.st = "revoked"] \in
             [st : {"none", "active", "revoked"}, at : {Global} \cup Places,
              writes : BOOLEAN, due : {"never", "later", "past"}]
      BY <1>1 DEF IntegrationsTypeOK
    <3> QED
      BY <1>1, <2>1, <3>1 DEF IntegrationsTypeOK
  <2>3. \A j \in ApiTokens : j \in spent' <=> token'[j].st = "revoked"
    BY <1>1, <2>1 DEF IntegrationsTypeOK, PostsWereAllowed
  <2>4. \A h \in Incoming : h \in spent' <=> h \in spent
    BY <2>1, ProgramAssumption
  <2> QED
    BY <1>1, <1>2, <2>1, <2>2, <2>3, <2>4, CredentialsKeep DEF IntegrationsTypeOK, PostsWereAllowed
<1> QED
  BY <1>3, <1>4

LEMMA HooksKeep ==
    ASSUME PermitsInv, IntegrationsInv, NEW p \in PermitRequests,
           CreateIncoming(p) \/ UpdateIncoming(p) \/ DeleteIncoming(p)
    PROVE  IntegrationsInv'
<1>1. PermitsTypeOK /\ IntegrationsTypeOK /\ PostsWereAllowed
  BY DEF PermitsInv, IntegrationsInv
<1>2. UNCHANGED <<zoneOpen, closed, zoneMoves, run, posted, token>>
  BY DEF CreateIncoming, UpdateIncoming, DeleteIncoming, Manages
<1>3. CASE CreateIncoming(p)
  <2>1. doing[p].at \in Places
    BY <1>1, <1>3, Doing DEF CreateIncoming, Manages, Runs
  <2>2. PICK h \in Incoming, r \in Rooms \cup {NoRoom} :
           /\ incoming[h].st = "none" /\ Givable(r, doing[p].at)
           /\ incoming' = [incoming EXCEPT ![h] = [st |-> "active", at |-> doing[p].at, room |-> r]]
    BY <1>3 DEF CreateIncoming
  <2>3. spent' = spent
    BY <1>3 DEF CreateIncoming
  <2>4. incoming' \in [Incoming -> [st : {"none", "active", "disabled", "deleted"},
                                    at : {Global} \cup Places, room : Rooms \cup {NoRoom}]]
    BY <1>1, <2>1, <2>2 DEF IntegrationsTypeOK
  <2>5. \A i \in Incoming :
           /\ i \in spent' <=> incoming'[i].st = "deleted"
           /\ incoming'[i].room # NoRoom => RoomOf[incoming'[i].room] = incoming'[i].at
    BY <1>1, <2>2, <2>3 DEF IntegrationsTypeOK, PostsWereAllowed, Givable
  <2> QED
    BY <1>1, <1>2, <2>3, <2>4, <2>5, CredentialsKeep DEF IntegrationsTypeOK, PostsWereAllowed
<1>4. CASE UpdateIncoming(p)
  <2>1. PICK h \in Incoming, st \in {"active", "disabled"} : \E r \in Rooms \cup {NoRoom} :
           /\ incoming[h].st \in {"active", "disabled"} /\ incoming[h].at = doing[p].at
           /\ r # incoming[h].room => Givable(r, doing[p].at)
           /\ incoming' = [incoming EXCEPT ![h].st = st, ![h].room = r]
    BY <1>4 DEF UpdateIncoming
  <2>2. PICK r \in Rooms \cup {NoRoom} :
           /\ incoming[h].st \in {"active", "disabled"} /\ incoming[h].at = doing[p].at
           /\ r # incoming[h].room => Givable(r, doing[p].at)
           /\ incoming' = [incoming EXCEPT ![h].st = st, ![h].room = r]
    BY <2>1
  <2>3. spent' = spent
    BY <1>4 DEF UpdateIncoming
  <2>4. incoming' \in [Incoming -> [st : {"none", "active", "disabled", "deleted"},
                                    at : {Global} \cup Places, room : Rooms \cup {NoRoom}]]
    <3> DEFINE Webhook == [st : {"none", "active", "disabled", "deleted"},
                           at : {Global} \cup Places, room : Rooms \cup {NoRoom}]
    <3>1. incoming \in [Incoming -> Webhook]
      BY <1>1 DEF IntegrationsTypeOK
    <3>2. \A x \in Webhook : [x EXCEPT !.st = st] \in Webhook /\ [x EXCEPT !.room = r] \in Webhook
      OBVIOUS
    <3> HIDE DEF Webhook
    <3>3. [incoming EXCEPT ![h].st = st] \in [Incoming -> Webhook]
      BY <3>1, <3>2
    <3>4. \A f \in [Incoming -> Webhook] : [f EXCEPT ![h].room = r] \in [Incoming -> Webhook]
      BY <3>2
    <3>5. incoming' = [[incoming EXCEPT ![h].st = st] EXCEPT ![h].room = r]
      BY <2>2
    <3>6. incoming' \in [Incoming -> Webhook]
      BY <3>3, <3>4, <3>5
    <3> QED
      BY <3>6 DEF Webhook
  <2>5. /\ incoming'[h].st = st /\ incoming'[h].room = r /\ incoming'[h].at = incoming[h].at
        /\ \A i \in Incoming : i # h => incoming'[i] = incoming[i]
    BY <1>1, <2>2 DEF IntegrationsTypeOK
  <2>6. \A i \in Incoming :
           /\ i \in spent' <=> incoming'[i].st = "deleted"
           /\ incoming'[i].room # NoRoom => RoomOf[incoming'[i].room] = incoming'[i].at
    <3>1. /\ h \in spent' <=> incoming'[h].st = "deleted"
          /\ incoming'[h].room # NoRoom => RoomOf[incoming'[h].room] = incoming'[h].at
      <4>1. incoming[h].room # NoRoom => RoomOf[incoming[h].room] = incoming[h].at
        BY <1>1 DEF PostsWereAllowed
      <4>2. r # NoRoom => RoomOf[r] = incoming[h].at
        BY <2>2, <4>1 DEF Givable
      <4>3. h \notin spent
        BY <1>1, <2>2 DEF PostsWereAllowed
      <4> QED
        BY <2>3, <2>5, <4>2, <4>3
    <3>2. ASSUME NEW i \in Incoming, i # h
          PROVE  /\ i \in spent' <=> incoming'[i].st = "deleted"
                 /\ incoming'[i].room # NoRoom => RoomOf[incoming'[i].room] = incoming'[i].at
      BY <1>1, <2>3, <2>5, <3>2 DEF PostsWereAllowed
    <3> QED
      BY <3>1, <3>2
  <2> QED
    BY <1>1, <1>2, <2>3, <2>4, <2>6, CredentialsKeep DEF IntegrationsTypeOK, PostsWereAllowed
<1>5. CASE DeleteIncoming(p)
  <2>1. PICK h \in Incoming : incoming' = [incoming EXCEPT ![h].st = "deleted"] /\ spent' = spent \cup {h}
    BY <1>5 DEF DeleteIncoming
  <2>2. incoming' \in [Incoming -> [st : {"none", "active", "disabled", "deleted"},
                                    at : {Global} \cup Places, room : Rooms \cup {NoRoom}]]
    BY <1>1, <2>1 DEF IntegrationsTypeOK
  <2>3. /\ incoming'[h].st = "deleted" /\ incoming'[h].room = incoming[h].room
        /\ incoming'[h].at = incoming[h].at
        /\ \A i \in Incoming : i # h => incoming'[i] = incoming[i]
    BY <1>1, <2>1 DEF IntegrationsTypeOK
  <2>4. \A i \in Incoming :
           /\ i \in spent' <=> incoming'[i].st = "deleted"
           /\ incoming'[i].room # NoRoom => RoomOf[incoming'[i].room] = incoming'[i].at
    BY <1>1, <2>1, <2>3 DEF PostsWereAllowed
  <2>5. \A k \in ApiTokens : k \in spent' <=> k \in spent
    BY <2>1, ProgramAssumption
  <2> QED
    BY <1>1, <1>2, <2>1, <2>2, <2>4, <2>5, CredentialsKeep DEF IntegrationsTypeOK, PostsWereAllowed
<1> QED
  BY <1>3, <1>4, <1>5

(* Requests of programs.                                                   *)
LEMMA ProgramsKeep ==
    ASSUME IntegrationsInv, NEW p \in Programs, UNCHANGED <<adminVars, spent>>,
           NEW r \in [step : {"idle", "find", "post"}, with : ApiTokens \cup Incoming \cup {"none"},
                      at : {Global} \cup Places, room : Rooms \cup {NoRoom}, late : BOOLEAN],
           run' = [run EXCEPT ![p] = r],
           r.step = "find" /\ r.late => r.with \in spent,
           r.step = "find" /\ r.with \in ApiTokens => r.room # NoRoom,
           r.step = "post" => r.room # NoRoom /\ ~r.late,
           \A x \in posted' : x \in posted \/ (x[3] \in Rooms /\ RoomOf[x[3]] = x[2] /\ ~x[4])
    PROVE  IntegrationsInv'
<1>1. IntegrationsTypeOK' /\ PostsWereAllowed'
  BY DEF IntegrationsInv, IntegrationsTypeOK, PostsWereAllowed, adminVars
<1>2. RunsFit'
  BY DEF IntegrationsInv, RunsFit
<1> QED
  BY <1>1, <1>2 DEF IntegrationsInv

LEMMA ProgramStep ==
    ASSUME IntegrationsInv, NEW p \in Programs,
           \/ SendTokenMessage(p) \/ DispatchIncoming(p) \/ Authenticate(p)
           \/ FindIncoming(p) \/ PostMessage(p) \/ GivesUp(p)
    PROVE  IntegrationsInv'
<1>1. IntegrationsTypeOK /\ RunsFit /\ PostsWereAllowed
  BY DEF IntegrationsInv
<1>2. UNCHANGED <<adminVars, spent>>
  BY DEF SendTokenMessage, DispatchIncoming, Begins, Authenticate, FindIncoming, PostMessage, GivesUp
<1> DEFINE Runs1 == [step : {"idle", "find", "post"}, with : ApiTokens \cup Incoming \cup {"none"},
                     at : {Global} \cup Places, room : Rooms \cup {NoRoom}, late : BOOLEAN]
<1>3. Resting \in Runs1 /\ Resting.step = "idle"
  BY DEF Resting
<1>4. CASE run' = [run EXCEPT ![p] = Resting] /\ posted' = posted
  BY <1>2, <1>3, <1>4, ProgramsKeep
<1>5. ASSUME NEW c \in ApiTokens \cup Incoming, NEW r \in Rooms \cup {NoRoom}, Begins(p, c, r),
             c \in ApiTokens => r # NoRoom
      PROVE  IntegrationsInv'
  <2> DEFINE spentNow == c \in spent
             new == [Resting EXCEPT !.step = "find", !.with = c, !.room = r, !.late = spentNow]
  <2>1. spentNow \in BOOLEAN
    OBVIOUS
  <2>2. run' = [run EXCEPT ![p] = new] /\ posted' = posted
    BY <1>5 DEF Begins
  <2> HIDE DEF spentNow
  <2>3. /\ new \in Runs1
        /\ new.step = "find" /\ new.with = c /\ new.room = r /\ (new.late <=> spentNow)
    BY <1>3, <2>1
  <2>4. new.late => c \in spent
    BY <2>3 DEF spentNow
  <2> HIDE DEF new
  <2> QED
    BY <1>2, <1>5, <2>2, <2>3, <2>4, ProgramsKeep
<1>6. CASE SendTokenMessage(p)
  BY <1>5, <1>6, RoomAssumption DEF SendTokenMessage
<1>7. CASE DispatchIncoming(p)
  BY <1>5, <1>7, ProgramAssumption DEF DispatchIncoming
<1>8. ASSUME NEW w \in {Global} \cup Places, NEW r \in Rooms, GoesOn(p, w, r), ~run[p].late, posted' = posted
      PROVE  IntegrationsInv'
  <2> DEFINE new == [run[p] EXCEPT !.step = "post", !.at = w, !.room = r]
  <2>1. run[p] \in Runs1
    BY <1>1 DEF RunsFit
  <2>2. new \in Runs1 /\ new.step = "post" /\ new.room = r /\ ~new.late
    BY <1>8, <2>1
  <2>3. run' = [run EXCEPT ![p] = new]
    BY <1>1, <1>8 DEF GoesOn, RunsFit
  <2> HIDE DEF new
  <2> QED
    BY <1>2, <1>8, <2>2, <2>3, RoomAssumption, ProgramsKeep
<1>9. CASE Authenticate(p)
  <2> DEFINE k == run[p].with
  <2>1. run[p].step = "find" /\ k \in ApiTokens /\ posted' = posted
    BY <1>9 DEF Authenticate
  <2>2. CASE Usable(k) /\ token[k].writes
    <3>1. GoesOn(p, token[k].at, run[p].room)
      BY <1>9, <2>2 DEF Authenticate
    <3>2. k \notin spent
      BY <1>1, <2>1, <2>2 DEF Usable, PostsWereAllowed
    <3>3. ~run[p].late /\ run[p].room \in Rooms
      BY <1>1, <2>1, <3>2 DEF RunsFit
    <3>4. token[k].at \in {Global} \cup Places
      BY <1>1, <2>1 DEF IntegrationsTypeOK
    <3> QED
      BY <1>8, <2>1, <3>1, <3>3, <3>4
  <2>3. CASE ~(Usable(k) /\ token[k].writes)
    BY <1>4, <1>9, <2>1, <2>3 DEF Authenticate, Rests
  <2> QED
    BY <2>2, <2>3
<1>10. CASE FindIncoming(p)
  <2> DEFINE h == run[p].with
             r == IF run[p].room # NoRoom THEN run[p].room ELSE incoming[h].room
             Found == /\ incoming[h].st = "active" /\ incoming[h].at \notin archived /\ zoneOpen
                      /\ r # NoRoom /\ Givable(r, incoming[h].at)
  <2>1. run[p].step = "find" /\ h \in Incoming /\ posted' = posted
    BY <1>10 DEF FindIncoming
  <2>2. CASE Found
    <3>1. GoesOn(p, incoming[h].at, r)
      BY <1>10, <2>2 DEF FindIncoming
    <3>2. h \notin spent
      BY <1>1, <2>1, <2>2 DEF PostsWereAllowed
    <3>3. ~run[p].late
      BY <1>1, <2>1, <3>2 DEF RunsFit
    <3>4. run[p].room \in Rooms \cup {NoRoom} /\ incoming[h].room \in Rooms \cup {NoRoom}
          /\ incoming[h].at \in {Global} \cup Places
      BY <1>1, <2>1 DEF RunsFit, IntegrationsTypeOK
    <3> QED
      BY <1>8, <2>1, <2>2, <3>1, <3>3, <3>4
  <2>3. CASE ~Found
    BY <1>4, <1>10, <2>1, <2>3 DEF FindIncoming, Rests
  <2> QED
    BY <2>2, <2>3
<1>11. CASE PostMessage(p)
  <2>1. run[p].step = "post" /\ run' = [run EXCEPT ![p] = Resting]
    BY <1>11 DEF PostMessage, Rests
  <2>2. run[p].room \in Rooms /\ ~run[p].late
    BY <1>1, <2>1 DEF RunsFit
  <2>3. posted' = IF Givable(run[p].room, run[p].at)
                  THEN posted \cup {<<run[p].with, run[p].at, run[p].room, run[p].late>>} ELSE posted
    BY <1>11 DEF PostMessage
  <2>4. \A x \in posted' : x \in posted \/ (x[3] \in Rooms /\ RoomOf[x[3]] = x[2] /\ ~x[4])
    BY <2>2, <2>3, RoomAssumption DEF Givable
  <2> QED
    BY <1>2, <1>3, <2>1, <2>4, ProgramsKeep
<1>12. CASE GivesUp(p)
  BY <1>4, <1>12 DEF GivesUp, Rests
<1> QED
  BY <1>6, <1>7, <1>9, <1>10, <1>11, <1>12

(* The zone, channels and the day of a token.                              *)
LEMMA ElsewhereKeeps ==
    ASSUME IntegrationsInv, ZoneMoves \/ RoomCloses \/ TokenExpires PROVE IntegrationsInv'
<1>1. IntegrationsTypeOK /\ RunsFit /\ PostsWereAllowed
  BY DEF IntegrationsInv
<1>2. UNCHANGED <<incoming, run, spent, posted>> /\ zoneMoves' \in 0..MaxZoneMoves
  BY <1>1, ProgramAssumption DEF ZoneMoves, RoomCloses, TokenExpires, Elsewhere, IntegrationsTypeOK
<1>3. zoneOpen' \in BOOLEAN /\ closed' \subseteq Rooms
  BY <1>1 DEF ZoneMoves, RoomCloses, TokenExpires, IntegrationsTypeOK
<1>4. /\ token' \in [ApiTokens -> [st : {"none", "active", "revoked"}, at : {Global} \cup Places,
                                   writes : BOOLEAN, due : {"never", "later", "past"}]]
      /\ \A k \in ApiTokens : token'[k].st = token[k].st
  <2>1. CASE token' = token
    BY <1>1, <2>1 DEF IntegrationsTypeOK
  <2>2. CASE \E k \in ApiTokens : token' = [token EXCEPT ![k].due = "past"]
    <3>1. PICK k \in ApiTokens : token' = [token EXCEPT ![k].due = "past"]
      BY <2>2
    <3>2. token \in [ApiTokens -> [st : {"none", "active", "revoked"}, at : {Global} \cup Places,
                                   writes : BOOLEAN, due : {"never", "later", "past"}]]
      BY <1>1 DEF IntegrationsTypeOK
    <3>3. \A j \in ApiTokens : token'[j].st = token[j].st
      BY <3>1, <3>2
    <3> QED
      BY <3>1, <3>2, <3>3
  <2> QED
    BY <2>1, <2>2 DEF ZoneMoves, RoomCloses, TokenExpires
<1> QED
  BY <1>1, <1>2, <1>3, <1>4 DEF IntegrationsInv, IntegrationsTypeOK, RunsFit, PostsWereAllowed

LEMMA WorkspacesStep ==
    ASSUME WorkspacesInv, [WorkspacesNext]_<<permitVars, integrationVars>> PROVE WorkspacesInv'
<1>1. PermitsInv /\ IntegrationsInv
  BY DEF WorkspacesInv
<1>2. ASSUME UNCHANGED integrationVars PROVE IntegrationsInv'
  BY <1>1, <1>2 DEF integrationVars, adminVars, IntegrationsInv, IntegrationsTypeOK, RunsFit, PostsWereAllowed
<1>3. ASSUME UNCHANGED permitVars PROVE PermitsInv'
  <2>1. Granters' = Granters
    BY <1>3 DEF permitVars, Granters, HasWorkspacePermission, RolesOf, Holds, memberVars, roleVars
  <2> QED
    BY <1>1, <1>3, <2>1 DEF permitVars, memberVars, roleVars, PermitsInv, PermitsTypeOK, RolesStayHome,
       ListRoles, TicketsAreDated, TicketsAreSomewhere, GrantsRemembered
<1>4. ASSUME NEW p \in PermitRequests, AdmitManager(p) PROVE UNCHANGED integrationVars
  BY <1>4 DEF AdmitManager
<1>5. ASSUME NEW p \in Programs,
             \/ SendTokenMessage(p) \/ DispatchIncoming(p) \/ Authenticate(p)
             \/ FindIncoming(p) \/ PostMessage(p) \/ GivesUp(p)
      PROVE  UNCHANGED permitVars
  BY <1>5 DEF SendTokenMessage, DispatchIncoming, Begins, Authenticate, FindIncoming, PostMessage, GivesUp
<1>6. ASSUME ZoneMoves \/ RoomCloses \/ TokenExpires PROVE UNCHANGED permitVars
  BY <1>6 DEF ZoneMoves, RoomCloses, TokenExpires, Elsewhere
<1>7. CASE UNCHANGED <<permitVars, integrationVars>>
  BY <1>2, <1>3, <1>7 DEF WorkspacesInv
<1>8. CASE PermitsNext /\ UNCHANGED integrationVars
  BY <1>1, <1>2, <1>8, PermitsStep DEF WorkspacesInv
<1>9. CASE IntegrationsNext
  <2>1. ASSUME NEW p \in PermitRequests,
               \/ AdmitManager(p) \/ CreateToken(p) \/ RevokeToken(p)
               \/ CreateIncoming(p) \/ UpdateIncoming(p) \/ DeleteIncoming(p)
        PROVE  PermitsInv' /\ IntegrationsInv'
    BY <1>1, <1>2, <1>4, <2>1, ManagersKeepPermits, TokensKeep, HooksKeep
  <2>2. ASSUME NEW p \in Programs,
               \/ SendTokenMessage(p) \/ DispatchIncoming(p) \/ Authenticate(p)
               \/ FindIncoming(p) \/ PostMessage(p) \/ GivesUp(p)
        PROVE  PermitsInv' /\ IntegrationsInv'
    BY <1>1, <1>3, <1>5, <2>2, ProgramStep
  <2>3. CASE ZoneMoves \/ RoomCloses \/ TokenExpires
    BY <1>1, <1>3, <1>6, <2>3, ElsewhereKeeps DEF WorkspacesInv
  <2> QED
    BY <1>9, <2>1, <2>2, <2>3 DEF IntegrationsNext, WorkspacesInv
<1> QED
  BY <1>7, <1>8, <1>9 DEF WorkspacesNext

(* What a client is told, and what the services allow, are the same        *)
(* question of the same rows.                                              *)
LEMMA ViewsFollow == ASSUME PermitsTypeOK, RolesStayHome PROVE ViewsAgree
<1> SUFFICES ASSUME NEW u \in People, NEW w \in Places
             PROVE  /\ ListUserWorkspacePermissions(u, w) =
                          {p \in Permissions : HasWorkspacePermission(u, w, p)}
                    /\ ListWorkspaceMemberRoles(w, u) \subseteq ListRoles(w)
                    /\ \A p \in Permissions : HasAnyWorkspacePermission(u, p) =>
                          \E v \in Places : HasWorkspacePermission(u, v, p)
                    /\ \A p \in Permissions : HasAnyZonePermission(u, ZoneOf[w], p) =>
                          HasAnyWorkspacePermission(u, p)
  BY DEF ViewsAgree
<1>1. \A r \in RolesOf(u, w) : can[r] \subseteq Permissions
  BY DEF RolesOf, PermitsTypeOK
<1>2. ListUserWorkspacePermissions(u, w) = {p \in Permissions : HasWorkspacePermission(u, w, p)}
  BY <1>1 DEF ListUserWorkspacePermissions, HasWorkspacePermission
<1>3. ListWorkspaceMemberRoles(w, u) \subseteq ListRoles(w)
  <2> SUFFICES ASSUME NEW r \in DOMAIN can, Holds(w, u, r) PROVE r \in ListRoles(w)
    BY DEF ListWorkspaceMemberRoles
  <2> DEFINE x == <<w, u, r>>
  <2>1. x \in DOMAIN givenBy /\ x[1] = w /\ x[3] = r
    BY DEF Holds
  <2> QED
    BY <2>1 DEF RolesStayHome
<1>4. \A p \in Permissions : HasAnyWorkspacePermission(u, p) =>
         \E v \in Places : HasWorkspacePermission(u, v, p)
  BY DEF HasAnyWorkspacePermission, HasWorkspacePermission
<1>5. \A p \in Permissions : HasAnyZonePermission(u, ZoneOf[w], p) => HasAnyWorkspacePermission(u, p)
  BY DEF HasAnyZonePermission, HasAnyWorkspacePermission
<1> QED
  BY <1>2, <1>3, <1>4, <1>5

LEMMA WorkspacesAlways == WorkspacesSpec => []WorkspacesInv
<1>1. PermitsInit /\ IntegrationsInit => WorkspacesInv
  BY PermitsStart, IntegrationsStart DEF WorkspacesInv
<1> QED
  BY <1>1, WorkspacesStep, PTL DEF WorkspacesSpec

(* For any people, workspaces, roles and requests that overlap: a role     *)
(* somebody holds is one his workspace lists, he has been a member there,  *)
(* and whoever gave it could; what a client shows is what the services     *)
(* allow; a ticket has the dates of its status (modules rbac, workspaces,  *)
(* tickets).                                                               *)
THEOREM RolesStaySound == WorkspacesSpec => [](PermitsTypeOK /\ RolesStayHome /\ ViewsAgree /\ TicketsAreDated)
<1>1. WorkspacesInv => PermitsTypeOK /\ RolesStayHome /\ ViewsAgree /\ TicketsAreDated
  BY ViewsFollow DEF WorkspacesInv, PermitsInv
<1> QED
  BY <1>1, WorkspacesAlways, PTL

(* For any tokens, webhooks, channels and programs: whatever is revoked,   *)
(* closed or suspended between two statements, a program posts only into   *)
(* the workspace of its credential and never with one that was revoked     *)
(* before it asked (modules api_tokens, webhooks).                         *)
THEOREM PostsStayAllowed == WorkspacesSpec => [](IntegrationsTypeOK /\ PostsWereAllowed)
<1>1. WorkspacesInv => IntegrationsTypeOK /\ PostsWereAllowed
  BY DEF WorkspacesInv, IntegrationsInv
<1> QED
  BY <1>1, WorkspacesAlways, PTL

(* Together: what holds of people and programs in the workspaces of a      *)
(* zone holds for every value of the constants.  Of notices that is: no    *)
(* setting shown spoke against one, but for the 'mentions' of a channel,   *)
(* which the recipients' query does not heed (modules/notifications).      *)
THEOREM WorkspacesStaySound == WorkspacesSpec /\ PresenceSpec /\ NoticesSpec => []WorkspacesAreSound
<1>1. /\ PermitsTypeOK /\ RolesStayHome /\ ViewsAgree /\ TicketsAreDated
      /\ IntegrationsTypeOK /\ PostsWereAllowed
      /\ PresenceIsTrue
      /\ NoticesTypeOK /\ NoticesWereWanted
      => WorkspacesAreSound
  BY DEF WorkspacesAreSound
<1> QED
  BY <1>1, RolesStaySound, PostsStayAllowed, PresenceStaysTrue, NoticesStayWanted, PTL

(* Every behaviour that the run MCTenancy checks, in whichever part, is    *)
(* one of the specifications that the theorems above are about.            *)
THEOREM CheckedIsProved == MCSpec => ZoneSpec /\ WorkspacesSpec /\ PresenceSpec /\ NoticesSpec
<1> DEFINE mcVars == <<tenancyVars, permitVars, integrationVars, presenceVars, noticeVars, part>>
<1>1. MCInit => ZoneInit /\ PermitsInit /\ IntegrationsInit /\ PresenceInit /\ NoticesInit
  BY DEF MCInit
<1>2. [MCNext]_mcVars => [ZoneNext]_tenancyVars
  BY DEF MCNext
<1>3. [MCNext]_mcVars => [WorkspacesNext]_<<permitVars, integrationVars>>
  BY DEF MCNext, WorkspacesNext
<1>4. [MCNext]_mcVars => [PresenceNext]_presenceVars
  BY DEF MCNext
<1>5. [MCNext]_mcVars => [NoticesNext]_noticeVars
  BY DEF MCNext
<1> QED
  BY <1>1, <1>2, <1>3, <1>4, <1>5, PTL DEF MCSpec, ZoneSpec, WorkspacesSpec, PresenceSpec, NoticesSpec
================================================================================
