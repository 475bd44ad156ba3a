---------------------------- MODULE OutboxProofs ----------------------------
(***************************************************************************)
(* What holds of Outbox for every set of events and workers, every batch   *)
(* size, retry limit, chain of consumers and number of faults; and, in the *)
(* second part, of EventPipeline for every set of users and webhooks, any  *)
(* kinds of events and whichever statements of the consumers fail.         *)
(***************************************************************************)
EXTENDS EventPipeline, FiniteSetTheorems, TLAPS

USE DEF Chain

-----------------------------------------------------------------------------
(* Type correctness.                                                       *)

(* Only claimable events are ever picked.                                  *)
LEMMA OldestSubset == ASSUME NEW S, NEW n PROVE Oldest(S, n) \subseteq S
  BY DEF Oldest

(* The part of the type invariant that is about rows.                      *)
RowTypes ==
    /\ status \in [Events -> Statuses]
    /\ retryCount \in [Events -> Nat]
    /\ due \in [Events -> BOOLEAN]
    /\ stale \in [Events -> BOOLEAN]

(* An UPDATE of a row keeps the types of the columns.                      *)
LEMMA SetRowType ==
    ASSUME TypeOK, NEW e \in Events, NEW s \in Statuses, NEW r \in Nat,
           NEW d \in BOOLEAN, SetRow(e, s, r, d)
    PROVE  RowTypes'
<1>1. stale' = [stale EXCEPT ![e] = FALSE] /\ stale \in [Events -> BOOLEAN]
  BY DEF SetRow, TypeOK
<1>2. due' = [due EXCEPT ![e] = d] /\ due \in [Events -> BOOLEAN]
  BY DEF SetRow, TypeOK
<1>3. due' \in [Events -> BOOLEAN] /\ stale' \in [Events -> BOOLEAN]
  BY <1>1, <1>2, Zenon
<1> QED
  BY <1>3 DEF SetRow, TypeOK, RowTypes

(* The variables keep their types, and a worker that is not between events *)
(* has an event of its batch in hand.                                      *)
LEMMA TypeAndHand == Spec => [](TypeOK /\ InHand)
<1> DEFINE I == TypeOK /\ InHand
<1>1. Init => I
  BY NumbersAssumption, EventsAssumption DEF Init, TypeOK, InHand, Statuses
<1>2. I /\ [Next]_vars => I'
  <2> SUFFICES ASSUME TypeOK, InHand, [Next]_vars PROVE I'
    OBVIOUS
  <2> USE NumbersAssumption, EventsAssumption DEF TypeOK, InHand
  <2>1. ASSUME NEW e \in Events, Record(e) PROVE I'
    BY <2>1 DEF Record, SetRow, workerVars, Statuses
  <2>2. ASSUME NEW e \in Events, TimeStep(e) PROVE I'
    BY <2>2 DEF TimeStep, LeaseRunsOut, RetryDelayPasses, workerVars
  <2>3. ASSUME NEW w \in Workers, Claim(w) PROVE I'
    <3>1. Oldest(Claimable, Limit) \subseteq Events
      BY OldestSubset DEF Claimable
    <3> QED
      BY <2>3, <3>1 DEF Claim, ClaimRows, Idle, Statuses
  <2>4. ASSUME NEW w \in Workers, Take(w) PROVE I'
    BY <2>4 DEF Take, rowVars
  <2>5. ASSUME NEW w \in Workers, Consume(w) PROVE I'
    <3>1. current[w] \in Events /\ pos[w] \in 1..Stages
      BY <2>5 DEF Consume
    <3>2. taken' \in [Events -> SUBSET Chain]
      BY <2>5, <3>1 DEF Consume
    <3>3. pos' \in [Workers -> 1..(Stages + 1)]
      BY <2>5, <3>1 DEF Consume
    <3>4. pc' \in [Workers -> {"loop", "consume", "ack", "nack"}]
      BY <2>5 DEF Consume
    <3>5. TypeOK'
      BY <2>5, <3>2, <3>3, <3>4 DEF Consume, rowVars
    <3>6. InHand'
      BY <2>5, <3>1 DEF Consume, rowVars
    <3> QED
      BY <3>5, <3>6
  <2>6. ASSUME NEW w \in Workers, ConsumeFails(w) PROVE I'
    BY <2>6 DEF ConsumeFails, rowVars
  <2>7. ASSUME NEW w \in Workers, MarkPublished(w) PROVE I'
    <3>1. SetRow(current[w], "published", retryCount[current[w]], TRUE)
      BY <2>7 DEF MarkPublished, SetPublished
    <3>2. current[w] \in Events /\ retryCount[current[w]] \in Nat
      BY <2>7 DEF MarkPublished
    <3>3. RowTypes'
      BY <3>1, <3>2, SetRowType DEF Statuses
    <3>4. TypeOK'
      BY <2>7, <3>3 DEF MarkPublished, NextInBatch, RowTypes
    <3>5. InHand'
      BY <2>7, <3>2 DEF MarkPublished, NextInBatch
    <3> QED
      BY <3>4, <3>5
  <2>8. ASSUME NEW w \in Workers, MarkFailed(w) PROVE I'
    <3> DEFINE e == current[w]
    <3>1. e \in Events
      BY <2>8 DEF MarkFailed
    <3>2. retryCount[e] + 1 \in Nat
      <4>1. retryCount \in [Events -> Nat]
        OBVIOUS
      <4>2. retryCount[e] \in Nat
        BY <3>1, <4>1, Zenon
      <4> QED
        BY <4>2
    <3>3. \/ SetRow(e, "dead", retryCount[e] + 1, TRUE)
          \/ SetRow(e, "failed", retryCount[e] + 1, FALSE)
      BY <2>8 DEF MarkFailed, SetFailed
    <3>4. RowTypes'
      BY <3>1, <3>2, <3>3, SetRowType DEF Statuses
    <3>5. TypeOK'
      BY <2>8, <3>4 DEF MarkFailed, NextInBatch, RowTypes
    <3>6. InHand'
      BY <2>8, <3>1 DEF MarkFailed, NextInBatch
    <3> QED
      BY <3>5, <3>6
  <2>9. ASSUME NEW w \in Workers, ClaimError(w) PROVE I'
    <3>1. status' \in [Events -> Statuses] /\ stale' \in [Events -> BOOLEAN]
      BY <2>9 DEF ClaimError, ClaimRows, Statuses
    <3>2. faults' \in 0..FaultBudget
      BY <2>9 DEF ClaimError, Fault
    <3> QED
      BY <2>9, <3>1, <3>2 DEF ClaimError, ClaimRows, workerVars
  <2>10. ASSUME NEW w \in Workers, AckError(w) PROVE I'
    <3>1. current[w] \in Events /\ retryCount[current[w]] \in Nat
      BY <2>10 DEF AckError
    <3>2. CASE SetPublished(current[w])
      <4>1. SetRow(current[w], "published", retryCount[current[w]], TRUE)
        BY <3>2 DEF SetPublished
      <4>2. RowTypes'
        BY <3>1, <4>1, SetRowType DEF Statuses
      <4>3. TypeOK'
        BY <2>10, <4>2 DEF AckError, DropBatch, Fault, RowTypes
      <4> QED
        BY <2>10, <4>3 DEF AckError, DropBatch
    <3>3. CASE UNCHANGED rowVars
      BY <2>10, <3>3 DEF AckError, DropBatch, Fault, rowVars
    <3> QED
      BY <2>10, <3>2, <3>3 DEF AckError
  <2>11. ASSUME NEW w \in Workers, NackError(w) PROVE I'
    <3>2. TypeOK'
      BY <2>11 DEF NackError, NextInBatch, Fault, rowVars
    <3>3. InHand'
      BY <2>11 DEF NackError, NextInBatch, Fault, rowVars
    <3> QED
      BY <3>2, <3>3
  <2>12. ASSUME NEW w \in Workers, Crash(w) PROVE I'
    <3>2. TypeOK'
      BY <2>12 DEF Crash, DropBatch, Fault, rowVars
    <3>3. InHand'
      BY <2>12 DEF Crash, DropBatch, Fault, rowVars
    <3> QED
      BY <3>2, <3>3
  <2>13. CASE UNCHANGED vars
    BY <2>13 DEF vars, rowVars, workerVars
  <2> QED
    BY <2>1, <2>2, <2>3, <2>4, <2>5, <2>6, <2>7, <2>8, <2>9, <2>10, <2>11, <2>12, <2>13
       DEF Next, WorkerStep, FaultStep
<1> QED
  BY <1>1, <1>2, PTL DEF Spec

(* Every variable keeps its type, whatever happens to workers and rows.    *)
THEOREM TypeCorrect == Spec => []TypeOK
  BY TypeAndHand, PTL

-----------------------------------------------------------------------------
(* The chain of consumers.                                                 *)

(* Rows and history are only touched where an action says so: no action    *)
(* takes a consumer's completion back.                                     *)
LEMMA TakenGrows ==
    ASSUME TypeOK, InHand, [Next]_vars, NEW e \in Events
    PROVE  /\ taken[e] \subseteq taken'[e]
           /\ ConsumersInOrder /\ Progress
              => \A i \in taken'[e] : 1..i \subseteq taken'[e]
<1> USE DEF TypeOK, InHand
<1>1. ASSUME NEW w \in Workers, Consume(w)
      PROVE  /\ taken[e] \subseteq taken'[e]
             /\ ConsumersInOrder /\ Progress
                => \A i \in taken'[e] : 1..i \subseteq taken'[e]
  <2>1. taken' = [taken EXCEPT ![current[w]] = @ \cup {pos[w]}]
    BY <1>1 DEF Consume
  <2>2. current[w] \in Events /\ pos[w] \in 1..Stages
    BY <1>1, NumbersAssumption DEF Consume
  <2>3. taken'[e] = IF e = current[w] THEN taken[e] \cup {pos[w]} ELSE taken[e]
    BY <2>1, <2>2
  <2>4. Progress => 1..(pos[w] - 1) \subseteq taken[current[w]]
    BY <1>1 DEF Progress, Consume
  <2>5. 1..pos[w] = 1..(pos[w] - 1) \cup {pos[w]}
    BY <2>2, NumbersAssumption
  <2> QED
    BY <2>3, <2>4, <2>5 DEF ConsumersInOrder
<1>2. CASE UNCHANGED taken
  BY <1>2 DEF ConsumersInOrder
<1> QED
  BY <1>1, <1>2
     DEF Next, vars, WorkerStep, FaultStep, TimeStep, Record, LeaseRunsOut,
         RetryDelayPasses, Claim, Take, ConsumeFails, MarkPublished, MarkFailed,
         ClaimError, AckError, NackError, Crash

(* The chain invariant: an event in hand has been through the consumers    *)
(* before the worker's position, and a published one through all of them.  *)
LEMMA ChainInvariant ==
    Spec => [](Progress /\ PublishedMeansConsumed /\ ConsumersInOrder)
<1> DEFINE I == Progress /\ PublishedMeansConsumed /\ ConsumersInOrder
<1>1. Init => I
  BY DEF Init, Progress, PublishedMeansConsumed, ConsumersInOrder
<1>2. TypeOK /\ InHand /\ TypeOK' /\ I /\ [Next]_vars => I'
  <2> SUFFICES ASSUME TypeOK, InHand, TypeOK', I, [Next]_vars PROVE I'
    OBVIOUS
  <2>1. ConsumersInOrder'
    BY TakenGrows DEF ConsumersInOrder
  <2>2. \A e \in Events : taken[e] \subseteq taken'[e] /\ taken'[e] \subseteq Chain
    BY TakenGrows DEF TypeOK
  <2>3. \A e \in Events : taken[e] = Chain => taken'[e] = Chain
    BY <2>2
  <2>4. ASSUME NEW v \in Workers,
               pc'[v] = pc[v], current'[v] = current[v], pos'[v] = pos[v]
        PROVE  /\ pc'[v] = "consume" => 1..(pos'[v] - 1) \subseteq taken'[current'[v]]
               /\ pc'[v] = "ack" => taken'[current'[v]] = Chain
    <3>1. pc[v] # "loop" => current[v] \in Events
      BY DEF TypeOK, InHand
    <3> QED
      BY <2>2, <2>3, <2>4, <3>1 DEF Progress
  <2>5. Progress'
    <3>1. ASSUME NEW w \in Workers, Take(w) PROVE Progress'
      <4>0. pos[w] = 1
        BY <3>1 DEF Take, InHand
      <4>1. pc'[w] = "consume" /\ pos'[w] = 1
        BY <3>1, <4>0 DEF Take, TypeOK
      <4>3. 1..(pos'[w] - 1) = {}
        BY <4>1
      <4>2. \A v \in Workers \ {w} : /\ pc'[v] = pc[v] /\ pos'[v] = pos[v]
                                     /\ current'[v] = current[v]
        BY <3>1 DEF Take, TypeOK
      <4> QED
        BY <2>4, <4>1, <4>2, <4>3 DEF Progress
    <3>2. ASSUME NEW w \in Workers, Consume(w) PROVE Progress'
      <4>1. current[w] \in Events /\ pos[w] \in 1..Stages /\ pc[w] = "consume"
        BY <3>2 DEF Consume, TypeOK, InHand
      <4>2. taken'[current[w]] = taken[current[w]] \cup {pos[w]}
        BY <3>2, <4>1 DEF Consume, TypeOK
      <4>3. /\ pos'[w] = pos[w] + 1 /\ current'[w] = current[w]
            /\ pc'[w] = IF pos[w] = Stages THEN "ack" ELSE "consume"
        BY <3>2, <4>1 DEF Consume, TypeOK
      <4>4. 1..pos[w] \subseteq taken'[current[w]]
        BY <4>1, <4>2, NumbersAssumption DEF Progress
      <4>5. taken'[current[w]] \subseteq Chain
        BY <2>2, <4>1
      <4>6. \A v \in Workers \ {w} : /\ pc'[v] = pc[v] /\ pos'[v] = pos[v]
                                     /\ current'[v] = current[v]
        BY <3>2 DEF Consume, TypeOK
      <4>7. /\ pc'[w] = "consume" => 1..(pos'[w] - 1) \subseteq taken'[current'[w]]
            /\ pc'[w] = "ack" => taken'[current'[w]] = Chain
        <5>1. pos'[w] - 1 = pos[w]
          BY <4>1, <4>3, NumbersAssumption
        <5>2. pc'[w] = "ack" => taken'[current[w]] = 1..Stages
          BY <4>3, <4>4, <4>5
        <5> QED
          BY <4>3, <4>4, <5>1, <5>2
      <4> QED
        BY <2>4, <4>6, <4>7 DEF Progress
    <3>3. ASSUME NEW w \in Workers,
                 ConsumeFails(w) \/ MarkPublished(w) \/ AckError(w)
                   \/ MarkFailed(w) \/ NackError(w) \/ Crash(w)
          PROVE  Progress'
      <4>1. pc'[w] \in {"loop", "nack"}
        BY <3>3 DEF ConsumeFails, MarkPublished, AckError, MarkFailed, NackError,
                    Crash, NextInBatch, DropBatch, TypeOK
      <4>2. \A v \in Workers \ {w} : /\ pc'[v] = pc[v] /\ pos'[v] = pos[v]
                                     /\ current'[v] = current[v]
        BY <3>3 DEF ConsumeFails, MarkPublished, AckError, MarkFailed, NackError,
                    Crash, NextInBatch, DropBatch, TypeOK
      <4> QED
        BY <2>4, <4>1, <4>2 DEF Progress
    <3>4. CASE UNCHANGED <<pc, pos, current>>
      BY <2>4, <3>4 DEF Progress
    <3> QED
      BY <3>1, <3>2, <3>3, <3>4
         DEF Next, vars, workerVars, WorkerStep, FaultStep, TimeStep, Record,
             LeaseRunsOut, RetryDelayPasses, Claim, ClaimError
  <2>6. PublishedMeansConsumed'
    <3>1. ASSUME NEW w \in Workers, pc[w] = "ack", SetPublished(current[w])
          PROVE  PublishedMeansConsumed'
      <4>1. current[w] \in Events /\ taken[current[w]] = Chain
        BY <3>1 DEF Progress, TypeOK, InHand
      <4> QED
        BY <2>3, <3>1, <4>1 DEF PublishedMeansConsumed, SetPublished, SetRow, TypeOK
    <3>2. ASSUME NEW w \in Workers, pc[w] = "nack", SetFailed(current[w])
          PROVE  PublishedMeansConsumed'
      BY <2>3, <3>2 DEF PublishedMeansConsumed, SetFailed, SetRow, TypeOK
    <3>3. ASSUME NEW e \in Events, Record(e) PROVE PublishedMeansConsumed'
      BY <2>3, <3>3 DEF PublishedMeansConsumed, Record, SetRow, TypeOK
    <3>4. ASSUME NEW S, ClaimRows(S) PROVE PublishedMeansConsumed'
      BY <2>3, <3>4 DEF PublishedMeansConsumed, ClaimRows
    <3>5. CASE UNCHANGED status
      BY <2>3, <3>5 DEF PublishedMeansConsumed
    <3> QED
      BY <3>1, <3>2, <3>3, <3>4, <3>5
         DEF Next, vars, rowVars, WorkerStep, FaultStep, TimeStep, LeaseRunsOut,
             RetryDelayPasses, Claim, Take, Consume, ConsumeFails, MarkPublished,
             MarkFailed, ClaimError, AckError, NackError, Crash
  <2> QED
    BY <2>1, <2>5, <2>6
<1> QED
  BY <1>1, <1>2, TypeAndHand, PTL DEF Spec

(* Nothing is published before notifications, webhooks and broker all had  *)
(* it, for any chain, whatever workers crash, overrun or repeat.           *)
THEOREM PublishedMeansConsumedAlways == Spec => []PublishedMeansConsumed
  BY ChainInvariant, PTL

(* The consumers complete an event in chain order.                         *)
THEOREM ConsumersInOrderAlways == Spec => []ConsumersInOrder
  BY ChainInvariant, PTL

-----------------------------------------------------------------------------
(* Retries.                                                                *)

LEMMA RetryStep ==
    ASSUME TypeOK, InHand, RetryAccounting, [Next]_vars PROVE RetryAccounting'
<1> USE NumbersAssumption DEF TypeOK
<1>1. ASSUME NEW e \in Events, Record(e) PROVE RetryAccounting'
  BY <1>1 DEF RetryAccounting, RetriesOf, Record, SetRow, Statuses
<1>2. ASSUME NEW S \in SUBSET Claimable, ClaimRows(S) PROVE RetryAccounting'
  <2>1. \A e \in S : e \in Events /\ retryCount[e] \in Nat /\ retryCount[e] < MaxRetries
    BY DEF RetryAccounting, RetriesOf, Claimable
  <2> QED
    BY <1>2, <2>1 DEF RetryAccounting, RetriesOf, ClaimRows, Statuses
<1>3. ASSUME NEW e \in Events, SetPublished(e) PROVE RetryAccounting'
  BY <1>3 DEF RetryAccounting, RetriesOf, SetPublished, SetRow, Statuses
<1>4. ASSUME NEW e \in Events, SetFailed(e) PROVE RetryAccounting'
  <2>1. retryCount[e] \in Nat
    OBVIOUS
  <2>2. \A f \in Events : f # e => status'[f] = status[f] /\ retryCount'[f] = retryCount[f]
    BY <1>4 DEF SetFailed, SetRow
  <2>3. /\ retryCount'[e] = retryCount[e] + 1
        /\ \/ retryCount[e] + 1 >= MaxRetries /\ status'[e] = "dead"
           \/ retryCount[e] + 1 < MaxRetries /\ status'[e] = "failed"
    BY <1>4, <2>1 DEF SetFailed, SetRow
  <2>4. RetriesOf(e)'
    BY <2>1, <2>3 DEF RetriesOf
  <2> QED
    BY <2>2, <2>4 DEF RetryAccounting, RetriesOf
<1>5. CASE UNCHANGED <<status, retryCount>>
  BY <1>5 DEF RetryAccounting, RetriesOf
<1>6. ASSUME NEW w \in Workers, pc[w] # "loop" PROVE current[w] \in Events
  BY <1>6 DEF InHand
<1>7. Oldest(Claimable, Limit) \in SUBSET Claimable
  BY OldestSubset
<1> QED
  BY <1>1, <1>2, <1>3, <1>4, <1>5, <1>6, <1>7
     DEF Next, vars, rowVars, WorkerStep, FaultStep, TimeStep, LeaseRunsOut,
         RetryDelayPasses, Claim, Take, Consume, ConsumeFails, MarkPublished,
         MarkFailed, ClaimError, AckError, NackError, Crash

(* An event dies of MaxRetries recorded failures and of nothing less, and  *)
(* one with that many is never claimed again.                              *)
THEOREM RetryAccountingAlways == Spec => []RetryAccounting
<1>1. Init => RetryAccounting
  BY NumbersAssumption DEF Init, RetryAccounting, RetriesOf
<1>2. TypeOK /\ InHand /\ RetryAccounting /\ [Next]_vars => RetryAccounting'
  BY RetryStep
<1> QED
  BY <1>1, <1>2, TypeAndHand, PTL DEF Spec

-----------------------------------------------------------------------------
(* The lease.                                                              *)

LEMMA LeaseStep ==
    ASSUME ~MayOverrun, TypeOK, InHand, Leased, ExclusiveLease, [Next]_vars
    PROVE  Leased' /\ ExclusiveLease'
<1> USE DEF TypeOK, InHand
<1>1. ASSUME NEW w \in Workers, Claim(w) PROVE Leased' /\ ExclusiveLease'
  <2> DEFINE picked == Oldest(Claimable, Limit)
  <2>1. picked \subseteq Claimable
    BY OldestSubset
  <2>2. \A v \in Workers : held[v] \cap picked = {}
    BY <2>1 DEF Claimable, Leased
  <2>3. held' = [held EXCEPT ![w] = picked] /\ ClaimRows(picked)
    BY <1>1 DEF Claim
  <2>4. \A e \in picked : e \in Events
    BY <2>1 DEF Claimable
  <2> HIDE DEF picked
  <2>5. Leased'
    BY <2>2, <2>3, <2>4 DEF Leased, ClaimRows
  <2>6. ExclusiveLease'
    BY <2>2, <2>3 DEF ExclusiveLease
  <2> QED
    BY <2>5, <2>6
<1>2. ASSUME NEW w \in Workers, ClaimError(w) PROVE Leased' /\ ExclusiveLease'
  <2>1. held' = held /\ ClaimRows(Oldest(Claimable, Limit))
    BY <1>2 DEF ClaimError, workerVars
  <2>2. \A e \in Oldest(Claimable, Limit) : e \in Events
    BY OldestSubset DEF Claimable
  <2> QED
    BY <2>1, <2>2 DEF Leased, ExclusiveLease, ClaimRows
<1>3. ASSUME NEW w \in Workers, pc[w] # "loop", NextInBatch(w) \/ DropBatch(w),
             \/ \E s, r, d : SetRow(current[w], s, r, d)
             \/ UNCHANGED rowVars
      PROVE  Leased' /\ ExclusiveLease'
  <2>1. current[w] \in held[w] /\ current[w] \in Events
    BY <1>3
  <2>2. \A v \in Workers : held'[v] \subseteq held[v] /\ current[w] \notin held'[v]
    <3>1. \A v \in Workers \ {w} : held'[v] = held[v] /\ current[w] \notin held[v]
      BY <1>3, <2>1 DEF NextInBatch, DropBatch, ExclusiveLease
    <3> QED
      BY <1>3, <3>1 DEF NextInBatch, DropBatch
  <2>3. \A e \in Events \ {current[w]} : status'[e] = status[e] /\ stale'[e] = stale[e]
    BY <1>3, <2>1 DEF SetRow, rowVars
  <2>4. \A v \in Workers : \A e \in held'[v] :
           e \in held[v] /\ e \in Events \ {current[w]}
    BY <2>2
  <2>5. Leased'
    BY <2>3, <2>4 DEF Leased
  <2>6. ExclusiveLease'
    BY <2>2 DEF ExclusiveLease
  <2> QED
    BY <2>5, <2>6
<1>4. ASSUME NEW w \in Workers, DropBatch(w), UNCHANGED rowVars
      PROVE  Leased' /\ ExclusiveLease'
  BY <1>4 DEF DropBatch, Leased, ExclusiveLease, rowVars
<1>5. ASSUME NEW e \in Events, Record(e) PROVE Leased' /\ ExclusiveLease'
  BY <1>5 DEF Record, SetRow, workerVars, Leased, ExclusiveLease
<1>6. ASSUME NEW e \in Events, LeaseRunsOut(e) PROVE Leased' /\ ExclusiveLease'
  BY <1>6 DEF LeaseRunsOut, IsHeld, workerVars, Leased, ExclusiveLease
<1>7. CASE UNCHANGED <<status, stale, held>>
  BY <1>7 DEF Leased, ExclusiveLease
<1> QED
  BY <1>1, <1>2, <1>3, <1>4, <1>5, <1>6, <1>7
     DEF Next, vars, rowVars, workerVars, WorkerStep, FaultStep, TimeStep,
         RetryDelayPasses, Take, Consume, ConsumeFails, MarkPublished, MarkFailed,
         SetPublished, SetFailed, AckError, NackError, Crash

LEMMA LeaseInvariant == Spec => [](Leased /\ ExclusiveLease)
<1>1. Init => Leased /\ ExclusiveLease
  BY DEF Init, Leased, ExclusiveLease
<1>2. TypeOK /\ InHand /\ Leased /\ ExclusiveLease /\ [Next]_vars
      => Leased' /\ ExclusiveLease'
  <2>1. CASE MayOverrun
    BY <2>1 DEF Leased, ExclusiveLease
  <2>2. CASE ~MayOverrun
    BY <2>2, LeaseStep
  <2> QED
    BY <2>1, <2>2
<1> QED
  BY <1>1, <1>2, TypeAndHand, PTL DEF Spec

(* While batches end within their lease, no event is in two hands.         *)
THEOREM ExclusiveLeaseAlways == Spec => []ExclusiveLease
  BY LeaseInvariant, PTL

(* Attempts at an event do not overlap while leases hold, and always count. *)
THEOREM AttemptsAreSoundAlways == Spec => []AttemptsAreSound
  BY ExclusiveLeaseAlways, RetryAccountingAlways, PTL DEF AttemptsAreSound

(* While batches end within their lease, published and dead are final,     *)
(* although MarkPublished and MarkFailed address the row by id alone.      *)
THEOREM SettledStaysSettled ==
    ASSUME ~MayOverrun PROVE Spec => SettledIsFinal
<1> DEFINE A == \A e \in Events : status[e] \in Settled => status'[e] = status[e]
<1>1. TypeOK /\ InHand /\ Leased /\ [Next]_vars => [A]_vars
  <2> SUFFICES ASSUME TypeOK, InHand, Leased, Next PROVE A
    OBVIOUS
  <2>1. ASSUME NEW S \in SUBSET Claimable, ClaimRows(S) PROVE A
    BY <2>1 DEF ClaimRows, Claimable, Settled
  <2>2. ASSUME NEW w \in Workers, pc[w] # "loop", NEW s, NEW r, NEW d,
               SetRow(current[w], s, r, d)
        PROVE  A
    <3>1. status[current[w]] = "processing"
      BY <2>2 DEF InHand, Leased
    <3> QED
      BY <2>2, <3>1 DEF SetRow, Settled, TypeOK
  <2>3. ASSUME NEW e \in Events, Record(e) PROVE A
    BY <2>3 DEF Record, SetRow, Settled, TypeOK
  <2>4. CASE UNCHANGED status
    BY <2>4
  <2>5. Oldest(Claimable, Limit) \in SUBSET Claimable
    BY OldestSubset
  <2> QED
    BY <2>1, <2>2, <2>3, <2>4, <2>5
       DEF Next, rowVars, WorkerStep, FaultStep, TimeStep, LeaseRunsOut,
           RetryDelayPasses, Claim, Take, Consume, ConsumeFails, MarkPublished,
           MarkFailed, SetPublished, SetFailed, ClaimError, AckError, NackError, Crash
<1> QED
  BY <1>1, TypeAndHand, LeaseInvariant, PTL DEF Spec, SettledIsFinal

-----------------------------------------------------------------------------
(* The outbox implements the at-least-once queue.                          *)

LEMMA HeldAreRecorded == Spec => []HeldRecorded
<1>1. Init => HeldRecorded
  BY DEF Init, HeldRecorded
<1>2. TypeOK /\ InHand /\ HeldRecorded /\ [Next]_vars => HeldRecorded'
  <2> SUFFICES ASSUME TypeOK, InHand, HeldRecorded, [Next]_vars PROVE HeldRecorded'
    OBVIOUS
  <2> USE DEF TypeOK
  <2>1. ASSUME NEW w \in Workers, NEW S \in SUBSET Claimable, ClaimRows(S),
               held' = [held EXCEPT ![w] = S] \/ held' = held
        PROVE  HeldRecorded'
    BY <2>1 DEF HeldRecorded, ClaimRows, Claimable
  <2>2. ASSUME NEW w \in Workers, NextInBatch(w) \/ DropBatch(w), status' = status
        PROVE  HeldRecorded'
    BY <2>2 DEF HeldRecorded, NextInBatch, DropBatch
  <2>3. ASSUME NEW w \in Workers, NextInBatch(w) \/ DropBatch(w),
               SetPublished(current[w]) \/ SetFailed(current[w])
        PROVE  HeldRecorded'
    <3>1. \A e \in Events : status'[e] \in {status[e], "published", "failed", "dead"}
      BY <2>3 DEF SetPublished, SetFailed, SetRow
    <3>2. \A v \in Workers : held'[v] \subseteq held[v] /\ held[v] \subseteq Events
      BY <2>3 DEF NextInBatch, DropBatch
    <3> QED
      BY <3>1, <3>2 DEF HeldRecorded
  <2>4. ASSUME NEW e \in Events, Record(e) PROVE HeldRecorded'
    BY <2>4 DEF HeldRecorded, Record, SetRow, workerVars
  <2>5. CASE UNCHANGED <<status, held>>
    BY <2>5 DEF HeldRecorded
  <2>6. Oldest(Claimable, Limit) \in SUBSET Claimable
    BY OldestSubset
  <2> QED
    BY <2>1, <2>2, <2>3, <2>4, <2>5, <2>6
       DEF Next, vars, rowVars, workerVars, WorkerStep, FaultStep, TimeStep,
           LeaseRunsOut, RetryDelayPasses, Claim, Take, Consume, ConsumeFails,
           MarkPublished, MarkFailed, ClaimError, AckError, NackError, Crash
<1> QED
  BY <1>1, <1>2, TypeAndHand, PTL DEF Spec

(* What the queue sees of a status, and of a row.                          *)
LEMMA InQueueOf == /\ InQueue("absent") = "absent"
                   /\ \A s \in Open : InQueue(s) = "queued"
                   /\ InQueue("published") = "done"
                   /\ InQueue("dead") = "dead"
  BY DEF InQueue, Open

LEMMA QueueStateOf ==
    ASSUME NEW e \in Events
    PROVE  /\ status[e] = "absent"    => QueueState[e] = "absent"
           /\ status[e] \in Open      => QueueState[e] = "queued"
           /\ status[e] = "published" => QueueState[e] = "done"
           /\ status[e] = "dead"      => QueueState[e] = "dead"
  BY InQueueOf DEF QueueState

(* Changing the status of one recorded event, to published only if every   *)
(* consumer has had it, is a step of the queue or none.                    *)
LEMMA RowStepRefines ==
    ASSUME TypeOK, TypeOK', taken' = taken, NEW e \in Events, NEW s \in Statuses,
           status' = [status EXCEPT ![e] = s],
           status[e] \in Open \/ (MayOverrun /\ status[e] # "absent"),
           s \in {"failed", "dead"} \/ (s = "published" /\ taken[e] = Chain)
    PROVE  Queue!DQNext \/ UNCHANGED Queue!dqVars
<1> DEFINE D == {f \in Events : taken[f] = Chain}
<1>1. QueueState' = [QueueState EXCEPT ![e] = QueueState'[e]]
  BY DEF QueueState, TypeOK
<1>2. D' = D
  OBVIOUS
<1>3. /\ QueueState[e] = "queued" \/ (MayOverrun /\ QueueState[e] \in {"done", "dead"})
      /\ status[e] \in Open => QueueState[e] = "queued"
  BY QueueStateOf DEF TypeOK, Open, Statuses
<1>4. status'[e] = s
  BY DEF TypeOK
<1>5. CASE s = "failed"
  <2>1. QueueState'[e] = "queued"
    BY InQueueOf, <1>4, <1>5 DEF QueueState, Open
  <2>2. CASE QueueState[e] = "queued"
    <3>1. QueueState' = QueueState
      BY <1>1, <2>1, <2>2 DEF QueueState
    <3> QED
      BY <1>2, <3>1 DEF Queue!dqVars
  <2>3. CASE MayOverrun /\ QueueState[e] \in {"done", "dead"}
    <3>1. Queue!Reopen(e)
      BY <1>1, <1>2, <2>1, <2>3 DEF Queue!Reopen
    <3> QED
      BY <3>1 DEF Queue!DQNext
  <2> QED
    BY <1>3, <2>2, <2>3
<1>6. CASE s = "dead"
  <2>1. QueueState'[e] = "dead"
    BY InQueueOf, <1>4, <1>6 DEF QueueState, Open
  <2>2. Queue!Settle(e) \/ Queue!Reopen(e)
    BY <1>1, <1>2, <1>3, <2>1 DEF Queue!Settle, Queue!Reopen
  <2> QED
    BY <2>2 DEF Queue!DQNext
<1>7. CASE s = "published" /\ taken[e] = Chain
  <2>1. QueueState'[e] = "done" /\ e \in D
    BY InQueueOf, <1>4, <1>7 DEF QueueState, Open
  <2>2. Queue!Settle(e) \/ Queue!Reopen(e)
    BY <1>1, <1>2, <1>3, <2>1 DEF Queue!Settle, Queue!Reopen
  <2> QED
    BY <2>2 DEF Queue!DQNext
<1> QED
  BY <1>5, <1>6, <1>7

(* Every step of the outbox, with its crashes, retries and overruns, is a  *)
(* step of the queue it implements or changes nothing the queue can see.   *)
THEOREM OutboxRefinesQueue == Spec => Queue!DQSafe
<1> DEFINE D == {f \in Events : taken[f] = Chain}
           Inv == /\ TypeOK /\ InHand /\ HeldRecorded /\ Leased
                  /\ Progress /\ PublishedMeansConsumed
           Refined == Queue!DQNext \/ UNCHANGED Queue!dqVars
<1>1. Init => Queue!DQInit
  <2> SUFFICES ASSUME Init PROVE Queue!DQInit
    OBVIOUS
  <2>1. QueueState = [e \in Events |-> "absent"]
    BY InQueueOf DEF Init, QueueState
  <2>2. D = {}
    BY NumbersAssumption DEF Init
  <2> QED
    BY <2>1, <2>2 DEF Queue!DQInit
<1>2. Inv /\ TypeOK' /\ [Next]_vars => [Queue!DQNext]_(Queue!dqVars)
  <2> SUFFICES ASSUME Inv, TypeOK', [Next]_vars PROVE Refined
    OBVIOUS
  <2>1. ASSUME NEW e \in Events, Record(e) PROVE Refined
    <3>1. status[e] = "absent" /\ status' = [status EXCEPT ![e] = "pending"]
      BY <2>1 DEF Record, SetRow
    <3>2. QueueState[e] = "absent" /\ QueueState' = [QueueState EXCEPT ![e] = "queued"]
      BY <3>1, InQueueOf DEF QueueState, Open, TypeOK
    <3>3. D' = D
      BY <2>1 DEF Record
    <3>4. Queue!Put(e)
      BY <3>2, <3>3 DEF Queue!Put
    <3> QED
      BY <3>4 DEF Queue!DQNext
  <2>2. ASSUME NEW S \in SUBSET Claimable, ClaimRows(S), taken' = taken PROVE Refined
    <3>1. \A e \in Events : \/ status'[e] = status[e]
                            \/ status[e] \in Open /\ status'[e] \in Open
      BY <2>2 DEF ClaimRows, Claimable, Open
    <3>2. QueueState' = QueueState
      BY <3>1, InQueueOf DEF QueueState
    <3> QED
      BY <2>2, <3>2 DEF Queue!dqVars
  <2>3. ASSUME NEW w \in Workers, Consume(w) PROVE Refined
    <3>0. PICK c \in Events : c = current[w]
      BY <2>3 DEF Consume, TypeOK, InHand
    <3>1. c \in Events /\ c \in held[w]
      BY <2>3, <3>0 DEF Consume, InHand
    <3>2. QueueState' = QueueState
      BY <2>3 DEF Consume, rowVars, QueueState
    <3>3. taken' = [taken EXCEPT ![c] = @ \cup {pos[w]}]
      BY <2>3, <3>0 DEF Consume
    <3>4. \A f \in Events \ {c} : taken'[f] = taken[f]
      BY <3>3 DEF TypeOK
    <3>5. taken[c] \subseteq taken'[c] /\ taken'[c] \subseteq Chain
      BY <3>1, <3>3 DEF TypeOK
    <3>6. D' = D \/ (D' = D \cup {c} /\ taken[c] # Chain)
      BY <3>1, <3>4, <3>5
    <3>7. CASE D' = D
      BY <3>2, <3>7 DEF Queue!dqVars
    <3>8. CASE D' = D \cup {c} /\ taken[c] # Chain
      <4>1. status[c] \in Open \/ (MayOverrun /\ status[c] = "dead")
        BY <3>1, <3>8 DEF HeldRecorded, Leased, PublishedMeansConsumed, TypeOK, Statuses, Open
      <4>2. QueueState[c] = "queued" \/ (MayOverrun /\ QueueState[c] = "dead")
        BY <3>1, <4>1, QueueStateOf
      <4>3. Queue!Deliver(c)
        BY <3>2, <3>8, <4>2 DEF Queue!Deliver
      <4> QED
        BY <3>1, <4>3 DEF Queue!DQNext
    <3> QED
      BY <3>6, <3>7, <3>8
  <2>4. ASSUME NEW w \in Workers, pc[w] = "ack", SetPublished(current[w]), taken' = taken
        PROVE  Refined
    <3>1. current[w] \in Events /\ current[w] \in held[w] /\ taken[current[w]] = Chain
      BY <2>4 DEF TypeOK, InHand, Progress
    <3>2. status[current[w]] \in Open \/ (MayOverrun /\ status[current[w]] # "absent")
      BY <3>1 DEF HeldRecorded, Leased, Open
    <3>3. status' = [status EXCEPT ![current[w]] = "published"] /\ "published" \in Statuses
      BY <2>4 DEF SetPublished, SetRow, Statuses
    <3> QED
      BY <2>4, <3>1, <3>2, <3>3, RowStepRefines
  <2>5. ASSUME NEW w \in Workers, pc[w] = "nack", SetFailed(current[w]), taken' = taken
        PROVE  Refined
    <3>1. current[w] \in Events /\ current[w] \in held[w]
      BY <2>5 DEF TypeOK, InHand
    <3>2. status[current[w]] \in Open \/ (MayOverrun /\ status[current[w]] # "absent")
      BY <3>1 DEF HeldRecorded, Leased, Open
    <3>3. PICK s \in {"failed", "dead"} : status' = [status EXCEPT ![current[w]] = s]
      BY <2>5 DEF SetFailed, SetRow
    <3>4. s \in Statuses
      BY <3>3 DEF Statuses
    <3> QED
      BY <2>5, <3>1, <3>2, <3>3, <3>4, RowStepRefines
  <2>6. CASE status' = status /\ taken' = taken
    <3>1. QueueState' = QueueState
      BY <2>6 DEF QueueState
    <3> QED
      BY <2>6, <3>1 DEF Queue!dqVars
  <2>7. Oldest(Claimable, Limit) \in SUBSET Claimable
    BY OldestSubset
  <2> QED
    BY <2>1, <2>2, <2>3, <2>4, <2>5, <2>6, <2>7
       DEF Next, vars, rowVars, WorkerStep, FaultStep, TimeStep, LeaseRunsOut,
           RetryDelayPasses, Claim, Take, ConsumeFails, MarkPublished, MarkFailed,
           ClaimError, AckError, NackError, Crash
<1> QED
  BY <1>1, <1>2, TypeAndHand, HeldAreRecorded, LeaseInvariant, ChainInvariant, PTL
     DEF Spec, Queue!DQSafe
-----------------------------------------------------------------------------
(* The pipeline: it does nothing to the outbox that the outbox may not do. *)

LEMMA PipeStepOfOutbox == ASSUME [PipeNext]_pipeVars PROVE [Next]_vars
<1>1. ASSUME NEW w \in Workers, ConsumerStep(w)
      PROVE  Consume(w) \/ ConsumeFails(w) \/ UNCHANGED vars
  BY <1>1 DEF ConsumerStep, NotifyIgnores, NotifyReads, NotifyRejects, NotifyInserts,
              CreateJob, NotifyDone, HooksRead, HooksInsert, Publish, StatementFails
<1> QED
  BY <1>1 DEF PipeNext, pipeVars, QueueStep, PipeFault, Next, WorkerStep

(* The consumers, with their statements and failures, are consumers as the *)
(* outbox knows them: every theorem about the outbox holds of the pipeline.*)
THEOREM PipelineIsOutbox == PipeSpec => Spec
<1>1. PipeInit => Init
  BY DEF PipeInit
<1> QED
  BY <1>1, PipeStepOfOutbox, PTL DEF PipeSpec, Spec

-----------------------------------------------------------------------------
(* The tables of the pipeline.                                             *)

(* A table of rows per event and member of X.                              *)
RowsOf(X) == [Events -> [X -> Nat]]

LEMMA AddRowsIs ==
    ASSUME NEW X, NEW table \in RowsOf(X), NEW e \in Events, NEW S
    PROVE  /\ AddRows(table, e, S) \in RowsOf(X)
           /\ \A f \in Events : \A x \in X :
                 /\ f = e /\ x \in S => AddRows(table, e, S)[f][x] = table[f][x] + 1
                 /\ ~ (f = e /\ x \in S) => AddRows(table, e, S)[f][x] = table[f][x]
<1> USE DEF RowsOf
<1> DEFINE added == [x \in X |-> table[e][x] + IF x \in S THEN 1 ELSE 0]
<1>1. table[e] \in [X -> Nat] /\ DOMAIN table[e] = X
  OBVIOUS
<1>2. added \in [X -> Nat]
  BY <1>1
<1>3. AddRows(table, e, S) = [table EXCEPT ![e] = added]
  BY <1>1 DEF AddRows
<1> HIDE DEF added
<1>4. AddRows(table, e, S) \in [Events -> [X -> Nat]]
  BY <1>2, <1>3
<1>5. ASSUME NEW f \in Events, NEW x \in X
      PROVE  /\ f = e /\ x \in S => AddRows(table, e, S)[f][x] = table[f][x] + 1
             /\ ~ (f = e /\ x \in S) => AddRows(table, e, S)[f][x] = table[f][x]
  <2>1. table[f][x] \in Nat
    BY Zenon
  <2>2. CASE f = e
    BY <1>3, <2>2 DEF added
  <2>3. CASE f # e
    BY <1>3, <2>1, <2>3
  <2> QED
    BY <2>2, <2>3
<1> QED
  BY <1>4, <1>5

PipeTypes ==
    /\ notes \in [Events -> [Users -> Nat]] /\ jobs \in [Events -> [Users -> Nat]]
    /\ deliveries \in [Events -> [Hooks -> Nat]] /\ sent \in [Events -> Nat]
    /\ step \in [Workers -> {"start", "insert", "jobs"}]
    /\ todo \in [Workers -> SUBSET (Users \cup Hooks)]

Has(table, e) == {x \in DOMAIN table[e] : table[e][x] > 0}

(* A handler that is past its first statement has its event in hand.       *)
HandlersHaveEvents ==
    \A w \in Workers :
        /\ step[w] # "start" => pc[w] = "consume"
        /\ step[w] = "insert" => pos[w] \in {1, 2}
        /\ step[w] = "jobs" => pos[w] = 1

PipeTyped == TypeOK /\ InHand /\ PipeTypes /\ HandlersHaveEvents

(* What a step of one worker leaves to the others.                         *)
Frame(w) ==
    \A v \in Workers \ {w} : /\ pc'[v] = pc[v] /\ pos'[v] = pos[v] /\ current'[v] = current[v]
                              /\ step'[v] = step[v] /\ todo'[v] = todo[v]

LEMMA WorkersApart ==
    ASSUME PipeTyped, NEW w \in Workers, ConsumerStep(w) \/ QueueStep(w) \/ PipeFault(w)
    PROVE  Frame(w)
<1>1. /\ pc \in [Workers -> {"loop", "consume", "ack", "nack"}]
      /\ current \in [Workers -> Events \cup {NoEvent}] /\ pos \in [Workers -> 1..(Stages + 1)]
      /\ step \in [Workers -> {"start", "insert", "jobs"}]
      /\ todo \in [Workers -> SUBSET (Users \cup Hooks)]
  BY DEF PipeTyped, TypeOK, PipeTypes
<1>2. \A v \in Workers \ {w} : pc'[v] = pc[v] /\ pos'[v] = pos[v] /\ current'[v] = current[v]
  BY <1>1 DEF ConsumerStep, QueueStep, PipeFault, FaultStep, NotifyIgnores, NotifyReads,
     NotifyRejects, NotifyInserts, CreateJob, NotifyDone, HooksRead, HooksInsert, Publish,
     StatementFails, Claim, Take, Consume, ConsumeFails, MarkPublished, MarkFailed, ClaimError,
     AckError, NackError, Crash, NextInBatch, DropBatch, vars, workerVars
<1>3. \A v \in Workers \ {w} : step'[v] = step[v] /\ todo'[v] = todo[v]
  BY <1>1 DEF ConsumerStep, QueueStep, PipeFault, NotifyIgnores, NotifyReads, GoTo,
     NotifyRejects, NotifyInserts, CreateJob, NotifyDone, HooksRead, HooksInsert, Publish,
     StatementFails, handler
<1> QED
  BY <1>2, <1>3 DEF Frame

(* A step that fails, or is the outbox's own, leaves the tables alone and  *)
(* the worker without a handler at work.                                   *)
LEMMA QuietStep ==
    ASSUME PipeTyped, NEW w \in Workers,
           QueueStep(w) \/ PipeFault(w) \/ NotifyRejects(w) \/ StatementFails(w)
    PROVE  UNCHANGED <<tables, taken>> /\ step'[w] = "start"
<1>1. UNCHANGED tables
  BY DEF QueueStep, PipeFault, NotifyRejects, StatementFails
<1>2. UNCHANGED taken
  BY DEF QueueStep, PipeFault, NotifyRejects, StatementFails, FaultStep, Claim, Take,
     ConsumeFails, MarkPublished, MarkFailed, ClaimError, AckError, NackError, Crash
<1>3. PipeFault(w) \/ StatementFails(w) => step'[w] = "start"
  BY DEF PipeFault, StatementFails, GoTo, PipeTyped, PipeTypes
<1>4. NotifyRejects(w) => step'[w] = "start"
  BY DEF NotifyRejects, At, handler, tables
<1>5. QueueStep(w) => step'[w] = "start"
  BY DEF QueueStep, Claim, Take, MarkPublished, MarkFailed, Idle, handler,
     PipeTyped, HandlersHaveEvents
<1> QED
  BY <1>1, <1>2, <1>3, <1>4, <1>5

LEMMA TablesStep == ASSUME PipeTyped, [PipeNext]_pipeVars PROVE PipeTypes'
<1> USE DEF PipeTyped
<1>0. \A w \in Workers : pc[w] = "consume" => current[w] \in Events
  BY DEF TypeOK, InHand
<1>1. ASSUME NEW w \in Workers, NEW s \in {"start", "insert", "jobs"},
             NEW S \in SUBSET (Users \cup Hooks), GoTo(w, s, S)
      PROVE  /\ step' \in [Workers -> {"start", "insert", "jobs"}]
             /\ todo' \in [Workers -> SUBSET (Users \cup Hooks)]
  BY <1>1 DEF GoTo, PipeTypes
<1>2. CASE UNCHANGED <<tables, handler>>
  BY <1>2 DEF PipeTypes, tables, handler
<1>3. ASSUME NEW w \in Workers, PipeFault(w) \/ StatementFails(w) \/ NotifyDone(w)
      PROVE  PipeTypes'
  <2>1. UNCHANGED tables /\ GoTo(w, "start", {})
    BY <1>3 DEF PipeFault, StatementFails, NotifyDone
  <2> QED
    BY <1>1, <2>1 DEF PipeTypes, tables
<1>4. ASSUME NEW w \in Workers, NotifyReads(w) \/ HooksRead(w) PROVE PipeTypes'
  <2>1. UNCHANGED tables /\ \E S \in SUBSET (Users \cup Hooks) : GoTo(w, "insert", S)
    <3>1. CASE NotifyReads(w)
      <4>1. Without(notes, current[w]) \subseteq Users
        BY <1>0, <3>1 DEF NotifyReads, At, Without, PipeTypes
      <4> QED
        BY <3>1, <4>1 DEF NotifyReads
    <3>2. CASE HooksRead(w)
      <4>1. Without(deliveries, current[w]) \subseteq Hooks
        BY <1>0, <3>2 DEF HooksRead, At, Without, PipeTypes
      <4> QED
        BY <3>2, <4>1 DEF HooksRead
    <3> QED
      BY <1>4, <3>1, <3>2
  <2> QED
    BY <1>1, <2>1 DEF PipeTypes, tables
<1>5. ASSUME NEW w \in Workers, NotifyInserts(w) \/ CreateJob(w) \/ HooksInsert(w) PROVE PipeTypes'
  <2>0. current[w] \in Events /\ todo[w] \in SUBSET (Users \cup Hooks)
    BY <1>0, <1>5 DEF NotifyInserts, CreateJob, HooksInsert, At, PipeTypes
  <2>1. \E s \in {"start", "insert", "jobs"}, S \in SUBSET (Users \cup Hooks) : GoTo(w, s, S)
    BY <1>5, <2>0 DEF NotifyInserts, CreateJob, HooksInsert
  <2>2. /\ notes' \in [Events -> [Users -> Nat]] /\ jobs' \in [Events -> [Users -> Nat]]
        /\ deliveries' \in [Events -> [Hooks -> Nat]] /\ sent' = sent
    <3>1. notes \in [Events -> [Users -> Nat]] /\ jobs \in [Events -> [Users -> Nat]]
          /\ deliveries \in [Events -> [Hooks -> Nat]]
      BY DEF PipeTypes
    <3>2. CASE NotifyInserts(w)
      <4>1. notes' = AddRows(notes, current[w], todo[w]) /\ UNCHANGED <<jobs, deliveries, sent>>
        BY <3>2 DEF NotifyInserts
      <4>2. AddRows(notes, current[w], todo[w]) \in [Events -> [Users -> Nat]]
        BY <2>0, <3>1, AddRowsIs DEF RowsOf
      <4> QED
        BY <3>1, <4>1, <4>2
    <3>3. CASE CreateJob(w)
      <4>1. PICK u \in todo[w] : jobs' = AddRows(jobs, current[w], {u})
        BY <3>3 DEF CreateJob
      <4>2. AddRows(jobs, current[w], {u}) \in [Events -> [Users -> Nat]]
        BY <2>0, <3>1, AddRowsIs DEF RowsOf
      <4> QED
        BY <3>1, <3>3, <4>1, <4>2 DEF CreateJob
    <3>4. CASE HooksInsert(w)
      BY <2>0, <3>1, <3>4, AddRowsIs DEF HooksInsert, RowsOf
    <3> QED
      BY <1>5, <3>2, <3>3, <3>4
  <2> QED
    BY <1>1, <2>1, <2>2 DEF PipeTypes
<1>6. ASSUME NEW w \in Workers, Publish(w) PROVE PipeTypes'
  <2>1. current[w] \in Events /\ sent' = [sent EXCEPT ![current[w]] = @ + 1]
    BY <1>0, <1>6 DEF Publish, At
  <2>2. sent' \in [Events -> Nat]
    BY <2>1 DEF PipeTypes
  <2> QED
    BY <1>6, <2>2 DEF Publish, PipeTypes, handler
<1> QED
  BY <1>2, <1>3, <1>4, <1>5, <1>6
     DEF PipeNext, pipeVars, ConsumerStep, QueueStep, NotifyIgnores, NotifyRejects

LEMMA HandlersStep == ASSUME PipeTyped, [PipeNext]_pipeVars PROVE HandlersHaveEvents'
<1> DEFINE Fine(v) == /\ step[v] # "start" => pc[v] = "consume"
                      /\ step[v] = "insert" => pos[v] \in {1, 2}
                      /\ step[v] = "jobs" => pos[v] = 1
<1>1. HandlersHaveEvents <=> \A v \in Workers : Fine(v)
  BY DEF HandlersHaveEvents
<1>2. HandlersHaveEvents' <=> \A v \in Workers : Fine(v)'
  BY DEF HandlersHaveEvents
<1>3. CASE UNCHANGED <<pc, pos, step>>
  BY <1>1, <1>2, <1>3 DEF PipeTyped
<1>4. ASSUME NEW w \in Workers, ConsumerStep(w) \/ QueueStep(w) \/ PipeFault(w)
      PROVE  HandlersHaveEvents'
  <2>1. \A v \in Workers \ {w} : Fine(v)'
    BY <1>1, <1>4, WorkersApart DEF Frame, PipeTyped
  <2>2. Fine(w)'
    <3>0. step \in [Workers -> {"start", "insert", "jobs"}]
      BY DEF PipeTyped, PipeTypes
    <3>1. CASE step'[w] = "start"
      BY <3>1
    <3>2. CASE NotifyReads(w)
      BY <3>0, <3>2 DEF NotifyReads, At, GoTo, vars, workerVars
    <3>3. CASE HooksRead(w)
      BY <3>0, <3>3 DEF HooksRead, At, GoTo, vars, workerVars
    <3>4. CASE NotifyInserts(w)
      BY <3>0, <3>4 DEF NotifyInserts, At, GoTo, vars, workerVars
    <3>5. CASE CreateJob(w)
      BY <3>0, <3>5 DEF CreateJob, At, GoTo, vars, workerVars
    <3>6. NotifyIgnores(w) \/ NotifyDone(w) \/ HooksInsert(w) \/ Publish(w)
          => step'[w] = "start"
      BY <3>0 DEF NotifyIgnores, NotifyDone, HooksInsert, Publish, At, GoTo, handler
    <3> QED
      BY <1>4, <3>1, <3>2, <3>3, <3>4, <3>5, <3>6, QuietStep DEF ConsumerStep
  <2> QED
    BY <1>2, <2>1, <2>2
<1>5. ASSUME NEW e \in Events, Record(e) \/ TimeStep(e), UNCHANGED <<tables, handler>>
      PROVE  HandlersHaveEvents'
  BY <1>3, <1>5 DEF Record, TimeStep, LeaseRunsOut, RetryDelayPasses, workerVars, handler
<1> QED
  BY <1>3, <1>4, <1>5 DEF PipeNext, pipeVars, vars, workerVars, handler

LEMMA PipeTypedAlways == PipeSpec => []PipeTyped
<1>1. PipeInit => PipeTypes /\ HandlersHaveEvents
  BY DEF PipeInit, PipeTypes, HandlersHaveEvents
<1>2. PipeTyped /\ [PipeNext]_pipeVars => PipeTypes' /\ HandlersHaveEvents'
  BY TablesStep, HandlersStep
<1>3. PipeTyped <=> TypeOK /\ InHand /\ PipeTypes /\ HandlersHaveEvents
  BY DEF PipeTyped
<1> QED
  BY <1>1, <1>2, <1>3, PipelineIsOutbox, TypeAndHand, PTL DEF PipeSpec
-----------------------------------------------------------------------------
(* A published event has reached everyone.                                 *)

(* What the three statements that write rows do to the tables.             *)
LEMMA NotesAdded ==
    ASSUME PipeTyped, NEW w \in Workers, NotifyInserts(w)
    PROVE  /\ current[w] \in Events
           /\ \A f \in Events : \A u \in Users :
                 /\ notes[f][u] \in Nat
                 /\ notes'[f][u] = notes[f][u] + IF f = current[w] /\ u \in todo[w] THEN 1 ELSE 0
<1>1. current[w] \in Events /\ notes \in [Events -> [Users -> Nat]]
  BY DEF PipeTyped, TypeOK, InHand, PipeTypes, NotifyInserts, At
<1>2. notes' = AddRows(notes, current[w], todo[w])
  BY DEF NotifyInserts
<1>3. \A f \in Events : \A u \in Users :
            LET new == AddRows(notes, current[w], todo[w]) IN
            /\ f = current[w] /\ u \in todo[w] => new[f][u] = notes[f][u] + 1
            /\ ~ (f = current[w] /\ u \in todo[w]) => new[f][u] = notes[f][u]
  <2>1. notes \in RowsOf(Users)
    BY <1>1 DEF RowsOf
  <2> QED
    BY <1>1, <2>1, AddRowsIs
<1>4. \A f \in Events : \A u \in Users : notes[f][u] \in Nat
  BY <1>1, Zenon
<1> QED
  BY <1>1, <1>2, <1>3, <1>4

LEMMA DeliveriesAdded ==
    ASSUME PipeTyped, NEW w \in Workers, HooksInsert(w)
    PROVE  /\ current[w] \in Events
           /\ \A f \in Events : \A h \in Hooks :
                 /\ deliveries[f][h] \in Nat
                 /\ deliveries'[f][h]
                       = deliveries[f][h] + IF f = current[w] /\ h \in todo[w] THEN 1 ELSE 0
<1>1. current[w] \in Events /\ deliveries \in [Events -> [Hooks -> Nat]]
  BY DEF PipeTyped, TypeOK, InHand, PipeTypes, HooksInsert, At
<1>2. deliveries' = AddRows(deliveries, current[w], todo[w])
  BY DEF HooksInsert
<1>3. \A f \in Events : \A h \in Hooks :
            LET new == AddRows(deliveries, current[w], todo[w]) IN
            /\ f = current[w] /\ h \in todo[w] => new[f][h] = deliveries[f][h] + 1
            /\ ~ (f = current[w] /\ h \in todo[w]) => new[f][h] = deliveries[f][h]
  <2>1. deliveries \in RowsOf(Hooks)
    BY <1>1 DEF RowsOf
  <2> QED
    BY <1>1, <2>1, AddRowsIs
<1>4. \A f \in Events : \A h \in Hooks : deliveries[f][h] \in Nat
  BY <1>1, Zenon
<1> QED
  BY <1>1, <1>2, <1>3, <1>4

(* Rows are never deleted, and no other step touches their table.          *)
LEMMA RowsGrow ==
    ASSUME PipeTyped, [PipeNext]_pipeVars
    PROVE  /\ \A e \in Events : \A u \in Users : notes[e][u] > 0 => notes'[e][u] > 0
           /\ \A e \in Events : \A h \in Hooks : deliveries[e][h] > 0 => deliveries'[e][h] > 0
           /\ \A e \in Events : sent[e] > 0 => sent'[e] > 0
           /\ notes' = notes \/ \E w \in Workers : NotifyInserts(w)
           /\ deliveries' = deliveries \/ \E w \in Workers : HooksInsert(w)
           /\ sent' = sent \/ \E w \in Workers : Publish(w)
<1>1. /\ notes' = notes \/ \E w \in Workers : NotifyInserts(w)
      /\ deliveries' = deliveries \/ \E w \in Workers : HooksInsert(w)
      /\ sent' = sent \/ \E w \in Workers : Publish(w)
  BY DEF PipeNext, pipeVars, ConsumerStep, QueueStep, PipeFault, NotifyIgnores, NotifyReads,
     NotifyRejects, NotifyInserts, CreateJob, NotifyDone, HooksRead, HooksInsert, Publish,
     StatementFails, tables
<1>2. ASSUME NEW e \in Events, NEW u \in Users, notes[e][u] > 0 PROVE notes'[e][u] > 0
  <2>1. CASE notes' = notes
    BY <1>2, <2>1
  <2>2. ASSUME NEW w \in Workers, NotifyInserts(w) PROVE notes'[e][u] > 0
    <3>1. /\ notes[e][u] \in Nat
          /\ notes'[e][u] = notes[e][u] + IF e = current[w] /\ u \in todo[w] THEN 1 ELSE 0
      BY <2>2, NotesAdded
    <3> QED
      BY <1>2, <3>1
  <2> QED
    BY <1>1, <2>1, <2>2
<1>3. ASSUME NEW e \in Events, NEW h \in Hooks, deliveries[e][h] > 0 PROVE deliveries'[e][h] > 0
  <2>1. CASE deliveries' = deliveries
    BY <1>3, <2>1
  <2>2. ASSUME NEW w \in Workers, HooksInsert(w) PROVE deliveries'[e][h] > 0
    <3>1. /\ deliveries[e][h] \in Nat
          /\ deliveries'[e][h]
                = deliveries[e][h] + IF e = current[w] /\ h \in todo[w] THEN 1 ELSE 0
      BY <2>2, DeliveriesAdded
    <3> QED
      BY <1>3, <3>1
  <2> QED
    BY <1>1, <2>1, <2>2
<1>4. ASSUME NEW e \in Events, sent[e] > 0 PROVE sent'[e] > 0
  <2>1. sent \in [Events -> Nat]
    BY DEF PipeTyped, PipeTypes
  <2>2. ASSUME NEW w \in Workers, Publish(w) PROVE sent'[e] > 0
    BY <1>4, <2>1, <2>2 DEF Publish
  <2> QED
    BY <1>1, <1>4, <2>2
<1> QED
  BY <1>1, <1>2, <1>3, <1>4

Written(e)   == \A u \in Recipients[e] : notes[e][u] > 0
Delivered(e) == \A h \in Hooks : Subscribed(h, e) => deliveries[e][h] > 0

(* What a handler has read and not written yet, with what is written, is   *)
(* everyone the query selects.                                             *)
Knows(w) ==
    LET e == current[w] IN
    /\ At(w, 1, "insert") => \A u \in Recipients[e] : u \in todo[w] \/ notes[e][u] > 0
    /\ At(w, 1, "jobs") => Written(e)
    /\ At(w, 2, "insert") =>
          \A h \in Hooks : Subscribed(h, e) => h \in todo[w] \/ deliveries[e][h] > 0

(* A consumer that has completed an event has written its rows.            *)
Reached(e) ==
    /\ 1 \in taken[e] /\ Kind[e] = "message" => Written(e)
    /\ 2 \in taken[e] => Delivered(e)
    /\ 3 \in taken[e] => sent[e] > 0

ReachInv == (\A w \in Workers : Knows(w)) /\ (\A e \in Events : Reached(e))

LEMMA KnowsStep ==
    ASSUME PipeTyped, PipeTyped', ReachInv, [PipeNext]_pipeVars
    PROVE  \A v \in Workers : Knows(v)'
<1>0. \A v \in Workers : pc[v] = "consume" => current[v] \in Events
  BY DEF PipeTyped, TypeOK, InHand
<1>1. \A e \in Events : Recipients[e] \subseteq Users
  BY PipelineAssumption
<1>2. ASSUME NEW v \in Workers, UNCHANGED <<pc[v], pos[v], current[v], step[v], todo[v]>>
      PROVE  Knows(v)'
  <2>1. Knows(v)
    BY DEF ReachInv
  <2>2. CASE pc[v] # "consume"
    BY <1>2, <2>2 DEF Knows, At
  <2>3. CASE pc[v] = "consume"
    BY <1>0, <1>1, <1>2, <2>1, <2>3, RowsGrow DEF Knows, At, Written
  <2> QED
    BY <2>2, <2>3
<1>3. ASSUME NEW w \in Workers, ConsumerStep(w) \/ QueueStep(w) \/ PipeFault(w)
      PROVE  \A v \in Workers : Knows(v)'
  <2>1. \A v \in Workers \ {w} : Knows(v)'
    BY <1>2, <1>3, WorkersApart DEF Frame
  <2>2. Knows(w)'
    <3>0. /\ step \in [Workers -> {"start", "insert", "jobs"}] /\ pos[w] \in Nat
          /\ todo \in [Workers -> SUBSET (Users \cup Hooks)]
      BY DEF PipeTyped, PipeTypes, TypeOK
    <3>1. CASE step'[w] = "start"
      BY <3>1 DEF Knows, At
    <3>2. CASE NotifyReads(w)
      <4> DEFINE e == current[w]
      <4>1. /\ e \in Events /\ pos[w] = 1 /\ pos'[w] = 1 /\ current'[w] = e
            /\ step'[w] = "insert" /\ notes' = notes
            /\ todo'[w] = Recipients[e] \cap Without(notes, e)
        BY <1>0, <3>0, <3>2 DEF NotifyReads, At, GoTo, vars, workerVars, tables
      <4>2. notes \in [Events -> [Users -> Nat]]
        BY DEF PipeTyped, PipeTypes
      <4>3. \A u \in Recipients[e] : u \in Without(notes, e) \/ notes[e][u] > 0
        BY <1>1, <4>1, <4>2 DEF Without
      <4> QED
        BY <4>1, <4>3 DEF Knows, At
    <3>3. CASE HooksRead(w)
      <4> DEFINE e == current[w]
      <4>1. /\ e \in Events /\ pos[w] = 2 /\ pos'[w] = 2 /\ current'[w] = e
            /\ step'[w] = "insert" /\ deliveries' = deliveries
            /\ todo'[w] = {h \in Without(deliveries, e) : Subscribed(h, e)}
        BY <1>0, <3>0, <3>3 DEF HooksRead, At, GoTo, vars, workerVars, tables
      <4>2. deliveries \in [Events -> [Hooks -> Nat]]
        BY DEF PipeTyped, PipeTypes
      <4>3. \A h \in Hooks : h \in Without(deliveries, e) \/ deliveries[e][h] > 0
        BY <4>1, <4>2 DEF Without
      <4> QED
        BY <4>1, <4>3 DEF Knows, At
    <3>4. CASE NotifyInserts(w) /\ step'[w] # "start"
      <4> DEFINE e == current[w]
      <4>1. /\ e \in Events /\ pos'[w] = 1 /\ current'[w] = e /\ step'[w] = "jobs"
            /\ At(w, 1, "insert")
        BY <1>0, <3>0, <3>4 DEF NotifyInserts, At, GoTo, vars, workerVars
      <4>2. \A u \in Recipients[e] : u \in todo[w] \/ notes[e][u] > 0
        BY <4>1 DEF ReachInv, Knows
      <4>3. \A u \in Recipients[e] : notes'[e][u] > 0
        BY <1>1, <3>4, <4>1, <4>2, NotesAdded
      <4> QED
        BY <4>1, <4>3 DEF Knows, At, Written
    <3>5. CASE CreateJob(w)
      <4> DEFINE e == current[w]
      <4>1. /\ e \in Events /\ pos'[w] = 1 /\ current'[w] = e /\ step'[w] = "jobs"
            /\ At(w, 1, "jobs") /\ notes' = notes
        BY <1>0, <3>0, <3>5 DEF CreateJob, At, GoTo, vars, workerVars
      <4>2. Written(e)
        BY <4>1 DEF ReachInv, Knows
      <4> QED
        BY <4>1, <4>2 DEF Knows, At, Written
    <3>6. NotifyIgnores(w) \/ NotifyDone(w) \/ HooksInsert(w) \/ Publish(w)
          => step'[w] = "start"
      BY <3>0 DEF NotifyIgnores, NotifyDone, HooksInsert, Publish, At, GoTo, handler
    <3> QED
      BY <1>3, <3>1, <3>2, <3>3, <3>4, <3>5, <3>6, QuietStep DEF ConsumerStep
  <2> QED
    BY <2>1, <2>2
<1>4. CASE UNCHANGED <<workerVars, handler>>
  BY <1>2, <1>4 DEF workerVars, handler
<1>5. ASSUME NEW e \in Events, Record(e) \/ TimeStep(e), UNCHANGED <<tables, handler>>
      PROVE  UNCHANGED <<workerVars, handler>>
  BY <1>5 DEF Record, TimeStep, LeaseRunsOut, RetryDelayPasses
<1> QED
  BY <1>3, <1>4, <1>5 DEF PipeNext, pipeVars, vars

LEMMA ReachedStep ==
    ASSUME PipeTyped, Stages = 3, ReachInv, [PipeNext]_pipeVars
    PROVE  \A e \in Events : Reached(e)'
<1>1. \A e \in Events : Recipients[e] \subseteq Users
  BY PipelineAssumption
<1>2. ASSUME NEW e \in Events, taken'[e] = taken[e] PROVE Reached(e)'
  BY <1>1, <1>2, RowsGrow DEF ReachInv, Reached, Written, Delivered
<1>3. ASSUME NEW w \in Workers, Consume(w), ConsumerStep(w) PROVE \A e \in Events : Reached(e)'
  <2>0. current[w] \in Events /\ pc[w] = "consume" /\ pos[w] \in 1..3
    BY <1>3 DEF Consume, PipeTyped, TypeOK, InHand
  <2>1. PICK c \in Events : c = current[w]
    BY <2>0
  <2>2. taken \in [Events -> SUBSET Chain] /\ taken' = [taken EXCEPT ![c] = @ \cup {pos[w]}]
    BY <1>3, <2>1 DEF PipeTyped, TypeOK, Consume
  <2>3. \A e \in Events \ {c} : taken'[e] = taken[e]
    BY <2>2
  <2>4. taken'[c] = taken[c] \cup {pos[w]}
    BY <2>1, <2>2
  <2>5. /\ pos[w] = 1 /\ Kind[c] = "message" => Written(c)'
        /\ pos[w] = 2 => Delivered(c)'
        /\ pos[w] = 3 => sent'[c] > 0
    <3>0. /\ pos[w] = 1 => pos'[w] = 2
          /\ pc'[w] = (IF pos[w] = Stages THEN "ack" ELSE "consume")
      BY <1>3, <2>0, <2>1 DEF Consume, PipeTyped, TypeOK
    <3>1. CASE NotifyIgnores(w)
      BY <2>1, <3>1 DEF NotifyIgnores, At
    <3>2. CASE NotifyDone(w)
      <4>1. Written(c) /\ notes' = notes /\ pos[w] = 1
        BY <2>1, <3>2 DEF NotifyDone, ReachInv, Knows, tables, At
      <4> QED
        BY <4>1 DEF Written
    <3>3. CASE HooksInsert(w)
      <4>1. At(w, 2, "insert") /\ pos[w] = 2
        BY <3>3 DEF HooksInsert, At
      <4>2. \A h \in Hooks : Subscribed(h, c) => h \in todo[w] \/ deliveries[c][h] > 0
        BY <2>1, <4>1 DEF ReachInv, Knows
      <4>3. \A h \in Hooks : Subscribed(h, c) => deliveries'[c][h] > 0
        BY <2>1, <3>3, <4>2, DeliveriesAdded
      <4> QED
        BY <4>1, <4>3 DEF Delivered
    <3>4. CASE Publish(w)
      <4>1. pos[w] = 3 /\ sent' = [sent EXCEPT ![c] = @ + 1] /\ sent \in [Events -> Nat]
        BY <2>1, <3>4 DEF Publish, At, PipeTyped, PipeTypes
      <4> QED
        BY <2>1, <4>1
    <3>5. ~ (NotifyReads(w) \/ NotifyRejects(w) \/ NotifyInserts(w) \/ CreateJob(w)
             \/ HooksRead(w) \/ StatementFails(w))
      <4>1. pos'[w] = pos[w] + 1 /\ pos[w] \in Nat
        BY <1>3, <2>0, <2>1 DEF Consume, PipeTyped, TypeOK
      <4> QED
        BY <4>1 DEF NotifyReads, NotifyRejects, NotifyInserts, CreateJob, HooksRead,
           StatementFails, ConsumeFails, vars, workerVars
    <3> QED
      BY <1>3, <3>1, <3>2, <3>3, <3>4, <3>5 DEF ConsumerStep
  <2>6. Reached(c)'
    <3>1. /\ Written(c) => Written(c)'
          /\ Delivered(c) => Delivered(c)'
          /\ sent[c] > 0 => sent'[c] > 0
      BY <1>1, <2>1, RowsGrow DEF Written, Delivered
    <3>2. Reached(c)
      BY <2>1 DEF ReachInv
    <3> QED
      BY <2>4, <2>5, <3>1, <3>2 DEF Reached
  <2> QED
    BY <1>2, <2>3, <2>6
<1>4. taken' = taken \/ \E w \in Workers : Consume(w) /\ ConsumerStep(w)
  <2>1. ASSUME NEW w \in Workers, ConsumerStep(w) PROVE taken' = taken \/ Consume(w)
    BY <2>1 DEF ConsumerStep, NotifyIgnores, NotifyReads, NotifyRejects, NotifyInserts,
       CreateJob, NotifyDone, HooksRead, HooksInsert, Publish, StatementFails, ConsumeFails, vars
  <2>2. ASSUME NEW w \in Workers, QueueStep(w) \/ PipeFault(w) PROVE taken' = taken
    BY <2>2, QuietStep
  <2> QED
    BY <2>1, <2>2 DEF PipeNext, pipeVars, vars, Record, TimeStep, LeaseRunsOut, RetryDelayPasses
<1> QED
  BY <1>2, <1>3, <1>4

(* A published event has left its row with every recipient and every       *)
(* webhook the query selects, and a message with the broker, although each *)
(* statement commits alone and a retry starts the chain from the top.      *)
THEOREM PublishedReachedAllAlways == PipeSpec => []PublishedReachedAll
<1>1. PipeInit => Stages = 3 /\ ReachInv
  <2> SUFFICES ASSUME PipeInit PROVE ReachInv
    BY DEF PipeInit
  <2>1. \A w \in Workers : pc[w] = "loop"
    BY DEF PipeInit, Init
  <2>2. \A e \in Events : taken[e] = {}
    BY DEF PipeInit, Init
  <2> QED
    BY <2>1, <2>2 DEF ReachInv, Knows, Reached, At
<1>2. PipeTyped /\ PipeTyped' /\ Stages = 3 /\ ReachInv /\ [PipeNext]_pipeVars
      => (Stages = 3)' /\ ReachInv'
  BY KnowsStep, ReachedStep DEF ReachInv
<1>3. PipeTyped /\ PublishedMeansConsumed /\ Stages = 3 /\ ReachInv => PublishedReachedAll
  <2> SUFFICES ASSUME PipeTyped, PublishedMeansConsumed, Stages = 3, ReachInv
               PROVE  PublishedReachedAll
    OBVIOUS
  <2>1. PipeTypeOK
    BY DEF PipeTyped, PipeTypes, PipeTypeOK
  <2>2. ASSUME NEW e \in Events, status[e] = "published"
        PROVE  /\ Kind[e] = "message" => Recipients[e] \cap Without(notes, e) = {}
               /\ \A h \in Hooks : Subscribed(h, e) => deliveries[e][h] > 0
               /\ sent[e] > 0
    <3>1. 1 \in taken[e] /\ 2 \in taken[e] /\ 3 \in taken[e]
      BY <2>2 DEF PublishedMeansConsumed
    <3>2. Reached(e)
      BY DEF ReachInv
    <3>3. Kind[e] = "message" => \A u \in Recipients[e] : notes[e][u] > 0
      BY <3>1, <3>2 DEF Reached, Written
    <3> QED
      BY <3>1, <3>2, <3>3 DEF Reached, Delivered, Without
  <2> QED
    BY <2>1, <2>2 DEF PublishedReachedAll
<1> QED
  BY <1>1, <1>2, <1>3, PipeTypedAlways, PipelineIsOutbox, PublishedMeansConsumedAlways, PTL
     DEF PipeSpec
-----------------------------------------------------------------------------
(* No row twice: while leases hold, what a handler has read is still true  *)
(* when it writes, because nobody else has its event in hand.              *)

(* Two workers that have the same event in hand are one.                   *)
LEMMA OneHandler ==
    ASSUME PipeTyped, ExclusiveLease, ~MayOverrun, NEW v \in Workers, NEW w \in Workers,
           pc[v] # "loop", pc[w] # "loop", current[v] = current[w]
    PROVE  v = w
  BY DEF PipeTyped, InHand, ExclusiveLease

(* What a step of a worker can leave its handler in.                       *)
LEMMA AtWork ==
    ASSUME PipeTyped, NEW w \in Workers, ConsumerStep(w) \/ QueueStep(w) \/ PipeFault(w)
    PROVE  \/ step'[w] = "start"
           \/ /\ NotifyReads(w) \/ HooksRead(w)
              /\ step'[w] = "insert"
           \/ /\ NotifyInserts(w)
              /\ GoTo(w, "jobs", todo[w])
              /\ UNCHANGED vars
           \/ CreateJob(w)
<1>1. step \in [Workers -> {"start", "insert", "jobs"}]
  BY DEF PipeTyped, PipeTypes
<1>2. NotifyIgnores(w) \/ NotifyDone(w) \/ HooksInsert(w) \/ Publish(w) => step'[w] = "start"
  BY <1>1 DEF NotifyIgnores, NotifyDone, HooksInsert, Publish, At, GoTo, handler
<1>3. NotifyReads(w) \/ HooksRead(w) => step'[w] = "insert"
  BY <1>1 DEF NotifyReads, HooksRead, GoTo
<1>4. NotifyInserts(w) => step'[w] = "start" \/ (GoTo(w, "jobs", todo[w]) /\ UNCHANGED vars)
  BY <1>1 DEF NotifyInserts, GoTo
<1> QED
  BY <1>2, <1>3, <1>4, QuietStep DEF ConsumerStep

MissingFor(w) ==
    /\ At(w, 1, "insert") => \A u \in Users \cap todo[w] : notes[current[w]][u] = 0
    /\ At(w, 2, "insert") => \A h \in Hooks \cap todo[w] : deliveries[current[w]][h] = 0

StillMissing == \A w \in Workers : MissingFor(w)

OneRowEach ==
    \A e \in Events : /\ \A u \in Users : notes[e][u] <= 1
                      /\ \A h \in Hooks : deliveries[e][h] <= 1

LEMMA StillMissingStep ==
    ASSUME PipeTyped, ExclusiveLease, ~MayOverrun, StillMissing, [PipeNext]_pipeVars
    PROVE  StillMissing'
<1>0. \A v \in Workers : pc[v] = "consume" => current[v] \in Events
  BY DEF PipeTyped, TypeOK, InHand
<1>1. ASSUME NEW v \in Workers, UNCHANGED <<pc[v], pos[v], current[v], step[v], todo[v]>>,
             \A u \in Users : notes'[current[v]][u] = notes[current[v]][u] \/ pc[v] # "consume",
             \A h \in Hooks : deliveries'[current[v]][h] = deliveries[current[v]][h]
                              \/ pc[v] # "consume"
      PROVE  MissingFor(v)'
  <2>1. MissingFor(v)
    BY DEF StillMissing
  <2> QED
    BY <1>1, <2>1 DEF MissingFor, At
<1>2. ASSUME NEW w \in Workers, ConsumerStep(w) \/ QueueStep(w) \/ PipeFault(w)
      PROVE  \A v \in Workers : MissingFor(v)'
  <2>1. ASSUME NEW v \in Workers \ {w} PROVE MissingFor(v)'
    <3>1. UNCHANGED <<pc[v], pos[v], current[v], step[v], todo[v]>>
      BY <1>2, WorkersApart DEF Frame
    <3>2. CASE pc[v] # "consume"
      BY <3>1, <3>2 DEF MissingFor, At
    <3>3. CASE pc[v] = "consume"
      <4>1. \A u \in Users : notes'[current[v]][u] = notes[current[v]][u]
        <5>1. CASE notes' = notes
          BY <5>1
        <5>2. ASSUME NEW x \in Workers, NotifyInserts(x)
              PROVE  \A u \in Users : notes'[current[v]][u] = notes[current[v]][u]
          <6>1. pc[x] = "consume"
            BY <5>2 DEF NotifyInserts, At
          <6>2. x = w
            <7>1. step[x] = "insert" /\ (step'[x] = "jobs" \/ pc'[x] = "nack")
              BY <5>2 DEF NotifyInserts, At, GoTo, ConsumeFails, PipeTyped, TypeOK, PipeTypes
            <7> QED
              BY <1>2, <6>1, <7>1, WorkersApart DEF Frame
          <6>3. current[v] # current[x]
            BY <3>3, <6>1, <6>2, OneHandler
          <6> QED
            BY <1>0, <3>3, <5>2, <6>3, NotesAdded
        <5> QED
          BY <5>1, <5>2, RowsGrow
      <4>2. \A h \in Hooks : deliveries'[current[v]][h] = deliveries[current[v]][h]
        <5>1. CASE deliveries' = deliveries
          BY <5>1
        <5>2. ASSUME NEW x \in Workers, HooksInsert(x)
              PROVE  \A h \in Hooks : deliveries'[current[v]][h] = deliveries[current[v]][h]
          <6>1. pc[x] = "consume"
            BY <5>2 DEF HooksInsert, At
          <6>2. x = w
            <7>1. step[x] = "insert" /\ step'[x] = "start"
              BY <5>2 DEF HooksInsert, At, GoTo, PipeTyped, PipeTypes
            <7> QED
              BY <1>2, <7>1, WorkersApart DEF Frame
          <6>3. current[v] # current[x]
            BY <3>3, <6>1, <6>2, OneHandler
          <6> QED
            BY <1>0, <3>3, <5>2, <6>3, DeliveriesAdded
        <5> QED
          BY <5>1, <5>2, RowsGrow
      <4> QED
        BY <1>1, <3>1, <4>1, <4>2
    <3> QED
      BY <3>2, <3>3
  <2>2. MissingFor(w)'
    <3>0. todo \in [Workers -> SUBSET (Users \cup Hooks)]
          /\ step \in [Workers -> {"start", "insert", "jobs"}]
      BY DEF PipeTyped, PipeTypes
    <3>1. CASE step'[w] # "insert"
      BY <3>1 DEF MissingFor, At
    <3>2. CASE NotifyReads(w)
      <4>1. /\ pos'[w] = 1 /\ current'[w] = current[w] /\ notes' = notes
            /\ todo'[w] \subseteq Without(notes, current[w])
        BY <3>0, <3>2 DEF NotifyReads, At, GoTo, vars, workerVars, tables
      <4> QED
        BY <4>1 DEF MissingFor, At, Without
    <3>3. CASE HooksRead(w)
      <4>1. /\ pos'[w] = 2 /\ current'[w] = current[w] /\ deliveries' = deliveries
            /\ todo'[w] \subseteq Without(deliveries, current[w])
        BY <3>0, <3>3 DEF HooksRead, At, GoTo, vars, workerVars, tables
      <4> QED
        BY <4>1 DEF MissingFor, At, Without
    <3>4. GoTo(w, "jobs", todo[w]) \/ CreateJob(w) => step'[w] # "insert"
      BY <3>0 DEF CreateJob, GoTo
    <3> QED
      BY <1>2, <3>1, <3>2, <3>3, <3>4, AtWork
  <2> QED
    BY <2>1, <2>2
<1>3. ASSUME UNCHANGED <<workerVars, handler, tables>> PROVE \A v \in Workers : MissingFor(v)'
  <2>1. UNCHANGED <<pc, pos, current, step, todo, notes, deliveries>>
    BY <1>3 DEF workerVars, handler, tables
  <2> QED
    BY <1>1, <2>1
<1>4. ASSUME NEW e \in Events, Record(e) \/ TimeStep(e), UNCHANGED <<tables, handler>>
      PROVE  UNCHANGED <<workerVars, handler, tables>>
  BY <1>4 DEF Record, TimeStep, LeaseRunsOut, RetryDelayPasses
<1>5. \/ UNCHANGED <<workerVars, handler, tables>>
      \/ \E w \in Workers : ConsumerStep(w) \/ QueueStep(w) \/ PipeFault(w)
  BY <1>4 DEF PipeNext, pipeVars, vars
<1> QED
  BY <1>2, <1>3, <1>5 DEF StillMissing

LEMMA OneRowStep ==
    ASSUME PipeTyped, StillMissing, OneRowEach, [PipeNext]_pipeVars
    PROVE  OneRowEach'
<1>1. ASSUME NEW e \in Events, NEW u \in Users PROVE notes'[e][u] <= 1
  <2>1. notes[e][u] <= 1
    BY DEF OneRowEach
  <2>2. ASSUME NEW w \in Workers, NotifyInserts(w) PROVE notes'[e][u] <= 1
    <3>1. e = current[w] /\ u \in todo[w] => notes[e][u] = 0
      BY <2>2 DEF NotifyInserts, StillMissing, MissingFor
    <3>2. notes'[e][u] = notes[e][u] + IF e = current[w] /\ u \in todo[w] THEN 1 ELSE 0
      BY <2>2, NotesAdded
    <3>3. notes[e][u] \in Nat
      BY <2>2, NotesAdded
    <3> QED
      BY <2>1, <3>1, <3>2, <3>3
  <2> QED
    BY <2>1, <2>2, RowsGrow
<1>2. ASSUME NEW e \in Events, NEW h \in Hooks PROVE deliveries'[e][h] <= 1
  <2>1. deliveries[e][h] <= 1
    BY DEF OneRowEach
  <2>2. ASSUME NEW w \in Workers, HooksInsert(w) PROVE deliveries'[e][h] <= 1
    <3>1. e = current[w] /\ h \in todo[w] => deliveries[e][h] = 0
      BY <2>2 DEF HooksInsert, StillMissing, MissingFor
    <3>2. deliveries'[e][h] = deliveries[e][h] + IF e = current[w] /\ h \in todo[w] THEN 1 ELSE 0
      BY <2>2, DeliveriesAdded
    <3>3. deliveries[e][h] \in Nat
      BY <2>2, DeliveriesAdded
    <3> QED
      BY <2>1, <3>1, <3>2, <3>3
  <2> QED
    BY <2>1, <2>2, RowsGrow
<1> QED
  BY <1>1, <1>2 DEF OneRowEach

LEMMA NoDuplicates == PipeSpec => []NoDuplicateRows
<1> DEFINE I == ~MayOverrun => StillMissing /\ OneRowEach
<1>1. PipeInit => I
  BY DEF PipeInit, Init, StillMissing, MissingFor, OneRowEach, At
<1>2. PipeTyped /\ ExclusiveLease /\ I /\ [PipeNext]_pipeVars => I'
  BY StillMissingStep, OneRowStep
<1>3. I => NoDuplicateRows
  BY DEF OneRowEach, NoDuplicateRows
<1> QED
  BY <1>1, <1>2, <1>3, PipeTypedAlways, PipelineIsOutbox, ExclusiveLeaseAlways, PTL
     DEF PipeSpec
-----------------------------------------------------------------------------
(* Push jobs: never more than rows, and none missing where nothing failed. *)

(* What a step does to a worker whose handler makes push jobs.             *)
LEMMA JobsAdded ==
    ASSUME PipeTyped, NEW w \in Workers, CreateJob(w)
    PROVE  /\ current[w] \in Events /\ notes' = notes
           /\ \E x \in todo[w] :
                 /\ GoTo(w, "jobs", todo[w] \ {x})
                 /\ \A f \in Events : \A u \in Users :
                       /\ jobs[f][u] \in Nat
                       /\ jobs'[f][u] = jobs[f][u] + IF f = current[w] /\ u = x THEN 1 ELSE 0
<1>1. current[w] \in Events /\ jobs \in [Events -> [Users -> Nat]]
  BY DEF PipeTyped, TypeOK, InHand, PipeTypes, CreateJob, At
<1>2. PICK x \in todo[w] : /\ jobs' = AddRows(jobs, current[w], {x})
                           /\ GoTo(w, "jobs", todo[w] \ {x})
  BY DEF CreateJob
<1>3. \A f \in Events : \A u \in Users :
         LET new == AddRows(jobs, current[w], {x}) IN
         /\ f = current[w] /\ u \in {x} => new[f][u] = jobs[f][u] + 1
         /\ ~ (f = current[w] /\ u \in {x}) => new[f][u] = jobs[f][u]
  <2>1. jobs \in RowsOf(Users)
    BY <1>1 DEF RowsOf
  <2> QED
    BY <1>1, <2>1, AddRowsIs
<1>4. \A f \in Events : \A u \in Users : jobs[f][u] \in Nat
  BY <1>1, Zenon
<1>5. \A f \in Events : \A u \in Users :
         jobs'[f][u] = jobs[f][u] + IF f = current[w] /\ u = x THEN 1 ELSE 0
  <2> SUFFICES ASSUME NEW f \in Events, NEW u \in Users
               PROVE  jobs'[f][u] = jobs[f][u] + IF f = current[w] /\ u = x THEN 1 ELSE 0
    OBVIOUS
  <2>1. jobs' = AddRows(jobs, current[w], {x}) /\ (u \in {x} <=> u = x)
    BY <1>2
  <2>2. /\ f = current[w] /\ u \in {x} => jobs'[f][u] = jobs[f][u] + 1
        /\ ~ (f = current[w] /\ u \in {x}) => jobs'[f][u] = jobs[f][u]
    BY <1>3, <2>1, Zenon
  <2>3. jobs[f][u] \in Nat
    BY <1>4
  <2> QED
    BY <2>1, <2>2, <2>3
<1>6. notes' = notes
  BY DEF CreateJob
<1>7. \E y \in todo[w] :
         /\ GoTo(w, "jobs", todo[w] \ {y})
         /\ \A f \in Events : \A u \in Users :
               /\ jobs[f][u] \in Nat
               /\ jobs'[f][u] = jobs[f][u] + IF f = current[w] /\ u = y THEN 1 ELSE 0
  BY <1>2, <1>4, <1>5
<1> QED
  BY <1>1, <1>6, <1>7

(* Every row has at most one push job, made or still to be made.           *)
Making(e, u) == {w \in Workers : At(w, 1, "jobs") /\ current[w] = e /\ u \in todo[w]}

JobsCounted ==
    \A e \in Events : \A u \in Users :
        /\ IsFiniteSet(Making(e, u))
        /\ jobs[e][u] + Cardinality(Making(e, u)) <= notes[e][u]

(* Jobs are made by one statement only.                                    *)
LEMMA JobsChange ==
    ASSUME PipeTyped, [PipeNext]_pipeVars
    PROVE  jobs' = jobs \/ \E w \in Workers : CreateJob(w)
  BY DEF PipeNext, pipeVars, ConsumerStep, QueueStep, PipeFault, NotifyIgnores, NotifyReads,
     NotifyRejects, NotifyInserts, CreateJob, NotifyDone, HooksRead, HooksInsert, Publish,
     StatementFails, tables

LEMMA JobsCountedStep ==
    ASSUME PipeTyped, JobsCounted, [PipeNext]_pipeVars
    PROVE  JobsCounted'
<1> SUFFICES ASSUME NEW e \in Events, NEW u \in Users
             PROVE  /\ IsFiniteSet(Making(e, u)')
                    /\ jobs'[e][u] + Cardinality(Making(e, u)') <= notes'[e][u]
  BY DEF JobsCounted
<1> DEFINE M == Making(e, u)
           N == {w \in Workers : /\ pc'[w] = "consume" /\ pos'[w] = 1 /\ step'[w] = "jobs"
                                 /\ current'[w] = e /\ u \in todo'[w]}
<1>1. N = Making(e, u)'
  BY DEF Making, At
<1>2. IsFiniteSet(M) /\ jobs[e][u] + Cardinality(M) <= notes[e][u]
  BY DEF JobsCounted
<1>3. /\ jobs[e][u] \in Nat /\ notes[e][u] \in Nat
      /\ todo \in [Workers -> SUBSET (Users \cup Hooks)]
      /\ step \in [Workers -> {"start", "insert", "jobs"}]
  <2>1. jobs \in [Events -> [Users -> Nat]] /\ notes \in [Events -> [Users -> Nat]]
    BY DEF PipeTyped, PipeTypes
  <2>2. jobs[e][u] \in Nat /\ notes[e][u] \in Nat
    BY <2>1, Zenon
  <2> QED
    BY <2>2 DEF PipeTyped, PipeTypes
<1>4. notes'[e][u] \in Nat /\ notes'[e][u] >= notes[e][u]
  <2>1. CASE notes' = notes
    BY <1>3, <2>1
  <2>2. ASSUME NEW w \in Workers, NotifyInserts(w)
        PROVE  notes'[e][u] \in Nat /\ notes'[e][u] >= notes[e][u]
    <3>1. notes'[e][u] = notes[e][u] + IF e = current[w] /\ u \in todo[w] THEN 1 ELSE 0
      BY <2>2, NotesAdded
    <3> QED
      BY <1>3, <3>1
  <2> QED
    BY <2>1, <2>2, RowsGrow
<1>5. ASSUME N \subseteq M, jobs' = jobs
      PROVE  IsFiniteSet(N) /\ jobs'[e][u] + Cardinality(N) <= notes'[e][u]
  <2>1. /\ IsFiniteSet(N) /\ Cardinality(N) \in Nat /\ Cardinality(M) \in Nat
        /\ Cardinality(N) <= Cardinality(M)
    BY <1>2, <1>5, FS_Subset, FS_CardinalityType
  <2> HIDE DEF M, N
  <2> QED
    BY <1>2, <1>3, <1>4, <1>5, <2>1
<1>6. ASSUME NEW w \in Workers, ConsumerStep(w) \/ QueueStep(w) \/ PipeFault(w)
      PROVE  IsFiniteSet(N) /\ jobs'[e][u] + Cardinality(N) <= notes'[e][u]
  <2>1. \A v \in Workers \ {w} : v \in N <=> v \in M
    BY <1>6, WorkersApart DEF Frame, Making, At
  <2>2. CASE NotifyInserts(w) /\ GoTo(w, "jobs", todo[w]) /\ UNCHANGED vars
    <3>1. /\ step'[w] = "jobs" /\ todo'[w] = todo[w] /\ current'[w] = current[w]
          /\ pc'[w] = "consume" /\ pos'[w] = 1 /\ w \notin M /\ jobs' = jobs
      BY <1>3, <2>2 DEF NotifyInserts, GoTo, At, vars, workerVars, Making
    <3>2. notes'[e][u] = notes[e][u] + IF e = current[w] /\ u \in todo[w] THEN 1 ELSE 0
      BY <2>2, NotesAdded
    <3>3. CASE e = current[w] /\ u \in todo[w]
      <4>1. N = M \cup {w}
        BY <2>1, <3>1, <3>3 DEF Making
      <4>2. IsFiniteSet(N) /\ Cardinality(N) = Cardinality(M) + 1 /\ Cardinality(M) \in Nat
        BY <1>2, <3>1, <4>1, FS_AddElement, FS_CardinalityType
      <4> HIDE DEF M, N
      <4> QED
        BY <1>2, <1>3, <3>1, <3>2, <3>3, <4>2
    <3>4. CASE ~ (e = current[w] /\ u \in todo[w])
      <4>1. N \subseteq M
        BY <2>1, <3>1, <3>4
      <4> QED
        BY <1>5, <3>1, <4>1
    <3> QED
      BY <3>3, <3>4
  <2>3. CASE CreateJob(w)
    <3>1. PICK x \in todo[w] :
             /\ GoTo(w, "jobs", todo[w] \ {x})
             /\ jobs'[e][u] = jobs[e][u] + IF e = current[w] /\ u = x THEN 1 ELSE 0
      <4>1. PICK x \in todo[w] :
               /\ GoTo(w, "jobs", todo[w] \ {x})
               /\ \A f \in Events : \A v \in Users :
                     /\ jobs[f][v] \in Nat
                     /\ jobs'[f][v] = jobs[f][v] + IF f = current[w] /\ v = x THEN 1 ELSE 0
        BY <2>3, JobsAdded
      <4> QED
        BY <4>1
    <3>2. /\ step'[w] = "jobs" /\ todo'[w] = todo[w] \ {x} /\ current'[w] = current[w]
          /\ At(w, 1, "jobs") /\ notes' = notes
      BY <1>3, <2>3, <3>1 DEF CreateJob, GoTo, vars, workerVars
    <3>3. CASE e = current[w] /\ u = x
      <4>1. w \in M /\ N = M \ {w}
        BY <2>1, <3>1, <3>2, <3>3 DEF Making
      <4>2. /\ IsFiniteSet(N) /\ Cardinality(N) = Cardinality(M) - 1
            /\ Cardinality(M) \in Nat
        BY <1>2, <4>1, FS_RemoveElement, FS_CardinalityType
      <4> HIDE DEF M, N
      <4> QED
        BY <1>2, <1>3, <3>1, <3>2, <3>3, <4>2
    <3>4. CASE ~ (e = current[w] /\ u = x)
      <4>1. N \subseteq M
        BY <2>1, <3>1, <3>2, <3>4 DEF Making
      <4>2. /\ IsFiniteSet(N) /\ Cardinality(N) \in Nat /\ Cardinality(M) \in Nat
            /\ Cardinality(N) <= Cardinality(M)
        BY <1>2, <4>1, FS_Subset, FS_CardinalityType
      <4> HIDE DEF M, N
      <4> QED
        BY <1>2, <1>3, <3>1, <3>2, <3>4, <4>2
    <3> QED
      BY <3>3, <3>4
  <2>4. CASE step'[w] # "jobs"
    <3>1. N \subseteq M
      BY <2>1, <2>4
    <3>2. ~ CreateJob(w)
      BY <1>3, <2>4 DEF CreateJob, GoTo
    <3>3. \A v \in Workers \ {w} : ~ CreateJob(v)
      BY <1>3, <1>6, WorkersApart DEF Frame, CreateJob, GoTo
    <3> QED
      BY <1>5, <3>1, <3>2, <3>3, JobsChange
  <2> QED
    BY <1>6, <2>2, <2>3, <2>4, AtWork
<1>7. CASE UNCHANGED <<workerVars, handler, tables>>
  <2>1. N = M /\ jobs' = jobs
    BY <1>7 DEF workerVars, handler, tables, Making, At
  <2> QED
    BY <1>1, <1>5, <2>1
<1>8. ASSUME NEW f \in Events, Record(f) \/ TimeStep(f), UNCHANGED <<tables, handler>>
      PROVE  UNCHANGED <<workerVars, handler, tables>>
  BY <1>8 DEF Record, TimeStep, LeaseRunsOut, RetryDelayPasses
<1>9. \/ UNCHANGED <<workerVars, handler, tables>>
      \/ \E w \in Workers : ConsumerStep(w) \/ QueueStep(w) \/ PipeFault(w)
  BY <1>8 DEF PipeNext, pipeVars, vars
<1> HIDE DEF N
<1> QED
  BY <1>1, <1>6, <1>7, <1>9

LEMMA JobsFollow == PipeSpec => []JobsFollowRows
<1>1. PipeInit => JobsCounted
  <2> SUFFICES ASSUME PipeInit, NEW e \in Events, NEW u \in Users
               PROVE  /\ IsFiniteSet(Making(e, u))
                      /\ jobs[e][u] + Cardinality(Making(e, u)) <= notes[e][u]
    BY DEF JobsCounted
  <2>1. Making(e, u) = {}
    BY DEF PipeInit, Init, Making, At
  <2>2. jobs[e][u] = 0 /\ notes[e][u] = 0
    BY DEF PipeInit
  <2> QED
    BY <2>1, <2>2, FS_EmptySet
<1>2. PipeTyped /\ JobsCounted /\ [PipeNext]_pipeVars => JobsCounted'
  BY JobsCountedStep
<1>3. PipeTyped /\ JobsCounted => JobsFollowRows
  <2> SUFFICES ASSUME PipeTyped, JobsCounted, NEW e \in Events, NEW u \in Users
               PROVE  jobs[e][u] <= notes[e][u]
    BY DEF JobsFollowRows
  <2>1. jobs \in [Events -> [Users -> Nat]] /\ notes \in [Events -> [Users -> Nat]]
    BY DEF PipeTyped, PipeTypes
  <2>2. jobs[e][u] \in Nat /\ notes[e][u] \in Nat
    BY <2>1, Zenon
  <2>3. /\ Cardinality(Making(e, u)) \in Nat
        /\ jobs[e][u] + Cardinality(Making(e, u)) <= notes[e][u]
    BY FS_CardinalityType DEF JobsCounted
  <2> QED
    BY <2>2, <2>3
<1> QED
  BY <1>1, <1>2, <1>3, PipeTypedAlways, PTL DEF PipeSpec
(* An event at which nothing failed yet ...                                *)
Clean(e) == ~MayOverrun /\ retryCount[e] = 0 /\ faults = 0

(* ... has a job for every row, except those its worker is making jobs for *)
(* and, for as long as its failure is not recorded, a failed attempt's.    *)
Full(e) == \A u \in Users : jobs[e][u] = notes[e][u]

Short(w, e) ==
    \A u \in Users : notes[e][u] = jobs[e][u] + IF u \in todo[w] THEN 1 ELSE 0

Excused(w, e) == current[w] = e /\ (At(w, 1, "jobs") \/ pc[w] = "nack")

JobsComplete(e) ==
    Clean(e) => /\ \A w \in Workers : At(w, 1, "jobs") /\ current[w] = e => Short(w, e)
                /\ Full(e) \/ \E w \in Workers : Excused(w, e)

(* What has failed stays failed.                                           *)
LEMMA CleanBefore ==
    ASSUME PipeTyped, RetryAccounting, [Next]_vars, NEW e \in Events, Clean(e)'
    PROVE  Clean(e) /\ faults' = faults
<1>1. faults' = 0 /\ faults \in Nat /\ retryCount'[e] = 0 /\ retryCount[e] \in Nat
  BY DEF Clean, PipeTyped, TypeOK
<1>2. faults' = faults \/ faults' = faults + 1
  BY DEF Next, vars, WorkerStep, FaultStep, TimeStep, Record, Claim, Take, Consume,
     ConsumeFails, MarkPublished, MarkFailed, LeaseRunsOut, RetryDelayPasses, ClaimError,
     AckError, NackError, Crash, Fault
<1>3. retryCount' = retryCount \/ retryCount[e] = 0 \/ retryCount'[e] >= retryCount[e]
  <2>1. ASSUME NEW f \in Events, Record(f) PROVE retryCount' = retryCount \/ retryCount[e] = 0
                                                 \/ retryCount'[e] >= retryCount[e]
    <3>1. RetriesOf(f) /\ status[f] = "absent"
      BY <2>1 DEF RetryAccounting, Record
    <3>2. retryCount[f] = 0
      BY <3>1 DEF RetriesOf
    <3>3. retryCount' = [retryCount EXCEPT ![f] = 0]
      BY <2>1 DEF Record, SetRow
    <3> QED
      BY <1>1, <3>2, <3>3 DEF PipeTyped, TypeOK
  <2>2. ASSUME NEW w \in Workers,
               \/ SetPublished(current[w])
               \/ pc[w] = "nack" /\ SetFailed(current[w])
        PROVE  retryCount' = retryCount \/ retryCount'[e] >= retryCount[e]
    <3>1. retryCount \in [Events -> Nat]
      BY DEF PipeTyped, TypeOK
    <3>2. \/ retryCount' = [retryCount EXCEPT ![current[w]] = retryCount[current[w]]]
          \/ retryCount' = [retryCount EXCEPT ![current[w]] = retryCount[current[w]] + 1]
      BY <2>2 DEF SetPublished, SetFailed, SetRow
    <3> QED
      BY <1>1, <3>1, <3>2
  <2> QED
    BY <2>1, <2>2 DEF Next, vars, rowVars, WorkerStep, FaultStep, TimeStep, Claim, ClaimRows,
       Take, Consume, ConsumeFails, MarkPublished, MarkFailed, LeaseRunsOut, RetryDelayPasses,
       ClaimError, AckError, NackError, Crash
<1>4. retryCount[e] = 0
  BY <1>1, <1>3
<1> QED
  BY <1>1, <1>2, <1>4 DEF Clean

(* Only the worker that has an event in hand writes rows for it.           *)
LEMMA OthersKeepRows ==
    ASSUME PipeTyped, NEW w \in Workers, ConsumerStep(w) \/ QueueStep(w) \/ PipeFault(w),
           NEW e \in Events, e # current[w]
    PROVE  \A u \in Users : notes'[e][u] = notes[e][u] /\ jobs'[e][u] = jobs[e][u]
<1>1. NotifyInserts(w) => notes'[e] = notes[e] /\ jobs' = jobs
  BY DEF NotifyInserts, AddRows, PipeTyped, PipeTypes
<1>2. CreateJob(w) => jobs'[e] = jobs[e] /\ notes' = notes
  BY DEF CreateJob, AddRows, PipeTyped, PipeTypes
<1>3. ~ NotifyInserts(w) /\ ~ CreateJob(w) => notes' = notes /\ jobs' = jobs
  BY DEF ConsumerStep, QueueStep, PipeFault, NotifyIgnores, NotifyReads, NotifyRejects,
     NotifyDone, HooksRead, HooksInsert, Publish, StatementFails, tables
<1> QED
  BY <1>1, <1>2, <1>3

(* The events the worker that moves does not have in hand.                 *)
LEMMA OthersStayComplete ==
    ASSUME PipeTyped, NEW w \in Workers, ConsumerStep(w) \/ QueueStep(w) \/ PipeFault(w),
           NEW e \in Events, e # current[w], JobsComplete(e), Clean(e)
    PROVE  JobsComplete(e)'
<1>1. \A u \in Users : notes'[e][u] = notes[e][u] /\ jobs'[e][u] = jobs[e][u]
  BY OthersKeepRows
<1>2. ASSUME NEW v \in Workers, v # w
      PROVE  /\ Excused(v, e) => Excused(v, e)'
             /\ (At(v, 1, "jobs") /\ current[v] = e)' => At(v, 1, "jobs") /\ current[v] = e
             /\ todo'[v] = todo[v]
  BY <1>2, WorkersApart DEF Frame, Excused, At
<1>3. ~ (At(w, 1, "jobs") /\ current[w] = e)'
  BY AtWork DEF At, CreateJob, NotifyInserts, NotifyReads, HooksRead, vars, workerVars
<1>4. \A v \in Workers : (At(v, 1, "jobs") /\ current[v] = e)' => Short(v, e)'
  BY <1>1, <1>2, <1>3 DEF JobsComplete, Short
<1>5. ~ Excused(w, e)
  BY DEF Excused
<1>6. Full(e)' \/ \E v \in Workers : Excused(v, e)'
  BY <1>1, <1>2, <1>5 DEF JobsComplete, Full
<1> QED
  BY <1>4, <1>6 DEF JobsComplete

(* The event it has in hand.                                               *)
LEMMA OwnStaysComplete ==
    ASSUME PipeTyped, ExclusiveLease, NEW w \in Workers, ConsumerStep(w) \/ QueueStep(w),
           NEW e \in Events, e = current[w], JobsComplete(e), Clean(e), Clean(e)'
    PROVE  JobsComplete(e)'
<1>1. pc[w] # "loop" /\ ~MayOverrun
  BY EventsAssumption DEF PipeTyped, InHand, Clean
<1>2. \A v \in Workers : current[v] = e => v = w
  BY <1>1, OneHandler, EventsAssumption DEF PipeTyped, InHand
<1>3. \A v \in Workers \ {w} : current'[v] # e
  BY <1>2, WorkersApart DEF Frame
<1>4. At(w, 1, "jobs") \/ pc[w] = "nack" \/ Full(e)
  BY <1>2 DEF JobsComplete, Excused
<1>5. At(w, 1, "jobs") => Short(w, e)
  BY DEF JobsComplete
<1>6. ASSUME ~ At(w, 1, "jobs")', Full(e)' \/ Excused(w, e)' PROVE JobsComplete(e)'
  BY <1>3, <1>6 DEF JobsComplete, At
<1>7. ASSUME At(w, 1, "jobs")', current'[w] = e, Short(w, e)' PROVE JobsComplete(e)'
  BY <1>3, <1>7 DEF JobsComplete, Excused, At
<1>8. \A u \in Users : jobs[e][u] \in Nat /\ notes[e][u] \in Nat
  <2>1. jobs \in [Events -> [Users -> Nat]] /\ notes \in [Events -> [Users -> Nat]]
    BY DEF PipeTyped, PipeTypes
  <2> QED
    BY <2>1, Zenon
<1>9. CASE NotifyInserts(w) /\ step'[w] # "start"
  <2>1. GoTo(w, "jobs", todo[w]) /\ UNCHANGED vars
    BY <1>9, AtWork DEF NotifyInserts, CreateJob, NotifyReads, HooksRead, At
  <2>2. /\ step'[w] = "jobs" /\ todo'[w] = todo[w] /\ jobs' = jobs
        /\ At(w, 1, "jobs")' /\ current'[w] = e
    BY <1>9, <2>1 DEF NotifyInserts, GoTo, At, vars, workerVars, PipeTyped, PipeTypes
  <2>3. Full(e)
    BY <1>4, <1>9 DEF NotifyInserts, At
  <2>4. \A u \in Users : notes'[e][u] = notes[e][u] + IF u \in todo[w] THEN 1 ELSE 0
    BY <1>9, NotesAdded
  <2>5. Short(w, e)'
    BY <2>2, <2>3, <2>4 DEF Full, Short
  <2> QED
    BY <1>7, <2>2, <2>5
<1>10. CASE CreateJob(w)
  <2>1. PICK x \in todo[w] :
           /\ GoTo(w, "jobs", todo[w] \ {x})
           /\ \A u \in Users : jobs'[e][u] = jobs[e][u] + IF u = x THEN 1 ELSE 0
    <3>1. current[w] \in Events /\ \E x \in todo[w] :
             /\ GoTo(w, "jobs", todo[w] \ {x})
             /\ \A f \in Events : \A u \in Users :
                   /\ jobs[f][u] \in Nat
                   /\ jobs'[f][u] = jobs[f][u] + IF f = current[w] /\ u = x THEN 1 ELSE 0
      BY <1>10, JobsAdded
    <3> QED
      BY <3>1
  <2>2. /\ todo'[w] = todo[w] \ {x} /\ notes' = notes /\ At(w, 1, "jobs")
        /\ At(w, 1, "jobs")' /\ current'[w] = e
    BY <1>10, <2>1 DEF CreateJob, GoTo, At, vars, workerVars, PipeTyped, PipeTypes
  <2>3. \A u \in Users : notes[e][u] = jobs[e][u] + IF u \in todo[w] THEN 1 ELSE 0
    BY <1>5, <2>2 DEF Short
  <2>4. \A u \in Users : notes'[e][u] = jobs'[e][u] + IF u \in todo'[w] THEN 1 ELSE 0
    BY <1>8, <2>1, <2>2, <2>3
  <2> QED
    BY <1>7, <2>2, <2>4 DEF Short
<1>11. CASE ConsumeFails(w)
  <2>1. Excused(w, e)' /\ ~ At(w, 1, "jobs")'
    BY <1>11 DEF ConsumeFails, Excused, At, PipeTyped, TypeOK
  <2> QED
    BY <1>6, <2>1
<1>12. CASE NotifyDone(w)
  <2>1. Full(e)
    BY <1>5, <1>8, <1>12 DEF NotifyDone, Short, Full
  <2>2. Full(e)' /\ ~ At(w, 1, "jobs")'
    BY <1>12, <2>1, AtWork DEF NotifyDone, tables, Full, At, GoTo, PipeTyped, PipeTypes
  <2> QED
    BY <1>6, <2>2
<1>13. CASE MarkFailed(w)
  <2>1. retryCount'[e] = retryCount[e] + 1 /\ retryCount[e] = 0
    BY <1>13 DEF MarkFailed, SetFailed, SetRow, PipeTyped, TypeOK, Clean
  <2> QED
    BY <2>1 DEF Clean
<1>14. CASE /\ ~ At(w, 1, "jobs") /\ pc[w] # "nack" /\ ~ At(w, 1, "jobs")'
            /\ UNCHANGED <<notes, jobs>>
  <2>1. Full(e)'
    BY <1>4, <1>14 DEF Full
  <2> QED
    BY <1>6, <1>14, <2>1
<1>15. NotifyIgnores(w) \/ NotifyReads(w) \/ HooksRead(w)
       => ~ At(w, 1, "jobs") /\ pc[w] # "nack" /\ ~ At(w, 1, "jobs")' /\ UNCHANGED <<notes, jobs>>
  BY DEF NotifyIgnores, NotifyReads, HooksRead, At, GoTo, handler, tables, PipeTyped, PipeTypes
<1>16. HooksInsert(w) \/ Publish(w) \/ (MarkPublished(w) /\ QueueStep(w))
       => ~ At(w, 1, "jobs") /\ pc[w] # "nack" /\ ~ At(w, 1, "jobs")' /\ UNCHANGED <<notes, jobs>>
  BY DEF HooksInsert, Publish, MarkPublished, NextInBatch, QueueStep, At, GoTo, handler,
     tables, PipeTyped, PipeTypes, TypeOK
<1>17. NotifyInserts(w) => step'[w] # "start" \/ ConsumeFails(w)
  BY DEF NotifyInserts, GoTo, PipeTyped, PipeTypes
<1>18. ~ Claim(w) /\ ~ Take(w)
  BY <1>1 DEF Claim, Take, Idle
<1>19. CASE QueueStep(w)
  <2>1. MarkPublished(w) \/ MarkFailed(w)
    BY <1>18, <1>19 DEF QueueStep
  <2> QED
    BY <1>13, <1>14, <1>16, <1>19, <2>1
<1>20. CASE ConsumerStep(w)
  <2>1. \/ NotifyIgnores(w) \/ NotifyReads(w) \/ NotifyInserts(w) \/ CreateJob(w)
        \/ NotifyDone(w) \/ HooksRead(w) \/ HooksInsert(w) \/ Publish(w) \/ ConsumeFails(w)
    BY <1>20 DEF ConsumerStep, NotifyRejects, StatementFails
  <2>2. CASE NotifyInserts(w) \/ CreateJob(w) \/ NotifyDone(w) \/ ConsumeFails(w)
    BY <1>9, <1>10, <1>11, <1>12, <1>17, <2>2
  <2>3. CASE \/ NotifyIgnores(w) \/ NotifyReads(w) \/ HooksRead(w)
             \/ HooksInsert(w) \/ Publish(w)
    BY <1>14, <1>15, <1>16, <2>3
  <2> QED
    BY <2>1, <2>2, <2>3
<1> QED
  BY <1>19, <1>20
LEMMA NothingLost == PipeSpec => []CleanPassLosesNothing
<1> DEFINE I == \A e \in Events : JobsComplete(e)
<1>1. PipeInit => I
  BY DEF PipeInit, Init, JobsComplete, Full, At
<1>2. PipeTyped /\ RetryAccounting /\ ExclusiveLease /\ I /\ [PipeNext]_pipeVars => I'
  <2> SUFFICES ASSUME PipeTyped, RetryAccounting, ExclusiveLease, I, [PipeNext]_pipeVars,
                      NEW e \in Events, Clean(e)'
               PROVE  JobsComplete(e)'
    BY DEF JobsComplete
  <2>0. Clean(e) /\ faults' = faults
    BY CleanBefore, PipeStepOfOutbox
  <2>1. ASSUME NEW w \in Workers, ConsumerStep(w) \/ QueueStep(w) \/ PipeFault(w)
        PROVE  JobsComplete(e)'
    <3>1. CASE e # current[w]
      BY <2>0, <2>1, <3>1, OthersStayComplete
    <3>2. CASE e = current[w]
      <4>1. ~ PipeFault(w)
        BY <2>0 DEF PipeFault, FaultStep, ClaimError, AckError, NackError, Crash, Fault,
           PipeTyped, TypeOK
      <4> QED
        BY <2>0, <2>1, <3>2, <4>1, OwnStaysComplete
    <3> QED
      BY <3>1, <3>2
  <2>2. CASE UNCHANGED <<workerVars, handler, tables>>
    <3>1. UNCHANGED <<pc, pos, current, step, todo, notes, jobs>>
      BY <2>2 DEF workerVars, handler, tables
    <3>2. JobsComplete(e)
      OBVIOUS
    <3> QED
      BY <2>0, <3>1, <3>2 DEF JobsComplete, Full, Short, Excused, At
  <2>3. ASSUME NEW f \in Events, Record(f) \/ TimeStep(f), UNCHANGED <<tables, handler>>
        PROVE  UNCHANGED <<workerVars, handler, tables>>
    BY <2>3 DEF Record, TimeStep, LeaseRunsOut, RetryDelayPasses
  <2>4. \/ UNCHANGED <<workerVars, handler, tables>>
        \/ \E w \in Workers : ConsumerStep(w) \/ QueueStep(w) \/ PipeFault(w)
    BY <2>3 DEF PipeNext, pipeVars, vars
  <2> QED
    BY <2>1, <2>2, <2>4
<1>3. PipeTyped /\ Leased /\ I => CleanPassLosesNothing
  <2> SUFFICES ASSUME PipeTyped, Leased, I, NEW e \in Events,
                      status[e] = "published", Clean(e)
               PROVE  jobs[e] = notes[e]
    BY DEF CleanPassLosesNothing, Clean
  <2>1. \A w \in Workers : e \notin held[w]
    BY DEF Leased, Clean
  <2>2. \A w \in Workers : ~ Excused(w, e)
    BY <2>1 DEF Excused, At, PipeTyped, InHand
  <2>3. Full(e)
    BY <2>2 DEF JobsComplete
  <2>4. jobs[e] \in [Users -> Nat] /\ notes[e] \in [Users -> Nat]
    BY DEF PipeTyped, PipeTypes
  <2> QED
    BY <2>3, <2>4 DEF Full
<1> HIDE DEF I
<1> QED
  BY <1>1, <1>2, <1>3, PipeTypedAlways, PipelineIsOutbox, RetryAccountingAlways,
     LeaseInvariant, PTL DEF PipeSpec

(* What the consumers leave behind, whatever was retried: no row twice, a  *)
(* push job for no row that is not there, and where nothing failed one for *)
(* every row.                                                              *)
THEOREM RowsAreRightAlways == PipeSpec => []RowsAreRight
<1>1. NoDuplicateRows /\ JobsFollowRows /\ CleanPassLosesNothing => RowsAreRight
  BY DEF RowsAreRight
<1> QED
  BY <1>1, NoDuplicates, JobsFollow, NothingLost, PTL
=============================================================================
