------------------------------- MODULE Outbox -------------------------------
(***************************************************************************)
(* The transactional outbox: the table outbox_events and the worker task   *)
(* "outbox" that drains it (modules/outbox, bootstrap/worker.go).          *)
(*                                                                         *)
(* A producer inserts an event in the transaction of the change it reports *)
(* (Record).  Any number of worker processes claim batches of due events   *)
(* (Claim), hand each event to a chain of consumers in order (Consume) and *)
(* mark it published, or failed with a retry, or dead.  The lease of a     *)
(* claim is the row's updated_at: five minutes after the last UPDATE any   *)
(* worker may claim the row again (LeaseRunsOut).  A process may stop      *)
(* between any two statements (Crash), and a statement whose error is      *)
(* reported may or may not have been applied.                              *)
(***************************************************************************)
EXTENDS Integers, FiniteSets

CONSTANTS
    Events,        \* events a producer may record; e < f: e.created_at is earlier
    NoEvent,       \* "no event in hand"
    Workers,       \* worker processes (each has one "outbox" task)
    Limit,         \* batch size: cfg.Worker.Concurrency * 10
    MaxRetries,    \* outboxapp.maxRetries
    Stages,        \* handlers plus the broker publisher, in calling order
    MayOverrun,    \* may a batch take longer than the five minutes of a lease?
    FaultBudget    \* bound: crashes and lost statement results

ASSUME EventsAssumption == Events \subseteq Nat /\ NoEvent \notin Events
ASSUME NumbersAssumption == /\ Limit \in Nat \ {0}
                            /\ MaxRetries \in Nat \ {0}
                            /\ Stages \in Nat \ {0}
                            /\ FaultBudget \in Nat
ASSUME OverrunAssumption == MayOverrun \in BOOLEAN

VARIABLES
    status,      \* outbox_events.status, "absent" before the insert commits
    retryCount,  \* outbox_events.retry_count
    due,         \* next_attempt_at is NULL or has passed
    stale,       \* updated_at is more than five minutes old
    held,        \* the events each worker has claimed and not finished
    current,     \* the event processEvent is working on
    pc,          \* where Process is: loop, consume, ack (MarkPublished), nack (MarkFailed)
    pos,         \* the next consumer of processEvent's chain
    taken,       \* history: the consumers that have completed each event
    faults       \* faults so far

rowVars    == <<status, retryCount, due, stale>>
workerVars == <<held, current, pc, pos>>
vars       == <<rowVars, workerVars, taken, faults>>

Statuses == {"absent", "pending", "processing", "failed", "published", "dead"}
Open     == {"pending", "processing", "failed"}
Settled  == {"published", "dead"}
Chain    == 1..Stages

TypeOK ==
    /\ status \in [Events -> Statuses]
    /\ retryCount \in [Events -> Nat]
    /\ due \in [Events -> BOOLEAN]
    /\ stale \in [Events -> BOOLEAN]
    /\ held \in [Workers -> SUBSET Events]
    /\ current \in [Workers -> Events \cup {NoEvent}]
    /\ pc \in [Workers -> {"loop", "consume", "ack", "nack"}]
    /\ pos \in [Workers -> 1..(Stages + 1)]
    /\ taken \in [Events -> SUBSET Chain]
    /\ faults \in 0..FaultBudget

Init ==
    /\ status = [e \in Events |-> "absent"]
    /\ retryCount = [e \in Events |-> 0]
    /\ due = [e \in Events |-> TRUE]
    /\ stale = [e \in Events |-> FALSE]
    /\ held = [w \in Workers |-> {}]
    /\ current = [w \in Workers |-> NoEvent]
    /\ pc = [w \in Workers |-> "loop"]
    /\ pos = [w \in Workers |-> 1]
    /\ taken = [e \in Events |-> {}]
    /\ faults = 0

-----------------------------------------------------------------------------
(* Helpers.                                                                *)

(* Mutants: no lease; no recovery of abandoned claims; status <> published. *)
ClaimableWithoutLease ==
    {e \in Events : \/ status[e] \in {"pending", "processing"}
                    \/ status[e] = "failed" /\ due[e]}
ClaimableNeverStale ==
    {e \in Events : \/ status[e] = "pending"
                    \/ status[e] = "failed" /\ due[e]}
ClaimableUnpublished ==
    {e \in Events : \/ status[e] \in {"pending", "failed", "dead"} /\ due[e]
                    \/ status[e] = "processing" /\ stale[e]}

Claimable == {e \in Events : \/ status[e] = "pending"
                             \/ status[e] = "failed" /\ due[e]
                             \/ status[e] = "processing" /\ stale[e]}

(* ORDER BY created_at ASC LIMIT n                                         *)
Oldest(S, n) == {e \in S : Cardinality({f \in S : f < e}) < n}

IsHeld(e) == \E w \in Workers : e \in held[w]

Fault == /\ faults < FaultBudget
         /\ faults' = faults + 1

(* An UPDATE of row e: the set_updated_at trigger renews updated_at.       *)
SetRow(e, newStatus, retries, isDue) ==
    /\ status' = [status EXCEPT ![e] = newStatus]
    /\ retryCount' = [retryCount EXCEPT ![e] = retries]
    /\ due' = [due EXCEPT ![e] = isDue]
    /\ stale' = [stale EXCEPT ![e] = FALSE]

(* UPDATE ... SET status = 'published', next_attempt_at = NULL WHERE id    *)
SetPublished(e) == SetRow(e, "published", retryCount[e], TRUE)

(* Mutant: the CASE tests retry_count before it is incremented.            *)
SetFailedLate(e) ==
    IF retryCount[e] >= MaxRetries
    THEN SetRow(e, "dead", retryCount[e] + 1, TRUE)
    ELSE SetRow(e, "failed", retryCount[e] + 1, FALSE)

(* UPDATE ... SET retry_count = retry_count + 1, status = CASE ... WHERE id *)
SetFailed(e) ==
    IF retryCount[e] + 1 >= MaxRetries
    THEN SetRow(e, "dead", retryCount[e] + 1, TRUE)
    ELSE SetRow(e, "failed", retryCount[e] + 1, FALSE)

(* The worker is done with its current event and goes on with the batch.   *)
NextInBatch(w) ==
    /\ held' = [held EXCEPT ![w] = @ \ {current[w]}]
    /\ current' = [current EXCEPT ![w] = NoEvent]
    /\ pc' = [pc EXCEPT ![w] = "loop"]
    /\ pos' = [pos EXCEPT ![w] = 1]

(* The worker forgets its whole batch; the rows keep what they are.        *)
DropBatch(w) ==
    /\ held' = [held EXCEPT ![w] = {}]
    /\ current' = [current EXCEPT ![w] = NoEvent]
    /\ pc' = [pc EXCEPT ![w] = "loop"]
    /\ pos' = [pos EXCEPT ![w] = 1]

-----------------------------------------------------------------------------
(* The producers.                                                          *)

(* The transaction of a domain change commits with its event.  created_at  *)
(* is when the transaction began, so events may appear in any order.       *)
Record(e) ==
    /\ status[e] = "absent"
    /\ SetRow(e, "pending", 0, TRUE)
    /\ UNCHANGED <<workerVars, taken, faults>>

-----------------------------------------------------------------------------
(* The worker task.                                                        *)

(* UPDATE ... SET status = 'processing' of the oldest due rows.            *)
ClaimRows(S) ==
    /\ S # {}
    /\ status' = [e \in Events |-> IF e \in S THEN "processing" ELSE status[e]]
    /\ stale' = [e \in Events |-> IF e \in S THEN FALSE ELSE stale[e]]
    /\ UNCHANGED <<retryCount, due>>

Idle(w) == pc[w] = "loop" /\ held[w] = {}

(* One tick of the task: claim a batch.                                    *)
Claim(w) ==
    /\ Idle(w)
    /\ LET picked == Oldest(Claimable, Limit)
       IN  /\ ClaimRows(picked)
           /\ held' = [held EXCEPT ![w] = picked]
    /\ UNCHANGED <<current, pc, pos, taken, faults>>

(* The claim is applied but its rows never reach the worker.               *)
ClaimError(w) ==
    /\ Fault
    /\ Idle(w)
    /\ ClaimRows(Oldest(Claimable, Limit))
    /\ UNCHANGED <<workerVars, taken>>

(* for _, event := range events: RETURNING promises no order.              *)
Take(w) ==
    /\ pc[w] = "loop"
    /\ \E e \in held[w] : current' = [current EXCEPT ![w] = e]
    /\ pc' = [pc EXCEPT ![w] = "consume"]
    /\ UNCHANGED <<rowVars, held, pos, taken, faults>>

(* Mutant: return nil after the first consumer that succeeds.              *)
ConsumeFirst(w) ==
    /\ pc[w] = "consume"
    /\ taken' = [taken EXCEPT ![current[w]] = @ \cup {pos[w]}]
    /\ pos' = [pos EXCEPT ![w] = @ + 1]
    /\ pc' = [pc EXCEPT ![w] = "ack"]
    /\ UNCHANGED <<rowVars, held, current, faults>>

(* The next consumer of processEvent's chain returns nil.                  *)
Consume(w) ==
    /\ pc[w] = "consume"
    /\ taken' = [taken EXCEPT ![current[w]] = @ \cup {pos[w]}]
    /\ pos' = [pos EXCEPT ![w] = @ + 1]
    /\ pc' = [pc EXCEPT ![w] = IF pos[w] = Stages THEN "ack" ELSE @]
    /\ UNCHANGED <<rowVars, held, current, faults>>

(* Mutant: the error is swallowed.                                         *)
ConsumeFailsSilently(w) ==
    /\ pc[w] = "consume"
    /\ pc' = [pc EXCEPT ![w] = "ack"]
    /\ UNCHANGED <<rowVars, held, current, pos, taken, faults>>
(* The next consumer returns an error: the rest of the chain is skipped.   *)
ConsumeFails(w) ==
    /\ pc[w] = "consume"
    /\ pc' = [pc EXCEPT ![w] = "nack"]
    /\ UNCHANGED <<rowVars, held, current, pos, taken, faults>>

MarkPublished(w) ==
    /\ pc[w] = "ack"
    /\ SetPublished(current[w])
    /\ NextInBatch(w)
    /\ UNCHANGED <<taken, faults>>

(* MarkPublished reports an error, after or without effect, and Process    *)
(* returns at once: what is left of the batch stays claimed.               *)
AckError(w) ==
    /\ Fault
    /\ pc[w] = "ack"
    /\ SetPublished(current[w]) \/ UNCHANGED rowVars
    /\ DropBatch(w)
    /\ UNCHANGED taken

MarkFailed(w) ==
    /\ pc[w] = "nack"
    /\ SetFailed(current[w])
    /\ NextInBatch(w)
    /\ UNCHANGED <<taken, faults>>

(* The UPDATE of MarkFailed is lost; Process ignores it and continues.     *)
NackError(w) ==
    /\ Fault
    /\ pc[w] = "nack"
    /\ NextInBatch(w)
    /\ UNCHANGED <<rowVars, taken>>

(* The worker process stops and starts again.                              *)
Crash(w) ==
    /\ Fault
    /\ ~Idle(w)
    /\ DropBatch(w)
    /\ UNCHANGED <<rowVars, taken>>

-----------------------------------------------------------------------------
(* Time.                                                                   *)

(* Five minutes without an UPDATE of a claimed row.                        *)
LeaseRunsOut(e) ==
    /\ status[e] = "processing" /\ ~stale[e]
    /\ MayOverrun \/ ~IsHeld(e)
    /\ stale' = [stale EXCEPT ![e] = TRUE]
    /\ UNCHANGED <<status, retryCount, due, workerVars, taken, faults>>

(* now() reaches next_attempt_at.                                          *)
RetryDelayPasses(e) ==
    /\ status[e] = "failed" /\ ~due[e]
    /\ due' = [due EXCEPT ![e] = TRUE]
    /\ UNCHANGED <<status, retryCount, stale, workerVars, taken, faults>>

-----------------------------------------------------------------------------
WorkerStep(w) == \/ Claim(w) \/ Take(w)
                 \/ Consume(w) \/ ConsumeFails(w)
                 \/ MarkPublished(w) \/ MarkFailed(w)

FaultStep(w) == ClaimError(w) \/ AckError(w) \/ NackError(w) \/ Crash(w)

TimeStep(e) == LeaseRunsOut(e) \/ RetryDelayPasses(e)

Next == \/ \E e \in Events : Record(e) \/ TimeStep(e)
        \/ \E w \in Workers : WorkerStep(w) \/ FaultStep(w)

Spec == Init /\ [][Next]_vars

(* The ticker runs the task again and again, time passes, faults are       *)
(* finitely many; nothing forces a producer to record an event.            *)
Fairness == /\ \A w \in Workers : WF_vars(WorkerStep(w))
            /\ \A e \in Events : WF_vars(TimeStep(e))

FairSpec == Spec /\ Fairness

-----------------------------------------------------------------------------
(* Properties.                                                             *)

(* A published event has been through every consumer (notifications,       *)
(* webhooks, broker), whatever was retried, lost or run twice on the way.  *)
PublishedMeansConsumed ==
    \A e \in Events : status[e] = "published" => taken[e] = Chain

(* Consumers complete in chain order: whoever has had an event, everyone   *)
(* before it has had it too, even when two workers share the event.        *)
ConsumersInOrder ==
    \A e \in Events : \A i \in taken[e] : 1..i \subseteq taken[e]

(* retry_count and status agree: an event is dead only after MaxRetries    *)
(* recorded failures, and one that is still to be claimed never has them.  *)
RetriesOf(e) ==
    CASE status[e] \in {"absent", "pending"} -> retryCount[e] = 0
      [] status[e] = "processing"            -> retryCount[e] < MaxRetries
      [] status[e] = "failed"                -> retryCount[e] \in 1..(MaxRetries - 1)
      [] status[e] = "dead"                  -> retryCount[e] >= MaxRetries
      [] OTHER                               -> TRUE

RetryAccounting == \A e \in Events : RetriesOf(e)

(* FOR UPDATE SKIP LOCKED and the lease: as long as batches end within it, *)
(* no event is in the hands of two workers.                                *)
ExclusiveLease ==
    ~MayOverrun => \A v, w \in Workers : v # w => held[v] \cap held[w] = {}

(* Attempts: each has its event to itself, and each that fails is counted.  *)
AttemptsAreSound == ExclusiveLease /\ RetryAccounting

(* The strengthening these invariants need.  What a worker has in hand ...  *)
InHand ==
    \A w \in Workers :
        /\ pc[w] = "loop" => current[w] = NoEvent /\ pos[w] = 1
        /\ pc[w] # "loop" => current[w] \in held[w]
        /\ pc[w] = "consume" => pos[w] <= Stages

(* ... how far the event in hand has come ...                              *)
Progress ==
    \A w \in Workers :
        /\ pc[w] = "consume" => 1..(pos[w] - 1) \subseteq taken[current[w]]
        /\ pc[w] = "ack" => taken[current[w]] = Chain

(* ... that it was recorded before it was claimed ...                      *)
HeldRecorded ==
    \A w \in Workers : \A e \in held[w] : status[e] # "absent"

(* ... and, unless batches overrun, that its lease is good.                *)
Leased ==
    ~MayOverrun =>
        \A w \in Workers : \A e \in held[w] : status[e] = "processing" /\ ~stale[e]

IndInv == /\ TypeOK /\ InHand /\ HeldRecorded
          /\ Progress /\ PublishedMeansConsumed /\ ConsumersInOrder
          /\ RetryAccounting
          /\ Leased /\ ExclusiveLease

(* Published and dead are final: no late MarkPublished or MarkFailed, both *)
(* addressed by id alone, may change the outcome of an event.              *)
SettledIsFinal ==
    [][\A e \in Events : status[e] \in Settled => status'[e] = status[e]]_vars

(* Every recorded event is in the end published or dead, for good.         *)
Drains == \A e \in Events : <>[](status[e] \notin Open)

(* The outbox is an at-least-once queue to the modules that record in it.  *)
InQueue(s) == CASE s = "absent"    -> "absent"
                [] s \in Open      -> "queued"
                [] s = "published" -> "done"
                [] s = "dead"      -> "dead"

QueueState == [e \in Events |-> InQueue(status[e])]

Queue == INSTANCE DurableQueue
    WITH Items <- Events, AllowReopen <- MayOverrun,
         state <- QueueState, delivered <- {e \in Events : taken[e] = Chain}

ImplementsQueue == Queue!DQSpec
=============================================================================
