---------------------------- MODULE EventPipeline ----------------------------
(***************************************************************************)
(* The outbox with the three consumers the worker gives it, in their order *)
(* (bootstrap/worker.go): the notifications module, which writes one       *)
(* notification and one push job per recipient; the webhooks module, which *)
(* writes one delivery per subscribed webhook; and the RabbitMQ publisher. *)
(* It refines the step "a consumer has had the event" of Outbox into the   *)
(* statements each consumer executes.  Neither consumer opens a            *)
(* transaction: every INSERT commits by itself, and the deduplication is a *)
(* NOT EXISTS read by the statement that inserts, with no unique index.    *)
(***************************************************************************)
EXTENDS Outbox

CONSTANTS
    Users, Hooks,
    Channels, Null,
    Kind,          \* of an event: message, integration (sender_id ""), other
    ChannelOf,     \* the channel_id of an event's payload
    Recipients,    \* users the recipients CTE selects ({} for a call message)
    Wants,         \* event_types of a webhook; {} means all
    SlugOf,        \* channel its automation is restricted to (channel_slug), or Null
    Flaky          \* may a consumer's statement fail?

ASSUME PipelineAssumption ==
    /\ Null \notin Channels
    /\ Kind \in [Events -> {"message", "integration", "other"}]
    /\ ChannelOf \in [Events -> Channels]
    /\ Recipients \in [Events -> SUBSET Users]
    /\ SlugOf \in [Hooks -> Channels \cup {Null}]
    /\ Flaky \in BOOLEAN

VARIABLES
    notes,        \* rows of notifications per event and user
    jobs,         \* rows of notification_jobs per event and user
    deliveries,   \* rows of webhook_deliveries per event and webhook
    sent,         \* messages accepted by the broker per event
    step,         \* inside Handle: start, insert (snapshot read), jobs
    todo          \* users or webhooks the statement in progress is about

tables   == <<notes, jobs, deliveries, sent>>
handler  == <<step, todo>>
pipeVars == <<vars, tables, handler>>

PipeTypeOK ==
    /\ TypeOK
    /\ notes \in [Events -> [Users -> Nat]]
    /\ jobs \in [Events -> [Users -> Nat]]
    /\ deliveries \in [Events -> [Hooks -> Nat]]
    /\ sent \in [Events -> Nat]
    /\ step \in [Workers -> {"start", "insert", "jobs"}]
    /\ todo \in [Workers -> SUBSET (Users \cup Hooks)]

(* The worker gives the chain three consumers.                             *)
PipeInit ==
    /\ Stages = 3
    /\ Init
    /\ notes = [e \in Events |-> [u \in Users |-> 0]]
    /\ jobs = [e \in Events |-> [u \in Users |-> 0]]
    /\ deliveries = [e \in Events |-> [h \in Hooks |-> 0]]
    /\ sent = [e \in Events |-> 0]
    /\ step = [w \in Workers |-> "start"]
    /\ todo = [w \in Workers |-> {}]

-----------------------------------------------------------------------------
(* Helpers.                                                                *)

At(w, stage, s) == pc[w] = "consume" /\ pos[w] = stage /\ step[w] = s

EventType(e) == IF Kind[e] = "other" THEN "other" ELSE "MessageCreated"

(* One more row for each member of S.                                      *)
AddRows(table, e, S) ==
    [table EXCEPT ![e] = [x \in DOMAIN table[e] |-> table[e][x] + IF x \in S THEN 1 ELSE 0]]

(* Mutant: the INSERT has lost its NOT EXISTS.                             *)
WithoutCheck(table, e) == DOMAIN table[e]

Without(table, e) == {x \in DOMAIN table[e] : table[e][x] = 0}

GoTo(w, s, S) == /\ step' = [step EXCEPT ![w] = s]
                 /\ todo' = [todo EXCEPT ![w] = S]

(* json ->> key: the field of a JSON object, NULL when there is none.      *)
Field(object, key) == IF key \in DOMAIN object THEN object[key] ELSE Null

(* The request body webhooks.Handle builds around the event's payload.     *)
Envelope(e) == [event_id   |-> e,
                event_type |-> EventType(e),
                payload    |-> [channel_id |-> ChannelOf[e]]]

(* The WHERE clause of CreateDeliveriesForEvent, for an active webhook:    *)
(* the subscription, and the automation's channel against the body.        *)
Subscribed(h, e) ==
    /\ Wants[h] = {} \/ EventType(e) \in Wants[h]
    /\ SlugOf[h] # Null => Field(Envelope(e), "channel_id") = SlugOf[h]

-----------------------------------------------------------------------------
(* First consumer: notifications.Handle.                                   *)

(* Other event types return nil at once.                                   *)
NotifyIgnores(w) ==
    /\ At(w, 1, "start")
    /\ Kind[current[w]] = "other"
    /\ Consume(w)
    /\ UNCHANGED <<tables, handler>>

(* The INSERT ... SELECT ... WHERE NOT EXISTS reads its snapshot.          *)
NotifyReads(w) ==
    /\ At(w, 1, "start")
    /\ Kind[current[w]] = "message"
    /\ GoTo(w, "insert", Recipients[current[w]] \cap Without(notes, current[w]))
    /\ UNCHANGED <<vars, tables>>

(* sender_id = '' does not cast to uuid: the statement is always refused.  *)
NotifyRejects(w) ==
    /\ At(w, 1, "start")
    /\ Kind[current[w]] = "integration"
    /\ ConsumeFails(w)
    /\ UNCHANGED <<tables, handler>>

(* Mutant: jobs for all recipients instead of for the rows returned.       *)
NotifyInsertsForAll(w) ==
    /\ At(w, 1, "insert")
    /\ notes' = AddRows(notes, current[w], todo[w])
    /\ \/ GoTo(w, "jobs", Recipients[current[w]]) /\ UNCHANGED vars
       \/ Flaky /\ ConsumeFails(w) /\ GoTo(w, "start", {})
    /\ UNCHANGED <<jobs, deliveries, sent>>

(* The INSERT commits; its result may be lost on the way back.             *)
NotifyInserts(w) ==
    /\ At(w, 1, "insert")
    /\ notes' = AddRows(notes, current[w], todo[w])
    /\ \/ GoTo(w, "jobs", todo[w]) /\ UNCHANGED vars
       \/ Flaky /\ ConsumeFails(w) /\ GoTo(w, "start", {})
    /\ UNCHANGED <<jobs, deliveries, sent>>

(* createJob, one INSERT per returned row.                                 *)
CreateJob(w) ==
    /\ At(w, 1, "jobs")
    /\ \E u \in todo[w] : /\ jobs' = AddRows(jobs, current[w], {u})
                          /\ GoTo(w, "jobs", todo[w] \ {u})
    /\ UNCHANGED <<vars, notes, deliveries, sent>>

(* Mutant: the handler returns after the first row.                        *)
NotifyDoneEarly(w) ==
    /\ At(w, 1, "jobs")
    /\ Consume(w)
    /\ GoTo(w, "start", {})
    /\ UNCHANGED tables

NotifyDone(w) ==
    /\ At(w, 1, "jobs")
    /\ todo[w] = {}
    /\ Consume(w)
    /\ GoTo(w, "start", {})
    /\ UNCHANGED tables

-----------------------------------------------------------------------------
(* Second consumer: webhooks.Handle.                                       *)

HooksRead(w) ==
    /\ At(w, 2, "start")
    /\ GoTo(w, "insert", {h \in Without(deliveries, current[w]) : Subscribed(h, current[w])})
    /\ UNCHANGED <<vars, tables>>

HooksInsert(w) ==
    /\ At(w, 2, "insert")
    /\ deliveries' = AddRows(deliveries, current[w], todo[w])
    /\ Consume(w) \/ (Flaky /\ ConsumeFails(w))
    /\ GoTo(w, "start", {})
    /\ UNCHANGED <<notes, jobs, sent>>

-----------------------------------------------------------------------------
(* Third consumer: the broker.  A lost confirmation is an error although   *)
(* the broker has the message.                                             *)
Publish(w) ==
    /\ At(w, 3, "start")
    /\ sent' = [sent EXCEPT ![current[w]] = @ + 1]
    /\ Consume(w) \/ (Flaky /\ ConsumeFails(w))
    /\ UNCHANGED <<notes, jobs, deliveries, handler>>

-----------------------------------------------------------------------------
(* Mutant: the consumer logs the error and returns nil.                    *)
StatementFailsSilently(w) ==
    /\ Flaky
    /\ Consume(w)
    /\ GoTo(w, "start", {})
    /\ UNCHANGED tables

(* Any statement of a consumer fails without effect.                       *)
StatementFails(w) ==
    /\ Flaky
    /\ ConsumeFails(w)
    /\ GoTo(w, "start", {})
    /\ UNCHANGED tables

ConsumerStep(w) ==
    \/ NotifyIgnores(w) \/ NotifyReads(w) \/ NotifyRejects(w)
    \/ NotifyInserts(w) \/ CreateJob(w) \/ NotifyDone(w)
    \/ HooksRead(w) \/ HooksInsert(w) \/ Publish(w)
    \/ StatementFails(w)

(* What Outbox does outside the consumers, unchanged.                      *)
QueueStep(w) ==
    /\ Claim(w) \/ Take(w) \/ MarkPublished(w) \/ MarkFailed(w)
    /\ UNCHANGED <<tables, handler>>

PipeFault(w) ==
    /\ FaultStep(w)
    /\ GoTo(w, "start", {})
    /\ UNCHANGED tables

PipeNext ==
    \/ \E e \in Events : (Record(e) \/ TimeStep(e)) /\ UNCHANGED <<tables, handler>>
    \/ \E w \in Workers : ConsumerStep(w) \/ QueueStep(w) \/ PipeFault(w)

PipeSpec == PipeInit /\ [][PipeNext]_pipeVars

PipeFairSpec ==
    /\ PipeSpec
    /\ \A w \in Workers : WF_pipeVars(ConsumerStep(w) \/ QueueStep(w))
    /\ \A e \in Events : WF_pipeVars(TimeStep(e) /\ UNCHANGED <<tables, handler>>)

-----------------------------------------------------------------------------
(* Properties.                                                             *)

(* A published event has left its row with every recipient and every       *)
(* webhook the query selects, and a message with the broker, although each *)
(* statement commits alone and a retry starts the chain from the top.      *)
PublishedReachedAll ==
    /\ PipeTypeOK
    /\ \A e \in Events : status[e] = "published" =>
           /\ Kind[e] = "message" => Recipients[e] \cap Without(notes, e) = {}
           /\ \A h \in Hooks : Subscribed(h, e) => deliveries[e][h] > 0
           /\ sent[e] > 0

(* Retries and crashes duplicate no notification and no delivery, as long  *)
(* as two workers never run the same statement at once (no unique index    *)
(* protects either table).                                                 *)
NoDuplicateRows ==
    ~MayOverrun =>
        \A e \in Events : /\ \A u \in Users : notes[e][u] <= 1
                          /\ \A h \in Hooks : deliveries[e][h] <= 1

(* A recipient gets at most one push job per notification row: a retry     *)
(* creates jobs only for the rows its own INSERT returned.                 *)
JobsFollowRows ==
    \A e \in Events : \A u \in Users : jobs[e][u] <= notes[e][u]

(* Push jobs go missing only where something failed: an event published on *)
(* the first try, within one lease and with no fault anywhere, has a job   *)
(* for every row.                                                          *)
CleanPassLosesNothing ==
    ~MayOverrun =>
        \A e \in Events :
            status[e] = "published" /\ retryCount[e] = 0 /\ faults = 0
            => jobs[e] = notes[e]

(* What the consumers leave behind, whatever was retried: no row twice, a  *)
(* push job for no row that is not there, and where nothing failed one for *)
(* every row.                                                              *)
RowsAreRight == NoDuplicateRows /\ JobsFollowRows /\ CleanPassLosesNothing

(* Where no statement fails and no process stops, the event of a message   *)
(* written by a bot, a webhook or an order reaches its consumers.          *)
IntegrationEventsAreProcessed ==
    \A e \in Events : ~Flaky /\ faults = 0 => status[e] # "dead"
=============================================================================
