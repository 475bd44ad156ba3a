# TLA+ models of the chat server

This directory models and verifies the parts of the system whose correctness
depends on order: what several processes, a database, an object store, sockets
and a mobile app do to the same state in steps that others may come between.
Everything is written from the source under `src/`; the documents under
`src/docs` and `src/backend/docs` are used only to find out what the system
promises. In this text `modules/x` is `src/backend/internal/modules/x` and
`mobile/x` is `src/mobile/lib/features/x`.

## 1. The system

| Part | Source | State | Operations | Talks to |
|---|---|---|---|---|
| API process | `bootstrap/api.go`, modules' `delivery/http` | ring timers, websocket clients | one goroutine per request | PostgreSQL, realtime hub |
| Worker process (any number) | `bootstrap/worker.go` | none that survives | one loop per task: outbox 3 s, call_timeouts 1 s, notification_jobs 1 s, webhook_deliveries 5 s, presence 30 s, cronjobs 15 s, backups 60 s | PostgreSQL, RabbitMQ, FCM, HTTP targets |
| Outbox | `modules/outbox` | `outbox_events` | insert in the producer's transaction, claim, consume, mark | notifications, webhooks, RabbitMQ |
| Notifications, push | `modules/notifications`, `modules/push_devices` | `notifications`, `notification_jobs`, `push_devices` | handle event, notify call, process jobs, register and remove devices | outbox (consumer), calls (called by), FCM |
| Webhooks | `modules/webhooks` | `outgoing_webhooks`, `webhook_deliveries`, `incoming_webhooks` | fan-out of events, claim and send, test, update, delete | outbox, HTTP targets, tenancy |
| Calls | `modules/calls` | `call_sessions`, `call_signals` | create, accept, reject, cancel, hang up, expire (timer, sweeper), signal | notifications, messages, outbox, realtime |
| Messages | `modules/messages` | `messages`, `search_documents`, pins, reactions | send with client message id, edit, delete, react, pin, forward | outbox (producer), order bot |
| Files | `modules/files`, `platform/storage` | `files`, `file_versions`, `message_attachments`, objects | upload, new version, attach, download | object store, messages |
| Bots, order bot | `modules/bots`, `modules/order` | `bot_flows`, installations | create, edit, publish flows; install; post; answer a question, charge | messages, order API |
| Sync | `modules/sync`, `mobile/sync` | `mobile_sync_cursors`, the device's cursor | catch up, page, acknowledge | `outbox_events` (read) |
| Cron jobs, backups | `modules/cronjobs`, `modules/backups` | jobs, runs, locks | claim due, run, finish, run now, edit | outbox and sessions (clean-up), files |
| Auth | `modules/auth` | `user_sessions`, OIDC states, identities | register, log in (password, Google, OIDC), refresh, log out, revoke | users, workspaces, tenancy |
| Tenancy | `modules/tenancy` | zones, domains, workspaces, quotas, installations | claim and verify domains, primary domain, lifecycle, quotas, automations | DNS, webhooks |
| Contacts, channels | `modules/contacts`, `modules/channels` | `contact_requests`, `channels`, `channel_members` | ask, answer, cancel; open direct and private conversations, join, manage members | realtime hub |
| Departments | `modules/departments` | `departments`, `channels.department_id` | create, move, delete, file a channel | channels |
| Realtime hub | `platform/websocket` | clients, rooms | register, join, leave, broadcast, unregister | API process, devices |
| Mobile app | `mobile/chat`, `mobile/sync` | stored outbox, cached pages, what a room shows | send and retry, load pages, apply events, pause and resume | API, hub |
| Roles, members, tickets | `modules/rbac`, `modules/workspaces`, `modules/tickets` | `roles`, `user_roles`, `workspace_members`, `tickets` | create and give roles, add members, archive; open and move tickets | every service asks for permissions |
| API tokens, incoming webhooks | `modules/api_tokens`, `modules/webhooks` | `api_tokens`, `incoming_webhooks` | create, revoke; authenticate, then post | messages, outbox |
| Presence | `modules/presence` | `user_presence` | heartbeat, goodbye, sweep | worker, hub |
| admin, audit | `modules/*` | tables of their own | CRUD behind permission checks | – |
| Web frontend | `src/frontend` | caches | screens | API |

Four behaviours make this code hard. *Leases*: a row is "mine" as long as its
`updated_at` (or `locked_until`) is young, and nothing stops a slow worker from
going on after that. *Statement sequences*: most handlers execute several
statements with no transaction around them, and several ignore their errors.
*Snapshots*: what a handler has read (a status, a cursor, `NOT EXISTS`, a count,
a parent, a membership) may be stale when it writes. *Read, await, write*: the
app keeps lists as one stored value and replaces what is shown by what a request
brought, however old that is by now. `PROJECT.json` lists each hazard at its
line, under `hazards`, with the properties that would catch it.

What makes each part correct:

* outbox – nothing published that a consumer has not had; nothing left open;
  outcomes final; attempts counted;
* notifications and fan-out – everyone selected gets exactly one row; a push job
  for each where nothing failed;
* deliveries and push jobs – a truthful mark, every attempt counted, an end;
* calls – one outcome, announced truthfully and carried out once; ringing ends;
* messages – one message and one charge per client id; index and events agree
  with the rows;
* files – a version has its content and content has an owner; bots – one
  published flow, never lost, never edited;
* sync – no event is skipped that was there when the page was read;
* jobs – one run per lock; a schedule that follows the last edit; due jobs run;
* sessions – what was revoked or logged out stays so; a token is given only to
  someone who was allowed it;
* access – one owner, joins that were offered, links to verified addresses;
* zones – one primary domain, nothing served of an archived zone, quotas kept;
* conversations – private ones stay private, managers decide, members hear;
* departments – a tree, and nothing hangs under what was deleted;
* workspaces – a role permits in its own workspace only, every query agrees on
  what is permitted, programs post only with what was good when it was checked;
* mobile – a text is kept until it has arrived, a room shows what the server has.

## 2. The modules

| Module | Models | Relation |
|---|---|---|
| `DurableQueue` | abstract specification: an at-least-once queue | implemented by `Outbox` and `EventPipeline` |
| `Outbox` | `modules/outbox` and its worker task | base |
| `OutboxProofs` | proofs about `Outbox` and `EventPipeline` | extends both |
| `EventPipeline` | the outbox with its consumers' statements | extends `Outbox`, refines its step `Consume` |
| `WebhookDeliveries` | `webhook_deliveries` and its senders | takes over the rows the pipeline writes |
| `PushJobs` | `notification_jobs`, `push_devices` and their sender | takes over the jobs the pipeline and the calls write |
| `Calls` | one call and everything that hangs on it | writes push jobs and an outbox event of its own |
| `CallsProofs` | proofs about `Calls` | extends it |
| `Messaging` | messages of two channels, the order bot | producer of outbox events |
| `MessagingProofs` | proofs about `Messaging`, `Files` and `Bots` | extends `MCMessaging`, where the three meet |
| `Files` | files, versions, objects, attachment | beside `Messaging` |
| `Bots` | flows, installations and messages of a bot | beside `Messaging` |
| `Sessions` | sessions of one account | reads what `Access` and `Tenancy` change |
| `Access` | who gets into a zone's workspace, and how | reads the zone of `Tenancy` |
| `AccessProofs` | proofs about `Access` | extends it |
| `Tenancy` | one zone with domains, quota, automations and webhooks | – |
| `Permits` | roles, permissions, members and tickets of several workspaces | beside `Tenancy` |
| `Integrations` | API tokens, incoming webhooks and what they post | extends `Permits` |
| `Presence` | who is shown as online | beside `Tenancy` |
| `Notices` | whom a message notifies, by their settings | the recipients `EventPipeline` takes as given |
| `WorkspaceProofs` | proofs about `WebhookDeliveries`, `Tenancy`, `Permits`, `Integrations`, `Presence` and `Notices` | extends the first and `MCTenancy`, where the others meet |
| `Conversations` | contacts, channels, members, hub | – |
| `Departments` | the tree of departments | beside `Conversations` |
| `ConversationsProofs` | proofs about `Conversations` and `Departments` | extends both |
| `ScheduledJobs` | `cron_jobs` and `backup_jobs` | – |
| `JobsProofs` | proofs about `ScheduledJobs` and `PushJobs` | extends both |
| `MobileSync` | catch-up of one device | reads the events that `Outbox` settles and a cron job deletes |
| `MobileOutbox` | texts the app could not send | sends with the client ids of `Messaging` |
| `ChatRoom` | the messages a room of the app shows | fed by the pages of the server and the hub |
| `DeviceProofs` | proofs about `Sessions`, `MobileSync`, `MobileOutbox` and `ChatRoom` | extends `Sessions` and `MCMobile` |
| `MC…` | instances for TLC | extend the modules they instantiate |

A definition named after another with a suffix (`ClaimableNeverStale` beside
`Claimable`) is a wrong variant, marked *Mutant* in its comment: substituting it for
the operator it is named after breaks a property. No specification uses one.

Five MC modules (`MCMobile`, `MCMessaging`, `MCConversations`, `MCTenancy`, `MCJobs`) hold
modules that share no rows. They do not multiply their states: a variable `part`
is fixed by Init, one module moves in a behaviour and the others stay as they
start. Nothing is claimed about interactions that such modules do not have.

Common conventions: `pc` and `req` (or `stage`, `step`, `request`, `sender`, `hand`) are a
handler's place and its local variables; one action is one SQL statement, one
transaction, or one await of the app; history variables are commented as such and
are read by properties only, never by a guard. A history variable that excuses a
property (`late`, `overtaken`, `unlocked`, `spoiled`, `orphans`, `bent`, `strays`,
`overwritten`, `interrupted`) is set exactly at the step where the code does
what excuses it. The properties therefore say not only what holds but name the
only ways in which it fails; section 5 lists those.

### Outbox

`status`, `retryCount` are the columns of `outbox_events`; `due` stands for
`next_attempt_at <= now()`, `stale` for `updated_at` older than five minutes, so
time is two Booleans that actions may raise. `held`, `current`, `pc`, `pos` are
the local variables of `Service.Process`. `Record` is the commit of a producer's
transaction; `Claim` the one UPDATE of `Repository.Claim`; `Take`, `Consume`,
`ConsumeFails`, `MarkPublished`, `MarkFailed` the loop. `ClaimError`, `AckError`
and `NackError` are statements whose error is reported with or without the
statement applied, followed by what the code does then (return from `Process`,
which drops the batch, or continue). `Crash` stops a process anywhere.
A batch is processed in any order because `UPDATE … RETURNING` promises none.
`MayOverrun` is the assumption that matters: with FALSE a batch ends within the
five minutes of its lease (a batch is `concurrency * 10` events of a few
statements and one confirmed publish); with TRUE it may not.

### EventPipeline

`Consume` and `ConsumeFails` of `Outbox` become the statements of
`notifications.Handle` (one INSERT … SELECT, then one INSERT per push job),
`webhooks.Handle` (one INSERT … SELECT) and the RabbitMQ publisher. An
INSERT … SELECT … WHERE NOT EXISTS is two actions: the read of its snapshot and
the commit of its rows. `Subscribed` is the WHERE clause of
`CreateDeliveriesForEvent` applied to the request body that `Handle` builds
(`Envelope`); `Field` is the `->>` of PostgreSQL. `NotifyRejects` is the cast of
an empty `sender_id` to uuid. Webhooks are active throughout; their status is
`WebhookDeliveries`' business.

### WebhookDeliveries, PushJobs

Deliveries have the lease of the outbox, `attempts` for `attempt_count`, plus
`hook`, the webhook's status. Senders are the workers and the requests of
`TestOutgoing`, which mark by id without a claim. `requests` and `accepted` are
history: HTTP requests made, and rows the target answered 2xx.

Push jobs have no lease: `ProcessPendingJobs` claims what is pending or due for
a retry. `TokensOf` reads the devices when the job is sent, not when it was
made; a send is a step per token, and the first error ends the attempt.

### Calls

One call. `Requests` are the HTTP requests made about it. `Timer` stands for the
AfterFunc timers of the API process (`timers` counts those pending), `Sweeper`
for the worker task. A handler is a sequence of steps, one per statement, from
the read of the row (`Decide`) to the publication (`Publish`). `StatementFails`
loses a statement and follows the code's error path, `ResultLost` applies it and
loses the answer, `ApiStops` and `WorkerStops` end a process and, for the API,
its timers. Which participant may do what is abstracted: the model lets any
request carry any action. Permission checks and validation are left out.

### Messaging, Files, Bots

`msgs`, `docs`, `pins`, `reacts` are tables, `ver` the number of edits of a body.
`Send` finds by client id, inserts (with the unique index of migration 19),
finds again after a conflict, decides by `created_at` whether it is a first
send – the two clocks make that an arbitrary choice for a message that is not old
enough – and lets the order bot answer. `told` folds the outbox
events of a message in commit order; that is what a consumer sees. The order API
is external: it charges once per idempotency key, and may charge and not answer.

An upload of `Files` is: check, put the object, write file and version, attach.
A failure reported after the commit undoes the object (`spoiled`); a stop leaves
one without a row (`orphans`). `Bots` splits `PublishFlow` into its two UPDATEs
under the partial unique index of migration 20 and the row locks of READ
COMMITTED (`seen`, `archived`, `wrote`).

### Sessions, Access, Tenancy

`Sessions`: a refresh finds the session of a token, reads the zone, the user and
the membership in statements of their own, then rotates by session id. `since`
records what held at some time while the request ran. `Access`: registration
reads the zone again under a lock, log-in and single sign-on do not; `auth`
carries an OIDC authorization through its one-time state and one-time result,
`linked` is `zone_oidc_identities`. The provider is external; it may return any
subject, with a verified address or not. Administrators change members and accounts, and give
and take roles (`modules/rbac`) between any two steps; `revoked` remembers what was taken.

`Tenancy`: each transaction is one action because each locks the zone or writes
an audit row of it, which waits for that lock. An insertion under a quota has two:
`LockQuota` with the count that a statement takes before it holds the row, and
the insertion with the trigger's second count. `inst`, `runtime` are installations
and their runtime webhooks; a request decides on the zone it was admitted with.

### Permits, Integrations, Presence, Notices

`Permits`: `doing` is a request between its permission check and its one statement,
so a permission may be gone when the statement runs; `givenBy` is who gave a role; `ListUserWorkspacePermissions`
and `UserHasPermission` are two queries that must agree, and a role has a
workspace or is global. `Dated` is how a status writes a ticket's `resolved_at` and
`closed_at`. `Integrations`: a program authenticates in one statement and inserts in a
later one; `Usable` is the WHERE clause of the first. `Presence` keeps the row of a
user and a device with the socket of its last heartbeat; `said` is what that
socket told the server last. `Notices`: `wish` and the channel's settings as two
queries read them, each filling in what is missing; `Wants` is the WHERE clause
that picks the recipients; `shown` remembers both settings of a recipient when the notice was
written. Quiet hours are stored and no query reads them, and a channel set to 'mentions' is shown so
and treated as 'all': the model has both, and `ChannelMentionsUnheeded` names the second.

### Conversations, Departments

`cards` are contact requests in the order made; two users, a group channel, the
direct conversation and a private session. `sock`, `joining`, `rooms`, `left`
are the hub: a socket is admitted, then joins; a broadcast collects a list under
the lock and sends after it. Three actions are other modules': `SetWorkspaceMember`
(an administrator disables or enables), and, where the group channel is `public`, the rows that
`RepairAccess` (a registration, log-in or refresh, `modules/auth`) and `AddWorkspaceMember`
(`modules/workspaces`) write into it: the first where there is none, the second over what is
there. `Departments` splits create and move into `Check` (`CanSetParent`) and
`Write`, and delete into its three statements with one commit. `fresh` says
that no other commit has come between a check and its write.

### ScheduledJobs

`table` chooses between the two tables, whose code differs in little: what a
cron job writes when it fails, and edits that clear the lock or not. `next` is
none, later or due; `lock`, `fresh` the holder and whether `locked_until` is in the
future. A claim copies the row (`Copies`), and `FinishRun` computes the next run
from the copy. `RunNow` is a request that runs a copy without claiming.

### MobileSync, MobileOutbox, ChatRoom

`MobileSync`: `tx` is the life of the transaction that writes an event, whose
`created_at` is fixed at `Begin` and which is visible from `Commit`. Event
numbers are the order by `(created_at, id)`. A catch-up reads the cursor, asks,
lists, saves, acknowledges, page by page; `inFlight` and `degraded` are the
widget's fields. `Prune` is `cleanup_dead_outbox` with the foreign key's
ON DELETE SET NULL; none happens while an older transaction is open, because it
deletes what was settled 30 days ago.

`MobileOutbox`: the stored list is read, awaited and written as a whole (`list` in a
process is the copy between), and a controller keeps its own copy. A
controller whose room was left goes on: `Controllers` are those of successive
visits. `AppDies` takes them all away. `ChatRoom`: `row` is the server, `view`
the screen. A page, cached or fetched, is a view (`PageOf`); `UpsertLocal`
saves either the page as it was when the request was made or the one of its
answer; `Reduced` is the reducer of events. A socket is connecting, joined or
closing, and may lose what the hub could not queue. `Broadcast` sends committed
changes in any order, which is what handlers that publish after their commits do.

## 3. The runs

All bounds are in the `.cfg` files, and every CONSTANT that is a bound says so
where it is declared. Fault bounds limit crashes, failing statements and lost
results; they are what makes liveness claims read "if faults stop".

| Run | Question | Bounds, and why they suffice |
|---|---|---|
| `outbox` | Does the outbox keep its promise while leases hold? | 3 events, 2 workers, batches of 2 (one is left for the other), 2 retries, a chain of 2, 1 fault |
| `pipeline` | What does "published" guarantee to recipients, webhooks and broker? | a message, a bot message, another event; 2 recipients, 2 webhooks (one bound to a channel); any statement may fail; 1 worker, 1 fault |
| `calls` | One outcome, truthfully carried out? | 3 requests (a create and two others, or repeated creates), timer, sweeper, 1 fault |
| `deliveries` | Is the delivery log truthful, and does it drain? | 1 event row, 1 test row, 2 workers, 3 attempts, 2 faults |
| `messaging` | One message, one charge, one truth? | 2 handlers, a user who pays and a manager who deletes, 1 client id, 2 messages, 1 edit, 1 move; checked once with the order bot and deletions, once with edits, pins and reactions and no answering bot; 2 uploads over 3 keys and 1 fault; 3 flows, 2 publishers, 1 edit, 1 fault |
| `sessions` | Is a revocation final? | 2 requests, 2 sessions, 3 tokens, 2 changes: a refresh against a log-out or a second refresh with a change before and between |
| `access` | Who gets in, and as whom? | 2 people, 2 requests, 1 authorization (a browser may repeat every step of it), 2 changes |
| `tenancy` | Do domains, lifecycle, automations and quotas stay consistent, and who may do what in a workspace? | the zone: 2 requests at a time, 5 in all: a zone is claimed, provisioned, gets a second domain and is stopped while another request is in flight; 2 domains, 2 installations, 2 workspaces, quota up to 2. The workspaces: 2 of an owner each, 2 requests at a time and 4 in all over 2 codes of roles, 1 ticket, 1 token, 1 webhook, 1 program; 2 persons with 2 sockets and 4 heartbeats; 3 readers of 1 message, 2 changes of settings |
| `conversations` | Who is in, and who hears? | 2 users, 2 handlers, 5 requests (4 where contacts are asked for), 2 contact requests, 1 socket, 1 change; contacts with what they open, and a group channel, apart; 3 departments (the smallest circle with a bystander), 2 editors, 1 channel |
| `jobs` | Do schedules and push jobs survive overlap and stops? | 2 workers; 2 jobs in batches of 2, or 1 job and a run by hand; 1 edit, 1 fault. 2 push jobs, 2 workers, 2 devices, 2 attempts, 1 fault, 1 change |
| `mobile` | Does a device lose anything? | catch-up: 3 events, pages of 1, 2 loops of 2 pages, 1 fault; outbox: 2 texts in a room and 1 fault, 1 text and 2 faults, or 1 left to a closed room; room: 2 messages (one on an older page), 2 sockets, and either 1 change, 1 fault and pauses or 2 changes and the older page |
| `bot` | finding, section 5 | 1 event, 2 workers, no fault |

The largest runs have two to three million distinct states and take a minute
and a half. Symmetry is used in runs without liveness properties only, over handlers,
people, domains and installations, which no definition tells apart.

Deadlock is not checked: in every module the system may legitimately come to
rest (all events settled, the call over, all requests handled).

Several properties are conjunctions, so that one name states what one part
promises: `AttemptsAreSound` (`ExclusiveLease`, `RetryAccounting`), `OneOutcome`
(`TimesMatchStatus`, `OneFinisher`, `MessageTellsOutcome`,
`AnnouncedOutcomeIsReal`), `RowsAreRight` (`NoDuplicateRows`, `JobsFollowRows`,
`CleanPassLosesNothing`), `LogIsTrue` (`SuccessWasAccepted`, `EveryRequestCounted`,
`RetryAccounting`), `FilesAndBotsAreWhole`, `ZoneConsistent` (`OnePrimary`,
`ArchivedIsDark`, `HooksFollow`), `TreeIsWhole` (`NothingOrphaned`, `NoCircle`),
`ScheduleIsKept` (`LocksExclude`, `ScheduleFollowsStatus`), `PushesAreCounted`
(`SentMeansAccepted`, `OneSender`, `OnlyFaultsAbandon`), `JobsSettle`
(`DueJobsRun`, and `PushSettles` where push jobs run), `DeviceIsRight`
(`KeptUntilSent`, `SendingMeansTrying`, `RoomIsTrue`), `WorkspacesAreSound`
(`RolesStayHome`, `ViewsAgree`, `TicketsAreDated`, `PostsWereAllowed`, `PresenceIsTrue`,
`NoticesWereWanted`), `RoomSettles` (`QueuedIsDelivered`,
`RoomCatchesUp`). Several carry the type invariant too. `PROJECT.json` lists at
least one mutant for each property, for the larger ones several.

Reading some of them:

* `PublishedReachedAll` holds whatever overruns; `NoDuplicateRows` only while
  leases hold, since no unique index backs the NOT EXISTS.
* `OutcomeIsFinal` is about rows of events; a test's row may be overwritten,
  because its request and a worker can both send it.
* `RingingStops` excludes what the code allows: a statement that failed, and an
  invitation written after the call was over (`late`).
* `GrantsWereAllowed` does not say "at one time": user, membership and zone are
  read one after the other, and each held when it was read.
* `SendsAreIdempotent`: one live message for a client id, and one charge at most
  for each message; a client id is charged again only by a second message, after
  the first was deleted and its client id became free.
* `ManagersDecide` and `JoinsWereOffered` are about steps: they name the request
  that may make the step, not a state. `ManagersDecide` lets a public channel be entered without
  a manager by a log-in of somebody who has no row in it, and by an addition to the workspace.
* `AccessConsistent`: nothing stops `RevokeWorkspaceRole` from taking the owner's role or a member's
  last; what holds is that no way in forgets the roles.
* `NoticesWereWanted` compares the recipients' query with what two other queries show: every
  setting is heeded but a channel's 'mentions'.
* `QuotaHolds` bounds insertions, not counts: an administrator may set a limit
  below what is in use.
* `RoomIsTrue` compares what is shown with what has been heard: an event that was
  lost or overtaken may leave the room behind until it is loaded again, and
  `RoomCatchesUp` says that loading repairs the newest page.
* `QueuedIsDelivered` holds apart from the two ways to strand a text, and
  needs the user to come back and tap.

### Fairness

Weak fairness per process: the ticker of `runTaskLoop` runs each task again and
again, a handler once started goes on, a socket delivers what it holds.
Time gets weak fairness: a lease, a lock and a retry delay run out by the clock,
a ring timeout passes. `MCMobile` assumes a user who comes back: opens the
room, resumes the app, taps the items that failed; `LoadMessages` needs strong
fairness because pauses disable it again and again. Nothing else forces clients,
producers or administrators to act, and no fault is ever forced. `sessions`,
`access`, `messaging`, `conversations` and `tenancy` need no fairness: their
properties are safety.
`Drains` relies on one thing more: crashes are finitely many. The code does not
count a crash as an attempt, so an event that always kills its worker would be
tried for ever.

## 4. What is proved

`OutboxProofs` holds for every set of events and workers, every batch size,
retry limit, chain length and number of faults. It rests on `EventsAssumption`,
`NumbersAssumption` and `OverrunAssumption`, which say no more than the types of
the constants; TLC evaluates them in every run whose module extends `Outbox`.

The properties are not inductive. `PublishedMeansConsumed` needs to know
how far a worker has come with the event in its hand (`Progress`), which needs
`ConsumersInOrder`, and that a position in the chain belongs to an event in
the batch (`InHand`). `RetryAccounting` is inductive alone given the types.
`ExclusiveLease` needs `Leased` (every held row is `processing` and
not stale unless batches overrun), and `SettledIsFinal` follows from it: a
worker that marks a row still owns it. `IndInv` is the conjunction. The proofs treat
these groups in separate invariants, one step per action: `TypeAndHand`,
`ChainInvariant`, `RetryStep`, `LeaseInvariant`. `AttemptsAreSoundAlways` combines two.

`OutboxRefinesQueue` proves `Spec => Queue!DQSafe`: initial states map to
initial states, each action to `Put`, `Deliver`, `Settle`, with overrun also
`Reopen`, or to a stutter. The fairness half of `ImplementsQueue` is
model-checked only.

Its second part is about `EventPipeline`, from `PipelineAssumption`: any users, webhooks and
kinds of events, any failing statements. `PipelineIsOutbox` proves `PipeSpec => Spec`, step by
step, so all of the above holds of the pipeline too. `PublishedReachedAll`
follows from `PublishedMeansConsumed` and `ReachInv`: a consumer that has completed an
event has written its rows (`Reached`), because what a handler has read and not yet written
is, with what is written, everyone the query selects (`Knows`). It needs no lease. That no row is
written twice does: what a handler found missing is still missing when it inserts (`StillMissing`),
because nobody else has its event in hand. `JobsCounted` counts the jobs the
workers have still to make (`Making`) with those made, and holds with overrun too.
`JobsComplete` follows an event at which nothing failed through the making of its jobs.
The three consumers (`Stages = 3`) are part of `PipeInit`.

`CallsProofs` holds for every set of requests and number of failures and rests
on `FaultAssumption` alone. `Typed` adds to the types what a process remembers
(`Memory`): at its update, an action and the status it needs; while it finishes a
call, the status it led to. With it, `StepKinds` sorts every step: the row stays,
or the call starts to ring, or one process moves the row by an action of the
table and nobody else starts to carry anything out. `LegalMoves` and
`TimesMatchStatus` follow directly. `OneFinisher` is inductive given `StepKinds`:
the step that makes a finisher leaves a status that is not terminal, where no
finisher exists. `MessageTellsOutcome` follows because a finisher's status is the
row's and a call that is over keeps its row (`OverIsOver`);
`AnnouncedOutcomeIsReal` needs the same for a process that has only its event
left to publish (`Carried`). `OneOutcomeAlways` is their conjunction, the
invariant the run checks. `RingingStops` speaks of moments when nobody works on the call;
`SomebodyStopsIt` says what holds in between: a call that is over rings only while a
finisher is still before its `Notify`.

`ConversationsProofs` holds for every set of users, handlers, sockets and cards, from
`RoleAssumption` (the session's user and the managers are users). `PrivateStaysPrivate` needs what
a handler has behind it at each step (`Holds`: a direct conversation is opened
only past the check of the contact, a guide only where the session has none), that the
advisory lock leaves one handler at the session's rows (`OneSession`), and
that there is one live card, which an answer never revives (`OneLive`); `PrivInv` joins them with
`PrivateRows`. `ManagersDecide` follows from `MemberChange` and `OutsideWrites`, which sort the writes
of a membership by handlers and by other modules, and from `Holds`. `OnlyMembersHear` needs to follow those on the way:
who has passed the check to join a room (`JoinersAreMembers`), and whom a
broadcast has on its list though it may have left since (`ListsAreMembers`).

Its second part is about `Departments`: every set of departments, channels and editors, from
`DeptAssumption` (the top is not a department). `TreeIsWhole` is not
inductive, because a deletion moves what it saw: `KidsKnown` and `ChannelsKnown` say
that a deletion past its statement has in hand every child and channel that is
under its department apart from those put there since, and those are in `bent` or
`strays` by the time it commits; `FreshFits` says that a request whose check
has not been overtaken would put its department where it fits. `DeptInv` is
the conjunction with the types. `NoCircle` is stated over sets closed under `parent`
rather than by a path, so no recursion is needed: if a write closes a circle of departments
not in `bent`, its check was fresh, and the set of ancestors that
`CanSetParent` walked contradicts the circle.

`WorkspaceProofs` has six parts. The first, about `WebhookDeliveries`, holds for every set of rows, webhooks and workers, every
batch size, retry limit and number of faults, from `RowAssumption` and
`BoundAssumption`. The argument is the outbox's with two differences. A test's request
marks a row it never claimed, so what is said of batches (`Leased`,
`Exclusive`) is said of the rows of events, and `HeldRecorded` says that a test's
request holds its own row only. And `EveryRequestCounted` counts: `InFlight(d)` are
the agents between request and mark, and each step that changes how many they are
changes `requests` or `attempts` with it or is a fault (from the
library's facts about cardinality). `RowMove` sorts every step by what it
does to a row; `OutcomeIsFinal` and `SuccessWasAccepted` follow from it.

The second is about `Tenancy`: every set of requests, domains and workspaces, any finite
sets of installations and webhooks (`FiniteAssumption`: a count must be a number) and every quota,
from `ZoneBounds`. `ZoneConsistent` is not
inductive alone. `ZoneInv` adds what a request has in hand (`HandsFit`) and how a zone begins
(`Started`): before it is claimed nothing is under way, before it is provisioned
nothing but that, with one domain, so the primary domain is the one provisioned; and the primary
workspace keeps its slug. `ArchivedIsDark` is where the order of statements matters: a
verification that was admitted before the zone was archived is stopped by `Activatable`, which
reads the zone again, and archiving suspends every domain. For `HooksFollow`, a
webhook switched on after the zone was stopped is put in `late` by the step that does it.
`QuotaHolds` follows from the trigger alone: `Counted` is the size of two disjoint sets (`Members`,
`Installed`, `PlainHooks`, `RuntimeHooks`), each step is shown to add at most one element to them, and
only behind `TriggerAllows`, with the quota as it then is. What the request has counted before is not used.

The third and fourth are about `Permits` and `Integrations`, which move side by side
(`WorkspacesSpec`): every set of people, workspaces, codes of roles, tickets, tokens, webhooks
and programs, from `SystemAssumption` (the system's roles are roles), `AskAssumption` (what
the handlers let a request name) and `ProgramAssumption` (a token is not a webhook).
`RolesStayHome` needs `GrantsRemembered`: whoever could give a role when a request was checked is
remembered, so a role given by somebody who has lost the right meanwhile was still given by
one who had it. `ViewsAgree`, that the two queries for a permission give one answer, follows
from the types and `RolesStayHome`. `PostsWereAllowed` needs `RunsFit`: a program that
began with a credential spent already finds nothing and does not come to post.

The fifth is about `Presence`, from `BeatAssumption`: a socket is on one row (`SocketsAreOwn`), and
a row that has not fallen silent shows what its socket said last (`SaysLast`). A late
goodbye names a socket, and changes nothing once the row has another. The sixth, about `Notices`, from
`NoticeAssumption`, is inductive given the types: a row of a message is written with the settings its
reader had, and later changes leave it alone. `WorkspacesStaySound` joins these four.
`CheckedIsProved` closes the gap to the run: each behaviour of `MCTenancy`'s
specification, in which one part moves, is a behaviour of all the specifications these theorems are about.

`DeviceProofs` has four parts. The first, about `Sessions`, holds for every number of
requests and sessions and rests on `BoundAssumption`. `RevocationIsFinal` follows from what the statements may do to a
row (`SessionMoves`). `LoggedOutStaysOut` needs to know that a token belongs to one
session (`TokensAreUnique`), that the row which a log-out has found is still there and
has its token unless a rotation came between (`RowsAreKept`), and that what was
ended is revoked (`QuitIsRevoked`). `GrantsWereAllowed` needs the checks a
request has behind it at each step (`ChecksWereMade`).

The second is about `MobileSync`: every set of overlapping catch-ups and every number
of events, page size, pages and faults, from `SyncAssumption`. `OnlyLateEventsAreSkipped`
says nothing of `base`, from which a page is read, nor that a cursor is at an
event that was visible once; `Sound` adds both, and what is before such a cursor
stays received when events commit, are deleted, or a stale cursor is written. Two lemmas
about pages do the rest, both by cardinalities: the oldest events of a set have with
them whatever is older (`OldestIsClosed`), so the last of a page is a sound cursor;
and a page that `LIMIT + 1` does not lengthen is everything there was
(`OldestIsAll`), from which `LastPageCompletes` follows.

The third is about `MobileOutbox`: every set of texts, files and visits, from
`OutboxAssumption`. `KeptUntilSent` needs what each visit has in hand: a retry
removes an item only when its message and its file have arrived (`RetryInHand`), and a list
that was read, awaited and written back changes one item, or others that
then are in `overwritten` (`WriteKeeps`). The fourth is about `ChatRoom`: every set of messages,
newest ones and sockets, and every number of versions, changes and faults, from
`RoomAssumption`. `RoomIsTrue` speaks only of what is not on its way; `ToldAll` is what makes
it inductive: the last change of every message is on its way to the room, or has
come by and was applied, dropped or lost (`heard`). `Tells` and `EntryOK` say that an event, a
page or an entry never is of a version the server has not written, and is right if it is
of the last one. So an entry that is shown at the last version is right, whoever put it there.

`JobsProofs` treats the two kinds of jobs, for every set of jobs, workers, requests
and devices, from `JobBounds`, `NamesAssumption` and `PushBounds`. For scheduled jobs
`LocksAreHeld` says that a job in a worker's hands is locked by it and
its lock is fresh, unless the job is in `unlocked`; two holders of one job then are one.
`ScheduleFollowsStatus` is inductive given the types. For push jobs, `AttemptsAreAhead`
counts: a device still to be asked has had fewer pushes than the job has
attempts, and the devices that accepted with those still to be asked are the
ones the attempt began with. A push job has no lease, so `OneSender` rests
on `PendingIsNew` and on a claim passing over what is 'processing'.

`MessagingProofs` holds for every set of requests, users, channels and client ids
and every number of messages, edits and moves, from the assumption on the bounds.
`RowsOK` joins `SearchMatchesMessages` and `EventsTellTheRows`, which are inductive with
one more fact: a row not yet written has never been edited (`FreshRows`).
They need nothing of what requests have read, because update and deletion lock
the row and look at it again; the proof is where one sees that. `Ready` says what a
request has in hand at each step. `ChargesOK` says that a message whose key has not been
seen was not charged, which bounds the charges by the API's promise alone.

Its other parts are about `Files` (every set of handlers, files and keys, from
`FileAssumption`: the keys are finitely many) and `Bots` (every set of handlers, flows
and channels, from `FlowAssumption`: the flows are finitely many). For files
`HandsOfFiles` carries the weight. Keys in hand are each request's own (`OwnKeys`); of the
requests that insert the same number of a file, one at most is past its INSERT
(`OneInserts`); and a request that has read its number has the predecessor's row behind it, so
numbers have no gap and the newest version is the last written. `Owned` sharpens `ObjectsHaveOwners`
to the requests that still can give an object its row or take it away: the property
alone is not inductive, because a download also has a key in hand. What an
undo removes belongs to files in `spoiled` only. For flows, a request
that comes to its commit has archived whatever else is published (`InHandOfBot`), and one at most
is there (`OneCommits`, from `MustWait`, what the partial unique index makes of the
second). Versions stay below the number of flows, so `MAX(version) + 1` is
typed; `GreatestOf` gives that of `Max`, from the library's well-founded order.

`AccessProofs` holds for every set of people, requests and authorizations, every
kind of zone and number of changes, from `KindAssumption` and `ChangesAssumption`.
An authorization is in the hands of one request (`OneRequestEach`), at the stage that
request has brought it to (`Authorized`), and gives no session before it is
redeemed (`NotBefore`): hence one session each. That a member has a role needs
more than the property says, because a membership that was left or disabled may become
active again: `MembersHaveRoles` is about whoever ever had one, counts the roles that were
taken (`revoked`), and is kept because whoever gets in without any is given the member's (`Baseline`). `JoinsWereOffered` needs
`Known`: a request that has read the zone as open ran while it was.

Model-checked only: the liveness properties (`Drains`, `ActiveHookDrains`, `RingingEnds`,
`MessageFollows`, `JobsSettle`, `RoomSettles`) and the fairness half of `ImplementsQueue`, because ENABLED is
beyond the prover, and the counterexample of section 5. Every invariant and every
action property a run checks is a theorem.

## 5. Findings

`bot` is a run that ends in a counterexample: events of bot, webhook and order
messages carry `sender_id: ""`, which the notifications query casts to uuid. They
fail in the first consumer and die, so neither webhooks nor the broker ever get
them, against `src/backend/docs/integrations-phase-8.md:66`.

What else differs from what a document says, or surprises. The models contain this
behaviour; where a property would fail because of it, the history variable or
premise that excuses it is named.

* A webhook bound to a channel receives nothing: the filter reads `channel_id`
  one level above where the body has it (`modules/webhooks` repository:403;
  `docs/planning/domain-zone-nextcloud-talk-plan.md:195`). `Subscribed`.
* A stop between a notification and its push job loses the push
  (`modules/notifications` repository:168; `backend/docs/notifications-worker-presence.md:23-25`).
  The premise of `CleanPassLosesNothing`.
* A push job whose worker stops, or whose batch is dropped after a failing mark, stays
  'processing' for ever (`Abandoned`). One invalid token makes every attempt fail, and
  the tokens before it are pushed to again.
* The service accepts a call signal of type 'ready' that the table refuses
  (`service_test.go:248-262` of `modules/calls` against migration 20).
* The worker's calls service is made without a publisher (`bootstrap/worker.go:104`):
  a call the sweeper ends is not announced over sockets.
* A sync cursor may pass an event that commits late (`late`); a cursor whose event was
  deleted gets empty pages for ever (premise of `LastPageCompletes`).
* A job that runs past its lock, that is edited, or is run by hand beside the
  worker runs twice (`unlocked`), and writes the schedule it copied over an edit
  (`overtaken`). A leap-day schedule may have no next run.
  `cleanup_failed_uploads` matches no row.
* Two overlapping sends of one client id may both be taken for the first, because `Send`
  tells them apart by two clocks: sockets and order bot are served twice, against
  `docs/planning/desktop-phase-d9-completion.md:35`. Rows, events and charges are
  still single (`SendsAreIdempotent`).
* A zone that is suspended while a webhook's update is in flight keeps that webhook
  switched on (`late` of `Tenancy`; domain-zone plan, line 196). Archiving the primary
  workspace lets a later verification provision the archived zone anew (`HasHome`);
  a self-hosted start does the same for its zone.
* Opening a direct conversation reactivates a participant who was disabled in the workspace
  (`modules/channels` repository:495). Adding somebody to the workspace who is in it already
  makes him active in every public channel he was removed from or muted in (`modules/workspaces`
  repository:379, whose comment speaks of a newly added member). `ManagersDecide`.
* `RevokeWorkspaceRole` deletes any role of anybody (`modules/rbac` repository:183): an owner without
  the owner's role keeps his permissions through `owner_id`, and a member without a role is given
  'workspace_member' at his next log-in or refresh. `revoked`.
* A channel preference of 'mentions' is accepted (`modules/notifications` service:357), stored and shown
  (repository:471), but the recipients' query knows only 'muted' for a channel (repository:97-102): who
  is shown "mentions only" is told of every message, against
  `docs/planning/mobile-contract-gap.md:212`. `ChannelMentionsUnheeded`.
* Two moves of departments at once may make a circle (`bent`), and a channel may be filed
  under any id (`strays`).
* In the app: a list read before another's write is written back over it
  (`overwritten`); an item stored as 'sending' when the app dies is never retried
  (`interrupted`; `docs/planning/mobile-contract-gap.md:296` says it is kept until
  sent); a text the server refuses stays in the outbox for ever; a quick pause and
  resume leaves two sockets; a finished send clears what was typed meanwhile.

## 6. Not modelled, and the plan

`PROJECT.json` says for every component what is left out of it. In short:
permission checks outside `Permits` and `Integrations` (they enter as sets of
users), validation, formatting, cryptography, e-mail codes and password reset,
listing and searching, admin, audit, members of departments, feature flags and
usage reports, creation and test calls of bots, heartbeats and the Redis fan-out
of the hub, drafts, threads, reactions, pins, search, recording and the upload queue
of the mobile room (there also a reconnect that finds no token and ends the connection for good,
and `focusMessage`, which puts a search result, however old, among the messages), the rest of the mobile app, the web frontend, deployment. Most of
this is one statement per request or pure I/O, where interleaving decides nothing.

Done: models of every part above, and proofs of the safety properties of all of them.
What could come next is modelling: the upload queue of the mobile room, heartbeats and the Redis
fan-out of the hub.
