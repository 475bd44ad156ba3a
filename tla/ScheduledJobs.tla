--------------------------- MODULE ScheduledJobs ---------------------------
(***************************************************************************)
(* Cron jobs and backup jobs: rows with a schedule, a lock and a next run, *)
(* claimed in batches by workers, run one after the other, and run at once *)
(* on request.  The two tables are handled by the same code twice; they    *)
(* differ in that only cron jobs are edited and deleted and only backups   *)
(* may have no schedule.  'table' says which of the two a behaviour is     *)
(* about.                                                                  *)
(*                                                                         *)
(* What a run does is I/O (an HTTP call, a script, a clean-up, pg_dump):   *)
(* here it takes any time and succeeds or fails.  Times are kept as far as *)
(* conditions ask for them: a next run is in the future or due, a lock is  *)
(* younger than its time to live or not.  Rows of runs are written and     *)
(* never read again by this code: only the run an actor has open is kept.  *)
(***************************************************************************)
EXTENDS Naturals, FiniteSets

CONSTANTS
    Jobs,       \* the ids of jobs
    Workers,    \* worker processes
    Requests,   \* requests to run a job now
    Limit,      \* the batch size of a claim
    MaxFaults,  \* bound on failing statements and stopping workers
    MaxEdits,   \* bound on edits and deletions
    MaxRunNow,  \* bound on requests to run a job now
    NoJob, Gone, NoCopy, NoActor

ASSUME JobBounds == Limit \in Nat \ {0} /\ MaxFaults \in Nat /\ MaxEdits \in Nat /\ MaxRunNow \in Nat

VARIABLES
    table,      \* "cron" or "backup"
    job,        \* id -> row of cron_jobs or backup_jobs
    hand,       \* actor -> the copies it claimed and the one it runs
    faults,
    edits,
    runNows,
    overtaken,  \* history: jobs last written from a copy that was edited since
    unlocked    \* history: jobs whose lock was lost while a worker had them

vars == <<table, job, hand, faults, edits, runNows, overtaken, unlocked>>

Actors == Workers \cup Requests
Statuses == {"active", "paused"}                 \* 'disabled' acts as 'paused'
Schedules == {"regular", "leap", "none"}         \* "leap" may have no run within 366 days
Rows == [status : Statuses, schedule : Schedules, next : {"none", "later", "due"},
         lock : Actors \cup {NoActor}, fresh : BOOLEAN]
Copies == [id : Jobs, status : Statuses, schedule : Schedules]
Idle == [batch |-> {}, run |-> NoCopy]

ASSUME NamesAssumption == /\ Workers \cap Requests = {} /\ NoActor \notin Actors
                          /\ NoCopy \notin Copies /\ NoJob \notin Rows /\ Gone \notin Rows

Exists(j) == job[j] \notin {NoJob, Gone}
CopyOf(j) == [id |-> j, status |-> job[j].status, schedule |-> job[j].schedule]

(* Jobs in the hands of an actor, and the workers that have one in hand.   *)
InHand(h) == {c.id : c \in h.batch \cup ({h.run} \ {NoCopy})}
Holders(j) == {w \in Workers : j \in InHand(hand[w])}

TableInit ==
    /\ table \in {"cron", "backup"}
    /\ hand = [a \in Actors |-> Idle]
    /\ faults = 0
    /\ edits = 0
    /\ overtaken = {}
    /\ unlocked = {}

Init == TableInit /\ job = [j \in Jobs |-> NoJob] /\ runNows = 0


Fault == faults < MaxFaults /\ faults' = faults + 1

(* The history of locks: a lock that is lost while a worker has the job    *)
(* counts until no worker has it.                                          *)
LockLost(lost) ==
    unlocked' = {j \in unlocked \cup lost : \E w \in Workers : j \in InHand(hand'[w])}

---------------------------------------------------------------------------
(* Schedules: the next run is in the future; for some dates none is found. *)
NextRun(schedule) ==
    CASE schedule = "regular" -> {"later"}
      [] schedule = "leap"    -> {"later", "none"}
      [] OTHER                -> {"none"}

(* Mutant: the status of the job is not looked at.                         *)
NextForAny(status, schedule) == NextRun(schedule)

(* What is written as next run: only an active job gets one.               *)
NextFor(status, schedule) == IF status = "active" THEN NextRun(schedule) ELSE {"none"}

(* Create and Update refuse a schedule without a next run.  A backup may   *)
(* have no schedule at all.                                                *)
Saved(status, schedule) ==
    [status |-> status, schedule |-> schedule,
     next |-> IF status = "active" /\ schedule # "none" THEN "later" ELSE "none",
     lock |-> NoActor, fresh |-> FALSE]

MaySave(schedule) == schedule = "none" => table = "backup"

Create(j) ==
    /\ job[j] = NoJob                                      \* ids are not used again
    /\ \E status \in Statuses, schedule \in Schedules :
          /\ MaySave(schedule)
          /\ job' = [job EXCEPT ![j] = Saved(status, schedule)]
    /\ UNCHANGED <<edits, runNows, table, hand, faults, overtaken, unlocked>>

(* Only cron jobs are edited and deleted.                                  *)
Edited(j) ==
    /\ table = "cron" /\ Exists(j)
    /\ edits < MaxEdits /\ edits' = edits + 1

(* An administrator edits a cron job: its lock goes with the old row.      *)
Update(j) ==
    /\ Edited(j)
    /\ \E status \in Statuses, schedule \in Schedules \ {"none"} :
          job' = [job EXCEPT ![j] = Saved(status, schedule)]
    /\ overtaken' = overtaken \ {j}
    /\ UNCHANGED <<runNows, table, hand, faults>>
    /\ LockLost({j})

(* Runs of a deleted cron job are deleted with it.                         *)
Delete(j) ==
    /\ Edited(j)
    /\ job' = [job EXCEPT ![j] = Gone]
    /\ overtaken' = overtaken \ {j}
    /\ UNCHANGED <<runNows, table, hand, faults>>
    /\ LockLost({j})

---------------------------------------------------------------------------
(* Mutant: a lock never grows old.                                         *)
UnlockedOnlyByRelease(j) == job[j].lock = NoActor

(* Mutant: locks are not looked at.                                        *)
UnlockedAlways(j) == TRUE

(* Claims. *)
Unlocked(j) == job[j].lock = NoActor \/ ~job[j].fresh

Due(j) == Exists(j) /\ job[j].status = "active" /\ job[j].next = "due"

Claimable == {j \in Jobs : Due(j) /\ Unlocked(j)}

Locked(picked, w) ==
    [j \in Jobs |-> IF j \in picked THEN [job[j] EXCEPT !.lock = w, !.fresh = TRUE] ELSE job[j]]

(* One statement locks a batch; jobs beyond the limit wait for a later     *)
(* tick.  A lock is taken over from a worker that may still be running.    *)
ClaimDue(w) ==
    /\ hand[w] = Idle
    /\ \E picked \in SUBSET Claimable :
          /\ picked # {}
          /\ Cardinality(picked) = Limit \/ picked = Claimable
          /\ Cardinality(picked) <= Limit
          /\ job' = Locked(picked, w)
          /\ hand' = [hand EXCEPT ![w].batch = {CopyOf(j) : j \in picked}]
    /\ UNCHANGED <<edits, runNows, table, faults, overtaken, unlocked>>

(* A request to run a job now takes the row as it is, locked or not.       *)
RunNow(q) ==
    /\ hand[q] = Idle
    /\ runNows < MaxRunNow /\ runNows' = runNows + 1
    /\ \E j \in Jobs :
          /\ Exists(j)
          /\ hand' = [hand EXCEPT ![q].batch = {CopyOf(j)}]
    /\ UNCHANGED <<edits, table, job, faults, overtaken, unlocked>>

(* The process that runs the job stops, or an error ends its loop.         *)
Abandon(a) ==
    /\ hand' = [hand EXCEPT ![a] = Idle]
    /\ UNCHANGED <<table, job, overtaken>>
    /\ LockLost({})

(* The run row is inserted.  A deleted job has none: the insert fails and  *)
(* the rest of the batch is dropped with it.                               *)
StartRun(a) ==
    /\ hand[a].run = NoCopy
    /\ \E c \in hand[a].batch :
          IF Exists(c.id)
          THEN /\ hand' = [hand EXCEPT ![a] = [batch |-> @.batch \ {c}, run |-> c]]
               /\ UNCHANGED <<table, job, overtaken, unlocked>>
          ELSE Abandon(a)
    /\ UNCHANGED <<faults, edits, runNows>>

Rescheduled(j, next) ==
    IF Exists(j)
    THEN [job EXCEPT ![j].next = next, ![j].lock = NoActor, ![j].fresh = FALSE]
    ELSE job

(* Started and executed, the run is closed and the job re-scheduled from   *)
(* the copy, in one transaction, whatever the row has become and whoever   *)
(* holds its lock now.                                                     *)
FinishRun(a) ==
    LET c == hand[a].run IN
    /\ c # NoCopy
    /\ hand' = [hand EXCEPT ![a].run = NoCopy]
    /\ \E next \in NextFor(c.status, c.schedule) : job' = Rescheduled(c.id, next)
    /\ overtaken' = IF Exists(c.id) /\ c # CopyOf(c.id)
                    THEN overtaken \cup {c.id} ELSE overtaken \ {c.id}
    /\ UNCHANGED <<edits, runNows, table, faults>>
    /\ LockLost({c.id})

(* Faults: the insert or the closing transaction fails, or a worker stops. *)
StatementFails(a) == hand[a] # Idle /\ Fault /\ Abandon(a) /\ UNCHANGED <<edits, runNows>>

---------------------------------------------------------------------------
(* Time. *)
BecomesDue(j) ==
    /\ Exists(j) /\ job[j].next = "later"
    /\ job' = [job EXCEPT ![j].next = "due"]
    /\ UNCHANGED <<edits, runNows, table, hand, faults, overtaken, unlocked>>

(* Five minutes for a cron job, whose script may take ten; fifteen for a   *)
(* backup, ten minutes each, of which a batch holds several.               *)
LockExpires(j) ==
    /\ Exists(j) /\ job[j].lock # NoActor /\ job[j].fresh
    /\ job' = [job EXCEPT ![j].fresh = FALSE]
    /\ UNCHANGED <<edits, runNows, table, hand, faults, overtaken>>
    /\ LockLost({j})

ActorStep(a) == StartRun(a) \/ FinishRun(a)

Next ==
    \/ \E j \in Jobs : \/ Create(j) \/ Update(j) \/ Delete(j)
                       \/ BecomesDue(j) \/ LockExpires(j)
    \/ \E w \in Workers : ClaimDue(w)
    \/ \E q \in Requests : RunNow(q)
    \/ \E a \in Actors : ActorStep(a) \/ StatementFails(a)

(* Worker loops go on, each tick claims again, and time passes.            *)
Fairness ==
    /\ \A w \in Workers : WF_vars(ClaimDue(w)) /\ WF_vars(ActorStep(w))
    /\ \A j \in Jobs : WF_vars(LockExpires(j))

Spec == Init /\ [][Next]_vars /\ Fairness

---------------------------------------------------------------------------
TypeOK ==
    /\ table \in {"cron", "backup"}
    /\ job \in [Jobs -> Rows \cup {NoJob, Gone}]
    /\ hand \in [Actors -> [batch : SUBSET Copies, run : Copies \cup {NoCopy}]]
    /\ faults \in 0..MaxFaults
    /\ edits \in 0..MaxEdits
    /\ runNows \in 0..MaxRunNow
    /\ overtaken \in SUBSET Jobs
    /\ unlocked \in SUBSET Jobs

(* Two workers run one job at once only after its lock was lost to time,   *)
(* to an edit or to the end of another run: batches, retries and stops of  *)
(* workers never do it.                                                    *)
LocksExclude == \A j \in Jobs \ unlocked : Cardinality(Holders(j)) <= 1

(* A job is scheduled when it is active and only then, unless a run that   *)
(* was claimed before the last edit has written the old schedule over it.  *)
ScheduleFollowsStatus ==
    \A j \in Jobs \ overtaken : Exists(j) =>
        /\ job[j].next # "none" => job[j].status = "active" /\ job[j].schedule # "none"
        /\ job[j].status = "active" /\ job[j].schedule = "regular" => job[j].next # "none"

(* What holds of scheduled jobs: their types, the locks, the schedule.     *)
ScheduleIsKept == TypeOK /\ LocksExclude /\ ScheduleFollowsStatus

(* A job that is due does not stay due: stopped workers, failed statements *)
(* and batches that were dropped delay it until its lock is old, no more.  *)
DueJobsRun == \A j \in Jobs : Due(j) ~> ~Due(j)
============================================================================
