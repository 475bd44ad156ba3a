------------------------------ MODULE PushJobs ------------------------------
(***************************************************************************)
(* The delivery of push jobs to the devices of one user.  A tick claims a  *)
(* batch, sends each job to all tokens the user has at that moment, one    *)
(* after the other, and marks the job.  There is no lease: a job is        *)
(* claimed when it is pending or its retry is due, never because it has    *)
(* been 'processing' for long.  Devices come, go and lose their permission *)
(* meanwhile.  The push service is external: a request is accepted or not. *)
(***************************************************************************)
EXTENDS Naturals, FiniteSets

CONSTANTS
    PushIds,        \* ids of push jobs, created by the notification handlers
    PushWorkers,    \* worker processes
    Devices,        \* the user's devices
    MaxAttempts,    \* attempts before a job is dead (5 in the code)
    MaxPushFaults,  \* bound on failing marks and stopping workers
    MaxChanges,     \* bound on changes of devices
    NoPush

ASSUME PushBounds == NoPush \notin PushIds /\ MaxAttempts \in Nat \ {0} /\ MaxPushFaults \in Nat /\ MaxChanges \in Nat

VARIABLES
    pushJob,    \* id -> row of notification_jobs
    sender,     \* worker -> its batch, the job it sends and the tokens left
    device,     \* device -> row of push_devices
    pushFaults,
    changes,
    asked,      \* history: the tokens read by a job's last attempt
    accepted,   \* history: those of them the push service accepted
    received    \* history: how often a device got the push of a job

pushVars == <<pushJob, sender, device, pushFaults, changes, asked, accepted, received>>

Waiting == [batch |-> {}, now |-> NoPush, tokens |-> {}]
PushStatuses == {"pending", "processing", "sent", "failed", "dead"}

InBatch(w) == sender[w].batch \cup ({sender[w].now} \ {NoPush})

PushInit ==
    /\ pushJob = [j \in PushIds |-> [status |-> "pending", attempts |-> 0, due |-> TRUE]]
    /\ sender = [w \in PushWorkers |-> Waiting]
    /\ device \in [Devices -> {"unknown", "active"}]
    /\ pushFaults = 0
    /\ changes = 0
    /\ asked = [j \in PushIds |-> {}]
    /\ accepted = [j \in PushIds |-> {}]
    /\ received = [j \in PushIds |-> [d \in Devices |-> 0]]

PushFault == pushFaults < MaxPushFaults /\ pushFaults' = pushFaults + 1

---------------------------------------------------------------------------
(* Devices. 'active' stands for an active row with a token and permission, *)
(* 'silent' for an active row that lacks one of them.                      *)
RegisterOrUpdate(d) ==
    /\ \E row \in {"active", "silent"} : row # device[d] /\ device' = [device EXCEPT ![d] = row]

Remove(d) ==
    /\ device[d] \notin {"unknown", "revoked"}
    /\ device' = [device EXCEPT ![d] = "revoked"]

DeviceChanges ==
    /\ changes < MaxChanges /\ changes' = changes + 1
    /\ \E d \in Devices : RegisterOrUpdate(d) \/ Remove(d)
    /\ UNCHANGED <<pushJob, sender, pushFaults, asked, accepted, received>>

---------------------------------------------------------------------------
(* Mutant: a failed job is not claimed again.                              *)
SendableOnce(j) == pushJob[j].status = "pending"

(* Mutant: a job in the hands of a worker is claimed too.                  *)
SendableTwice(j) == pushJob[j].status \in {"pending", "failed", "processing"}

(* The worker. *)
Sendable(j) == \/ pushJob[j].status = "pending"
               \/ pushJob[j].status = "failed" /\ pushJob[j].due

ProcessPendingJobs(w) ==
    /\ sender[w] = Waiting
    /\ \E picked \in SUBSET {j \in PushIds : Sendable(j)} :
          /\ picked # {}
          /\ pushJob' = [j \in PushIds |-> IF j \in picked
                 THEN [status |-> "processing", attempts |-> pushJob[j].attempts + 1, due |-> FALSE]
                 ELSE pushJob[j]]
          /\ sender' = [sender EXCEPT ![w].batch = picked]
    /\ UNCHANGED <<device, pushFaults, changes, asked, accepted, received>>

(* The tokens are read once per attempt.                                   *)
ReadTokens(w) ==
    LET tokens == {d \in Devices : device[d] = "active"} IN
    /\ sender[w].now = NoPush
    /\ \E j \in sender[w].batch :
          /\ sender' = [sender EXCEPT ![w] = [batch |-> @.batch \ {j}, now |-> j, tokens |-> tokens]]
          /\ asked' = [asked EXCEPT ![j] = tokens]
          /\ accepted' = [accepted EXCEPT ![j] = {}]
    /\ UNCHANGED <<pushJob, device, pushFaults, changes, received>>

Send(w) ==
    \E d \in sender[w].tokens :
        /\ sender' = [sender EXCEPT ![w].tokens = @ \ {d}]
        /\ accepted' = [accepted EXCEPT ![sender[w].now] = @ \cup {d}]
        /\ received' = [received EXCEPT ![sender[w].now][d] = @ + 1]
        /\ UNCHANGED <<pushJob, device, pushFaults, changes, asked>>

Done(w) == [sender EXCEPT ![w].now = NoPush, ![w].tokens = {}]

MarkSent(j) == [pushJob EXCEPT ![j].status = "sent"]

(* Mutant: one attempt more before a job is dead.                          *)
MarkFailedLate(j) == [pushJob EXCEPT ![j].status = IF pushJob[j].attempts > MaxAttempts THEN "dead" ELSE "failed"]

MarkFailed(j) == [pushJob EXCEPT ![j].status = IF pushJob[j].attempts >= MaxAttempts THEN "dead" ELSE "failed"]

(* Every token has been accepted, or there was none.                       *)
Delivered(w) ==
    /\ sender[w].now # NoPush /\ sender[w].tokens = {}
    /\ pushJob' = MarkSent(sender[w].now)
    /\ sender' = Done(w)
    /\ UNCHANGED <<device, pushFaults, changes, asked, accepted, received>>

(* Mutant: a refused token is passed over and the job marked as sent.      *)
RefusedSilently(w) ==
    /\ sender[w].now # NoPush /\ sender[w].tokens # {}
    /\ pushJob' = MarkSent(sender[w].now)
    /\ sender' = Done(w)
    /\ UNCHANGED <<device, pushFaults, changes, asked, accepted, received>>

(* The first error ends the attempt; the tokens before it have had theirs, *)
(* and so may this one, when only the answer was lost.                     *)
Refused(w) ==
    /\ sender[w].now # NoPush
    /\ \E d \in sender[w].tokens, n \in {0, 1} :
          received' = [received EXCEPT ![sender[w].now][d] = @ + n]
    /\ pushJob' = MarkFailed(sender[w].now)
    /\ sender' = Done(w)
    /\ UNCHANGED <<device, pushFaults, changes, asked, accepted>>

RetryDue(j) ==
    /\ pushJob[j].status = "failed" /\ ~pushJob[j].due
    /\ pushJob' = [pushJob EXCEPT ![j].due = TRUE]
    /\ UNCHANGED <<sender, device, pushFaults, changes, asked, accepted, received>>

(* A mark that fails: after a refusal the error is ignored, after a        *)
(* delivery the rest of the batch is dropped.  A stop drops everything.    *)
MarkLost(w) ==
    /\ sender[w].now # NoPush /\ PushFault
    /\ sender' = IF sender[w].tokens = {} THEN [sender EXCEPT ![w] = Waiting] ELSE Done(w)
    /\ UNCHANGED <<pushJob, device, changes, asked, accepted, received>>

WorkerStops(w) ==
    /\ sender[w] # Waiting /\ PushFault
    /\ sender' = [sender EXCEPT ![w] = Waiting]
    /\ UNCHANGED <<pushJob, device, changes, asked, accepted, received>>

WorkerStep(w) == ReadTokens(w) \/ Send(w) \/ Delivered(w) \/ Refused(w)

PushNext ==
    \/ DeviceChanges
    \/ \E j \in PushIds : RetryDue(j)
    \/ \E w \in PushWorkers : \/ ProcessPendingJobs(w) \/ WorkerStep(w)
                              \/ MarkLost(w) \/ WorkerStops(w)

PushFairness ==
    /\ \A w \in PushWorkers : WF_pushVars(ProcessPendingJobs(w)) /\ WF_pushVars(WorkerStep(w))
    /\ \A j \in PushIds : WF_pushVars(RetryDue(j))

PushSpec == PushInit /\ [][PushNext]_pushVars /\ PushFairness

---------------------------------------------------------------------------
PushTypeOK ==
    /\ pushJob \in [PushIds -> [status : PushStatuses, attempts : 0..MaxAttempts, due : BOOLEAN]]
    /\ sender \in [PushWorkers -> [batch : SUBSET PushIds, now : PushIds \cup {NoPush}, tokens : SUBSET Devices]]
    /\ device \in [Devices -> {"unknown", "active", "silent", "revoked"}]
    /\ pushFaults \in 0..MaxPushFaults /\ changes \in 0..MaxChanges
    /\ asked \in [PushIds -> SUBSET Devices] /\ accepted \in [PushIds -> SUBSET Devices]
    /\ received \in [PushIds -> [Devices -> 0..MaxAttempts]]

(* 'sent' means that every token read by the last attempt was accepted; no *)
(* device gets a push more often than the job was attempted, and a job is  *)
(* given up exactly when its attempts are used up.                         *)
SentMeansAccepted ==
    \A j \in PushIds :
        /\ pushJob[j].status = "sent" => accepted[j] = asked[j]
        /\ \A d \in Devices : received[j][d] <= pushJob[j].attempts
        /\ pushJob[j].status = "dead" => pushJob[j].attempts = MaxAttempts
        /\ pushJob[j].status = "failed" => pushJob[j].attempts < MaxAttempts

(* No job is sent by two workers at once.                                  *)
OneSender ==
    \A v, w \in PushWorkers : v # w => InBatch(v) \cap InBatch(w) = {}

(* A job nobody has in hand: its worker stopped or its batch was dropped.  *)
Abandoned(j) == pushJob[j].status = "processing" /\ \A w \in PushWorkers : j \notin InBatch(w)

(* Only a fault abandons a job.                                            *)
OnlyFaultsAbandon == pushFaults = 0 => \A j \in PushIds : ~Abandoned(j)

(* What holds of push jobs: their types and what the marks promise.        *)
PushesAreCounted == PushTypeOK /\ SentMeansAccepted /\ OneSender /\ OnlyFaultsAbandon

(* Every push job is sent, given up or abandoned in the end.               *)
PushSettles == \A j \in PushIds : <>(pushJob[j].status \in {"sent", "dead"} \/ Abandoned(j))
============================================================================
