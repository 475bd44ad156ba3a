------------------------------- MODULE MCJobs -------------------------------
(***************************************************************************)
(* Model-checking instance for the jobs of a worker: scheduled jobs and    *)
(* push jobs.  They share no rows and run in loops of their own, so the    *)
(* instance checks them side by side: a behaviour is one of a part, and    *)
(* the other stays as it starts.  Scheduled jobs are checked twice: two of *)
(* them in batches, and one with a request to run it now.                  *)
(***************************************************************************)
EXTENDS ScheduledJobs, PushJobs

VARIABLE part

MCVars == <<vars, pushVars, part>>

MCInit ==
    /\ part \in {"batch", "request", "push"}
    /\ TableInit
    /\ runNows \in {0, MaxRunNow}
    /\ job \in [Jobs -> {NoJob, Gone}]
    /\ PushInit
    /\ part = "batch" => runNows = MaxRunNow /\ job = [j \in Jobs |-> NoJob]
    /\ part = "request" => runNows = 0 /\ Cardinality({j \in Jobs : job[j] = NoJob}) = 1
    /\ part = "push" => runNows = 0 /\ job = [j \in Jobs |-> Gone]
    /\ part # "push" => device = [d \in Devices |-> "unknown"]
    /\ part = "push" => table = "cron"

MCNext ==
    \/ part # "push" /\ Next /\ UNCHANGED <<pushVars, part>>
    \/ part = "push" /\ PushNext /\ UNCHANGED <<vars, part>>

(* The fairness of both, that of push jobs where they run.                 *)
PushRuns(A) == part = "push" /\ A

MCFairness ==
    /\ Fairness
    /\ \A w \in PushWorkers : WF_pushVars(PushRuns(ProcessPendingJobs(w))) /\ WF_pushVars(PushRuns(WorkerStep(w)))
    /\ \A j \in PushIds : WF_pushVars(PushRuns(RetryDue(j)))

MCSpec == MCInit /\ [][MCNext]_MCVars /\ MCFairness

(* Due jobs run, and push jobs settle.                                     *)
JobsSettle ==
    /\ DueJobsRun
    /\ \A j \in PushIds : <>(part = "push" => pushJob[j].status \in {"sent", "dead"} \/ Abandoned(j))
============================================================================
