-------------------------------- MODULE Calls --------------------------------
(***************************************************************************)
(* One 1:1 call (modules/calls) and what it leaves behind: the row of      *)
(* call_sessions, the callee's rows of notifications with their push jobs, *)
(* the "call" message of the channel and the realtime events.              *)
(*                                                                         *)
(* Request handlers of the API, the ring timers of the API process and the *)
(* worker task "call_timeouts" all move the same row.  None of them holds  *)
(* a lock: a handler reads the row, decides, and updates it with the       *)
(* status it read as condition.  What follows the update (message,         *)
(* notification, push job, realtime event) is one statement after the      *)
(* other, every error is ignored, and a process may stop in between.       *)
(***************************************************************************)
EXTENDS Integers, FiniteSets

CONSTANTS
    Requests,      \* HTTP requests about the call, each handled once
    Timer,         \* the AfterFunc timers of the API process
    Sweeper,       \* the worker task call_timeouts
    FaultBudget    \* bound: stops of a process and failed statements

ASSUME ProcessAssumption == Timer # Sweeper /\ {Timer, Sweeper} \cap Requests = {}
ASSUME FaultAssumption == FaultBudget \in Nat

VARIABLES
    status,       \* call_sessions.status, "none" before the row exists
    started,      \* started_at is set
    ended,        \* ended_at is set
    rungOut,      \* the ring timeout has passed since created_at
    timers,       \* ring timers pending in the API process
    pc, op, seen, \* per process: next statement, action, the status it works on
    ringRows,     \* notification rows of the call that say "ringing"
    overRows,     \* notification rows of the call that say it is over
    ringJobs,     \* push jobs "incoming call"
    missedJobs,   \* push jobs "missed call"
    message,      \* the call message of the channel: none, completed, missed
    wire,         \* realtime events published
    refused,      \* signal types the database refused
    late,         \* history: an invitation was written for a call that was over
    faults

row       == <<status, started, ended>>
local     == <<pc, op, seen>>
inbox     == <<ringRows, overRows, ringJobs, missedJobs, late>>
vars      == <<row, rungOut, timers, local, inbox, message, wire, refused, faults>>

Procs    == Requests \cup {Timer, Sweeper}
Terminal == {"rejected", "cancelled", "ended", "missed"}
Actions  == {"accept", "reject", "cancel", "hangup", "miss"}

(* normalizeSignalType, and the CHECK of call_signals.signal_type.         *)
SignalTypes == {"offer", "answer", "ice_candidate", "ready"}
StoredTypes == {"offer", "answer", "ice_candidate", "ringing", "accepted",
                "rejected", "cancelled", "ended", "missed"}

(* nextStatusForAction: the status an action needs, the one it leads to    *)
(* and the event it announces.  The timeouts act as "miss".                *)
Needs(a)  == IF a = "hangup" THEN "accepted" ELSE "ringing"
LeadsTo(a) == CASE a = "accept" -> "accepted"
                [] a = "reject" -> "rejected"
                [] a = "cancel" -> "cancelled"
                [] a = "hangup" -> "ended"
                [] a = "miss"   -> "missed"
EventOf(a) == CASE a = "create" -> "CallInvited"
                [] a = "accept" -> "CallAccepted"
                [] a = "reject" -> "CallRejected"
                [] a = "cancel" -> "CallCancelled"
                [] a = "hangup" -> "CallEnded"
                [] a = "miss"   -> "CallMissed"
                [] OTHER        -> "CallSignal"

Statuses == {"none", "ringing", "accepted"} \cup Terminal
Steps    == {"idle", "invite", "ring", "ringJob", "schedule", "update", "message",
             "notify", "push", "publish", "store", "done"}

TypeOK ==
    /\ status \in Statuses /\ started \in BOOLEAN /\ ended \in BOOLEAN
    /\ rungOut \in BOOLEAN
    /\ timers \in Nat
    /\ pc \in [Procs -> Steps]
    /\ op \in [Procs -> {"none", "create"} \cup Actions \cup SignalTypes]
    /\ seen \in [Procs -> Statuses]
    /\ ringRows \in Nat /\ overRows \in Nat /\ ringJobs \in Nat /\ missedJobs \in Nat
    /\ message \in {"none", "completed", "missed"}
    /\ wire \subseteq {"CallInvited", "CallAccepted", "CallRejected", "CallCancelled",
                       "CallEnded", "CallMissed", "CallSignal"}
    /\ refused \subseteq SignalTypes
    /\ late \in BOOLEAN
    /\ faults \in 0..FaultBudget

Init ==
    /\ status = "none" /\ started = FALSE /\ ended = FALSE
    /\ rungOut = FALSE /\ timers = 0
    /\ pc = [p \in Procs |-> "idle"]
    /\ op = [p \in Procs |-> "none"]
    /\ seen = [p \in Procs |-> "none"]
    /\ ringRows = 0 /\ overRows = 0 /\ ringJobs = 0 /\ missedJobs = 0
    /\ message = "none" /\ wire = {} /\ refused = {}
    /\ late = FALSE /\ faults = 0

-----------------------------------------------------------------------------
(* Helpers.                                                                *)

Set(p, step, a, s) ==
    /\ pc' = [pc EXCEPT ![p] = step]
    /\ op' = [op EXCEPT ![p] = a]
    /\ seen' = [seen EXCEPT ![p] = s]

Begin(p, step, a, s) == pc[p] = "idle" /\ Set(p, step, a, s)

GoTo(p, step) == Set(p, step, op[p], seen[p])

(* A request is handled once; timer and sweeper can run again.             *)
Rest(p) == IF p \in Requests THEN "done" ELSE "idle"

Return(p) == Set(p, Rest(p), "none", "none")

(* Mutant: the CASE of ended_at forgets 'ended'.                            *)
MoveWithoutEnd(s) ==
    /\ status' = s
    /\ started' = (started \/ s = "accepted")
    /\ ended' = (ended \/ s \in Terminal \ {"ended"})

(* UPDATE call_sessions SET status = s, with started_at and ended_at.      *)
Move(s) ==
    /\ status' = s
    /\ started' = (started \/ s = "accepted")
    /\ ended' = (ended \/ s \in Terminal)

(* Mutant: isTerminalStatus without 'cancelled'.                            *)
AfterMoveForgets(s) == IF s \in Terminal \ {"cancelled"} THEN "message" ELSE "publish"

(* isTerminalStatus: what ChangeStatus does after the update.              *)
AfterMove(s) == IF s \in Terminal THEN "message" ELSE "publish"

(* Mutant: only a missed call is told apart.                               *)
OutcomeUnlessMissed(s) == IF s = "missed" THEN "missed" ELSE "completed"

(* The call_status createCallMessage derives.                              *)
OutcomeOf(s) == IF s = "ended" THEN "completed" ELSE "missed"

Fault == /\ faults < FaultBudget
         /\ faults' = faults + 1

-----------------------------------------------------------------------------
(* Service.Create.                                                         *)

(* INSERT ... ON CONFLICT (client_call_id) DO UPDATE: the first request    *)
(* makes the row, a repeated one gets it as it is by now.                  *)
Create(p) ==
    /\ p \in Requests
    /\ IF status = "none" THEN Move("ringing") ELSE UNCHANGED row
    /\ Begin(p, "publish", "create", status')
    /\ UNCHANGED <<rungOut, timers, inbox, message, wire, refused, faults>>

(* CreateIncomingCallNotification: the INSERT looks in its snapshot for a  *)
(* row that still carries the invitation's event_id ...                    *)
Invite(p) ==
    /\ pc[p] = "invite"
    /\ GoTo(p, IF ringRows = 0 THEN "ring" ELSE "schedule")
    /\ UNCHANGED <<row, rungOut, timers, inbox, message, wire, refused, faults>>

(* ... and the row commits, always saying "ringing".                       *)
Ring(p) ==
    /\ pc[p] = "ring"
    /\ ringRows' = ringRows + 1
    /\ late' = (late \/ status \in Terminal)
    /\ GoTo(p, "ringJob")
    /\ UNCHANGED <<row, rungOut, timers, overRows, ringJobs, missedJobs,
                   message, wire, refused, faults>>

RingJob(p) ==
    /\ pc[p] = "ringJob"
    /\ ringJobs' = ringJobs + 1
    /\ GoTo(p, "schedule")
    /\ UNCHANGED <<row, rungOut, timers, ringRows, overRows, missedJobs, late,
                   message, wire, refused, faults>>

(* scheduleRingTimeout arms a timer whatever the status of the call is.    *)
Schedule(p) ==
    /\ pc[p] = "schedule"
    /\ timers' = timers + 1
    /\ Return(p)
    /\ UNCHANGED <<row, rungOut, inbox, message, wire, refused, faults>>

-----------------------------------------------------------------------------
(* Service.ChangeStatus.                                                   *)

(* Get and nextStatusForAction; a refused action changes nothing.          *)
Decide(p, a) ==
    /\ p \in Requests
    /\ status = Needs(a)
    /\ Begin(p, "update", a, status)
    /\ UNCHANGED <<row, rungOut, timers, inbox, message, wire, refused, faults>>

(* Mutant: UPDATE ... WHERE id, without AND status = $5.                   *)
UpdateBlindly(p) ==
    /\ pc[p] = "update"
    /\ LET next == LeadsTo(op[p])
       IN  /\ Move(next)
           /\ Set(p, AfterMove(next), op[p], next)
    /\ UNCHANGED <<rungOut, timers, inbox, message, wire, refused, faults>>

(* UpdateStatus: the compare-and-set on the status that was read.          *)
Update(p) ==
    /\ pc[p] = "update"
    /\ IF status = seen[p]
       THEN LET next == LeadsTo(op[p])
            IN  /\ Move(next)
                /\ Set(p, AfterMove(next), op[p], next)
       ELSE UNCHANGED row /\ Return(p)
    /\ UNCHANGED <<rungOut, timers, inbox, message, wire, refused, faults>>

-----------------------------------------------------------------------------
(* The timeouts.                                                           *)

RingTimeoutPasses ==
    /\ status # "none" /\ ~rungOut
    /\ rungOut' = TRUE
    /\ UNCHANGED <<row, timers, local, inbox, message, wire, refused, faults>>

(* Mutant: the timer expires a call that is not over, answered or not.     *)
TimerFiresUnlessOver ==
    /\ rungOut /\ timers > 0 /\ pc[Timer] = "idle"
    /\ timers' = timers - 1
    /\ IF status \notin Terminal
       THEN Move("missed") /\ Begin(Timer, "message", "miss", "missed")
       ELSE UNCHANGED <<row, local>>
    /\ UNCHANGED <<rungOut, inbox, message, wire, refused, faults>>

(* A timer fires: ExpireRingingCall, UPDATE ... WHERE status = 'ringing'.  *)
TimerFires ==
    /\ rungOut /\ timers > 0 /\ pc[Timer] = "idle"
    /\ timers' = timers - 1
    /\ IF status = "ringing"
       THEN Move("missed") /\ Begin(Timer, "message", "miss", "missed")
       ELSE UNCHANGED <<row, local>>
    /\ UNCHANGED <<rungOut, inbox, message, wire, refused, faults>>

(* Mutant: created_at >= before, the young calls instead of the old ones.  *)
SweepYoung ==
    /\ ~rungOut /\ status = "ringing"
    /\ Move("missed")
    /\ Begin(Sweeper, "message", "miss", "missed")
    /\ UNCHANGED <<rungOut, timers, inbox, message, wire, refused, faults>>

(* ExpireRinging finds the call; a tick that does not changes nothing.     *)
Sweep ==
    /\ rungOut /\ status = "ringing"
    /\ Move("missed")
    /\ Begin(Sweeper, "message", "miss", "missed")
    /\ UNCHANGED <<rungOut, timers, inbox, message, wire, refused, faults>>

-----------------------------------------------------------------------------
(* What follows a terminal status, in ChangeStatus and in both timeouts.   *)

(* createCallMessage: INSERT WHERE NOT EXISTS, with its outbox event, in a *)
(* transaction.                                                            *)
WriteMessage(p) ==
    /\ pc[p] = "message"
    /\ message' = IF message = "none" THEN OutcomeOf(seen[p]) ELSE message
    /\ GoTo(p, "notify")
    /\ UNCHANGED <<row, rungOut, timers, inbox, wire, refused, faults>>

(* Mutant: only one notification of the call is rewritten.                 *)
NotifyOne(p) ==
    /\ pc[p] = "notify"
    /\ IF ringRows > 0
       THEN ringRows' = ringRows - 1 /\ overRows' = overRows + 1
       ELSE UNCHANGED <<ringRows, overRows>>
    /\ GoTo(p, IF overRows' > 0 /\ seen[p] \in {"cancelled", "missed"}
               THEN "push" ELSE "publish")
    /\ UNCHANGED <<row, rungOut, timers, ringJobs, missedJobs, late,
                   message, wire, refused, faults>>

(* UpdateCallNotification rewrites every notification of the call; a push  *)
(* job follows for a call the callee missed.                               *)
Notify(p) ==
    /\ pc[p] = "notify"
    /\ ringRows' = 0
    /\ overRows' = overRows + ringRows
    /\ GoTo(p, IF overRows' > 0 /\ seen[p] \in {"cancelled", "missed"}
               THEN "push" ELSE "publish")
    /\ UNCHANGED <<row, rungOut, timers, ringJobs, missedJobs, late,
                   message, wire, refused, faults>>

(* createJobOnce.                                                          *)
Push(p) ==
    /\ pc[p] = "push"
    /\ missedJobs' = IF missedJobs = 0 THEN 1 ELSE missedJobs
    /\ GoTo(p, "publish")
    /\ UNCHANGED <<row, rungOut, timers, ringRows, overRows, ringJobs, late,
                   message, wire, refused, faults>>

(* publish; the worker's service has no realtime publisher.                *)
Publish(p) ==
    /\ pc[p] = "publish"
    /\ wire' = IF p = Sweeper THEN wire ELSE wire \cup {EventOf(op[p])}
    /\ IF op[p] = "create" THEN GoTo(p, "invite") ELSE Return(p)
    /\ UNCHANGED <<row, rungOut, timers, inbox, message, refused, faults>>

-----------------------------------------------------------------------------
(* Service.SendSignal, by the participant whose role allows the type.      *)

Signal(p, type) ==
    /\ p \in Requests
    /\ status = "accepted"
    /\ Begin(p, "store", type, status)
    /\ UNCHANGED <<row, rungOut, timers, inbox, message, wire, refused, faults>>

(* CreateSignal does not look at the status again.                         *)
Store(p) ==
    /\ pc[p] = "store"
    /\ IF op[p] \in StoredTypes
       THEN GoTo(p, "publish") /\ UNCHANGED refused
       ELSE Return(p) /\ refused' = refused \cup {op[p]}
    /\ UNCHANGED <<row, rungOut, timers, inbox, message, wire, faults>>

-----------------------------------------------------------------------------
(* Failures.                                                               *)

(* A statement fails, or a process stops, without the effect of the        *)
(* statement.  Every error but that of the update is ignored: the handler  *)
(* goes on, without the push job that hangs on a failed notification.      *)
StatementFails(p) ==
    /\ Fault
    /\ \/ pc[p] = "message" /\ GoTo(p, "notify")
       \/ pc[p] \in {"notify", "push"} /\ GoTo(p, "publish")
       \/ pc[p] \in {"invite", "ring", "ringJob"} /\ GoTo(p, "schedule")
       \/ pc[p] = "publish" /\ op[p] = "create" /\ GoTo(p, "invite")
       \/ pc[p] = "publish" /\ op[p] # "create" /\ Return(p)
       \/ pc[p] \in {"update", "store"} /\ Return(p)
    /\ UNCHANGED <<row, rungOut, timers, inbox, message, wire, refused>>

(* The INSERT or UPDATE of the row commits, and its result is lost.        *)
ResultLost(p) ==
    /\ Fault
    /\ \/ /\ p \in Requests /\ status = "none"
          /\ Move("ringing")
          /\ Begin(p, "done", "none", "none")
       \/ /\ pc[p] = "update" /\ status = seen[p]
          /\ Move(LeadsTo(op[p]))
          /\ Return(p)
    /\ UNCHANGED <<rungOut, timers, inbox, message, wire, refused>>

(* The API process stops: handlers in progress and timers are gone.        *)
ApiStops ==
    /\ Fault
    /\ LET running == {p \in Procs \ {Sweeper} : pc[p] # "idle"}
       IN  /\ pc' = [p \in Procs |-> IF p \in running THEN Rest(p) ELSE pc[p]]
           /\ op' = [p \in Procs |-> IF p \in running THEN "none" ELSE op[p]]
           /\ seen' = [p \in Procs |-> IF p \in running THEN "none" ELSE seen[p]]
    /\ timers' = 0
    /\ UNCHANGED <<row, rungOut, inbox, message, wire, refused>>

WorkerStops ==
    /\ Fault
    /\ pc[Sweeper] # "idle"
    /\ Return(Sweeper)
    /\ UNCHANGED <<row, rungOut, timers, inbox, message, wire, refused>>

-----------------------------------------------------------------------------
Continue(p) ==
    \/ Invite(p) \/ Ring(p) \/ RingJob(p) \/ Schedule(p) \/ Update(p)
    \/ WriteMessage(p) \/ Notify(p) \/ Push(p) \/ Publish(p) \/ Store(p)

Arrive(p) ==
    \/ Create(p)
    \/ \E a \in Actions : Decide(p, a)
    \/ \E type \in SignalTypes : Signal(p, type)

Next ==
    \/ \E p \in Procs : Arrive(p) \/ Continue(p) \/ StatementFails(p) \/ ResultLost(p)
    \/ RingTimeoutPasses \/ TimerFires \/ Sweep
    \/ ApiStops \/ WorkerStops

Spec == Init /\ [][Next]_vars

(* Handlers run, time passes and the worker's ticker sweeps; nobody has to *)
(* call, answer or hang up, and no timer survives the API process.         *)
Fairness == /\ \A p \in Procs : WF_vars(Continue(p))
            /\ WF_vars(RingTimeoutPasses) /\ WF_vars(TimerFires) /\ WF_vars(Sweep)

FairSpec == Spec /\ Fairness

-----------------------------------------------------------------------------
(* Properties.                                                             *)

(* The life of a call: handlers that decided on a status the row no longer *)
(* has do not overwrite it, and a call that is over stays as it ended.     *)
LegalMoves ==
    [][\/ status' = status
       \/ status = "none" /\ status' = "ringing"
       \/ status = "ringing" /\ status' \in {"accepted", "rejected", "cancelled", "missed"}
       \/ status = "accepted" /\ status' = "ended"]_vars

(* started_at says that the call was answered, ended_at that it is over:   *)
(* a missed, rejected or cancelled call was never answered.                *)
TimesMatchStatus ==
    /\ started <=> status \in {"accepted", "ended"}
    /\ ended <=> status \in Terminal

(* Of the requests, timers and sweeper that try to finish a call, one      *)
(* carries out what follows.                                               *)
Finishing(p) == pc[p] \in {"message", "notify", "push"}

OneFinisher ==
    \A p, q \in Procs :
        Finishing(p) => /\ status = seen[p] /\ status \in Terminal
                        /\ p # q => ~Finishing(q)

(* The channel's call message tells how the call ended: "completed" only   *)
(* for one that was answered and hung up.                                  *)
MessageTellsOutcome ==
    /\ message # "none" => status \in Terminal
    /\ message = "completed" => status = "ended"
    /\ message = "missed" => status # "ended"

(* At most one outcome is announced, and it is the one of the row; the     *)
(* callee is pushed "missed" only for a call that was never answered.      *)
AnnouncedOutcomeIsReal ==
    /\ \A a \in Actions : EventOf(a) \in wire => status = LeadsTo(a) \/ a = "accept"
    /\ "CallAccepted" \in wire => started
    /\ missedJobs > 0 => ~started /\ status \in {"cancelled", "missed"}

(* A call has one outcome: one request finishes it, and the row, its times, *)
(* the message in the channel and what was announced tell the same of it.  *)
OneOutcome == TimesMatchStatus /\ OneFinisher /\ MessageTellsOutcome /\ AnnouncedOutcomeIsReal

(* Once nobody works on a call that is over, no notification of it rings,  *)
(* unless a statement was lost or an invitation came after the end.        *)
RingingStops ==
    (/\ status \in Terminal
     /\ \A p \in Procs : pc[p] \in {"idle", "done"}
     /\ faults = 0 /\ ~late) => ringRows = 0

(* No call rings for ever, even if the timer died with its process.        *)
RingingEnds == status = "ringing" ~> status # "ringing"

(* Without failures the channel gets its call message.                     *)
MessageFollows == status \in Terminal ~> (message # "none" \/ faults > 0)
=============================================================================
