----------------------------- MODULE CallsProofs -----------------------------
(***************************************************************************)
(* What holds of Calls for every set of requests and number of failures.   *)
(*                                                                         *)
(* The argument: a process that is about to update the row remembers an    *)
(* action and the status it needs (Memory), so the compare-and-set lets    *)
(* only the moves of the action table through (StepKinds).  A process      *)
(* starts to carry out an end of the call only in the step that moves the  *)
(* row out of a status that is not terminal, when nobody else can be       *)
(* carrying one out (FinisherStep), and terminal statuses stay; so what it *)
(* writes and publishes later is still how the call ended (Carried).       *)
(***************************************************************************)
EXTENDS Calls, TLAPS

Ops == {"none", "create"} \cup Actions \cup SignalTypes

(* What a process remembers of the call.                                   *)
LocalTypes ==
    /\ pc \in [Procs -> Steps]
    /\ op \in [Procs -> Ops]
    /\ seen \in [Procs -> Statuses]

(* The columns of call_sessions.                                           *)
RowTypes == status \in Statuses /\ started \in BOOLEAN /\ ended \in BOOLEAN

(* Everything else.                                                        *)
TableTypes ==
    /\ rungOut \in BOOLEAN /\ timers \in Nat
    /\ ringRows \in Nat /\ overRows \in Nat /\ ringJobs \in Nat /\ missedJobs \in Nat
    /\ message \in {"none", "completed", "missed"}
    /\ wire \subseteq {"CallInvited", "CallAccepted", "CallRejected", "CallCancelled",
                       "CallEnded", "CallMissed", "CallSignal"}
    /\ refused \subseteq SignalTypes
    /\ late \in BOOLEAN
    /\ faults \in 0..FaultBudget

LEMMA TypeParts == TypeOK <=> RowTypes /\ LocalTypes /\ TableTypes
  BY DEF TypeOK, RowTypes, LocalTypes, TableTypes, Ops

(* An action and a status that fit the step at which they are remembered.  *)
Fits(step, a, s) ==
    /\ step = "update" => a \in Actions /\ s = Needs(a)
    /\ step \in {"message", "notify", "push"} =>
           a \in Actions /\ s = LeadsTo(a) /\ s \in Terminal
    /\ step = "push" => s \in {"cancelled", "missed"}
    /\ step = "store" => a \in SignalTypes

Memory == \A p \in Procs : Fits(pc[p], op[p], seen[p])

-----------------------------------------------------------------------------
(* Lemmas about single operators.                                          *)

(* The action table: where actions start and where they lead.              *)
LEMMA ActionTable ==
    ASSUME NEW a \in Actions
    PROVE  /\ Needs(a) \in {"ringing", "accepted"} /\ Needs(a) \notin Terminal
           /\ LeadsTo(a) \in {"accepted"} \cup Terminal
           /\ LeadsTo(a) \in Statuses /\ Needs(a) \in Statuses
           /\ LeadsTo(a) = "ended" <=> Needs(a) = "accepted"
  BY DEF Actions, Needs, LeadsTo, Terminal, Statuses

(* Writing what one process remembers leaves the others alone.             *)
LEMMA SetKeeps ==
    ASSUME LocalTypes, Memory, NEW p \in Procs, NEW step \in Steps, NEW a \in Ops,
           NEW s \in Statuses, Set(p, step, a, s), Fits(step, a, s)
    PROVE  LocalTypes' /\ Memory'
<1>1. LocalTypes'
  BY DEF LocalTypes, Set
<1>2. pc'[p] = step /\ op'[p] = a /\ seen'[p] = s
  BY DEF LocalTypes, Set
<1>3. \A q \in Procs \ {p} : pc'[q] = pc[q] /\ op'[q] = op[q] /\ seen'[q] = seen[q]
  BY DEF LocalTypes, Set
<1>4. ASSUME NEW q \in Procs PROVE Fits(pc'[q], op'[q], seen'[q])
  <2>1. CASE q = p
    BY <1>2, <2>1
  <2>2. CASE q # p
    BY <1>3, <2>2 DEF Memory
  <2> QED
    BY <2>1, <2>2
<1> QED
  BY <1>1, <1>4 DEF Memory, Fits

(* Going on to a step that nothing special is remembered for.              *)
Plain == {"invite", "ring", "ringJob", "schedule", "publish"}

LEMMA GoToPlain ==
    ASSUME LocalTypes, Memory, NEW p \in Procs,
           Return(p) \/ \E step \in Plain : GoTo(p, step)
    PROVE  LocalTypes' /\ Memory'
<1>1. CASE Return(p)
  <2>1. Set(p, Rest(p), "none", "none")
    BY <1>1 DEF Return
  <2>2. Rest(p) \in {"idle", "done"}
    BY DEF Rest
  <2>3. Rest(p) \in Steps /\ "none" \in Ops /\ "none" \in Statuses
    BY <2>2 DEF Steps, Ops, Statuses
  <2>4. Fits(Rest(p), "none", "none")
    BY <2>2 DEF Fits
  <2> QED
    BY <2>1, <2>3, <2>4, SetKeeps
<1>2. ASSUME NEW step \in Plain, GoTo(p, step) PROVE LocalTypes' /\ Memory'
  <2>1. Set(p, step, op[p], seen[p])
    BY <1>2 DEF GoTo
  <2>2. step \in Steps /\ op[p] \in Ops /\ seen[p] \in Statuses
    BY <1>2 DEF Plain, Steps, LocalTypes
  <2>3. Fits(step, op[p], seen[p])
    BY <1>2 DEF Plain, Fits
  <2> QED
    BY <2>1, <2>2, <2>3, SetKeeps
<1> QED
  BY <1>1, <1>2

(* Going on with the end of a call.                                        *)
LEMMA GoToFinish ==
    ASSUME LocalTypes, Memory, NEW p \in Procs, Finishing(p),
           NEW step \in {"notify", "push"}, GoTo(p, step),
           step = "push" => seen[p] \in {"cancelled", "missed"}
    PROVE  LocalTypes' /\ Memory'
<1>1. Set(p, step, op[p], seen[p])
  BY DEF GoTo
<1>2. step \in Steps /\ op[p] \in Ops /\ seen[p] \in Statuses
  BY DEF Steps, LocalTypes
<1>3. Fits(step, op[p], seen[p])
  BY DEF Memory, Finishing, Fits
<1> QED
  BY <1>1, <1>2, <1>3, SetKeeps

(* A move of the row by action a, and what the process goes on with.       *)
LEMMA MoveKeeps ==
    ASSUME LocalTypes, Memory, NEW p \in Procs, NEW a \in Actions,
           LET s == LeadsTo(a) IN Set(p, AfterMove(s), a, s)
    PROVE  LocalTypes' /\ Memory'
<1> DEFINE s == LeadsTo(a)
<1>1. s \in Statuses /\ a \in Ops
  BY ActionTable DEF Ops
<1>2. AfterMove(s) \in Steps
  BY DEF AfterMove, Steps
<1>3. Fits(AfterMove(s), a, s)
  BY DEF AfterMove, Fits
<1> HIDE DEF s
<1>4. Set(p, AfterMove(s), a, s)
  BY DEF s
<1> QED
  BY <1>1, <1>2, <1>3, <1>4, SetKeeps

(* UPDATE keeps the types of the columns.                                  *)
LEMMA MoveTypes ==
    ASSUME RowTypes, NEW s \in Statuses, Move(s)
    PROVE  RowTypes'
  BY DEF RowTypes, Move

(* A fault is counted within its bound.                                    *)
LEMMA FaultTypes ==
    ASSUME faults \in 0..FaultBudget, Fault
    PROVE  faults' \in 0..FaultBudget
  BY FaultAssumption DEF Fault

-----------------------------------------------------------------------------
(* Type correctness, with what the processes remember.                     *)

Typed == RowTypes /\ LocalTypes /\ TableTypes /\ Memory

(* The lemma has one step per action of Next.                              *)
LEMMA TypedInvariant == Spec => []Typed
<1>1. Init => Typed
  <2> SUFFICES ASSUME Init PROVE Typed
    OBVIOUS
  <2>1. RowTypes
    BY DEF Init, RowTypes, Statuses
  <2>2. LocalTypes
    BY DEF Init, LocalTypes, Statuses, Steps, Ops
  <2>3. TableTypes
    <3>1. faults \in 0..FaultBudget
      BY FaultAssumption DEF Init
    <3> QED
      BY <3>1 DEF Init, TableTypes
  <2>4. Memory
    BY DEF Init, Memory, Fits
  <2> QED
    BY <2>1, <2>2, <2>3, <2>4 DEF Typed
<1>2. Typed /\ [Next]_vars => Typed'
  <2> SUFFICES ASSUME Typed, [Next]_vars PROVE Typed'
    OBVIOUS
  <2>0. RowTypes /\ LocalTypes /\ TableTypes /\ Memory
    BY DEF Typed
  <2>1. ASSUME NEW p \in Procs, Create(p) PROVE Typed'
    <3>1. RowTypes'
      BY <2>0, <2>1, MoveTypes DEF Create, Statuses, RowTypes, row
    <3>2. LocalTypes' /\ Memory'
      <4>1. Set(p, "publish", "create", status')
        BY <2>1 DEF Create, Begin
      <4>2. "publish" \in Steps /\ "create" \in Ops /\ status' \in Statuses
        BY <3>1 DEF Steps, Ops, RowTypes
      <4>3. Fits("publish", "create", status')
        BY DEF Fits
      <4> QED
        BY <2>0, <4>1, <4>2, <4>3, SetKeeps
    <3>3. TableTypes'
      BY <2>0, <2>1 DEF Create, TableTypes, inbox
    <3> QED
      BY <3>1, <3>2, <3>3 DEF Typed
  <2>2. ASSUME NEW p \in Procs, NEW a \in Actions, Decide(p, a) PROVE Typed'
    <3>1. RowTypes'
      BY <2>0, <2>2 DEF Decide, RowTypes, row
    <3>2. LocalTypes' /\ Memory'
      <4>1. Set(p, "update", a, status) /\ status \in Statuses
        BY <2>0, <2>2 DEF Decide, Begin, RowTypes
      <4>2. "update" \in Steps /\ a \in Ops
        BY <2>2 DEF Steps, Ops
      <4>3. Fits("update", a, status)
        BY <2>2 DEF Decide, Fits
      <4> QED
        BY <2>0, <4>1, <4>2, <4>3, SetKeeps
    <3>3. TableTypes'
      BY <2>0, <2>2 DEF Decide, TableTypes, inbox
    <3> QED
      BY <3>1, <3>2, <3>3 DEF Typed
  <2>3. ASSUME NEW p \in Procs, NEW type \in SignalTypes, Signal(p, type) PROVE Typed'
    <3>1. RowTypes'
      BY <2>0, <2>3 DEF Signal, RowTypes, row
    <3>2. LocalTypes' /\ Memory'
      <4>1. Set(p, "store", type, status) /\ status \in Statuses
        BY <2>0, <2>3 DEF Signal, Begin, RowTypes
      <4>2. "store" \in Steps /\ type \in Ops
        BY <2>3 DEF Steps, Ops
      <4>3. Fits("store", type, status)
        BY <2>3 DEF Signal, Fits
      <4> QED
        BY <2>0, <4>1, <4>2, <4>3, SetKeeps
    <3>3. TableTypes'
      BY <2>0, <2>3 DEF Signal, TableTypes, inbox
    <3> QED
      BY <3>1, <3>2, <3>3 DEF Typed
  <2>4. ASSUME NEW p \in Procs, Invite(p) PROVE Typed'
    <3>1. RowTypes'
      BY <2>0, <2>4 DEF Invite, RowTypes, row
    <3>2. LocalTypes' /\ Memory'
      <4>1. Return(p) \/ \E step \in Plain : GoTo(p, step)
        BY <2>4 DEF Invite, Plain
      <4> QED
        BY <2>0, <4>1, GoToPlain
    <3>3. TableTypes'
      BY <2>0, <2>4 DEF Invite, TableTypes, inbox
    <3> QED
      BY <3>1, <3>2, <3>3 DEF Typed
  <2>5. ASSUME NEW p \in Procs, Ring(p) PROVE Typed'
    <3>1. RowTypes'
      BY <2>0, <2>5 DEF Ring, RowTypes, row
    <3>2. LocalTypes' /\ Memory'
      <4>1. Return(p) \/ \E step \in Plain : GoTo(p, step)
        BY <2>5 DEF Ring, Plain
      <4> QED
        BY <2>0, <4>1, GoToPlain
    <3>3. TableTypes'
      BY <2>0, <2>5 DEF Ring, TableTypes
    <3> QED
      BY <3>1, <3>2, <3>3 DEF Typed
  <2>6. ASSUME NEW p \in Procs, RingJob(p) PROVE Typed'
    <3>1. RowTypes'
      BY <2>0, <2>6 DEF RingJob, RowTypes, row
    <3>2. LocalTypes' /\ Memory'
      <4>1. Return(p) \/ \E step \in Plain : GoTo(p, step)
        BY <2>6 DEF RingJob, Plain
      <4> QED
        BY <2>0, <4>1, GoToPlain
    <3>3. TableTypes'
      BY <2>0, <2>6 DEF RingJob, TableTypes
    <3> QED
      BY <3>1, <3>2, <3>3 DEF Typed
  <2>7. ASSUME NEW p \in Procs, Schedule(p) PROVE Typed'
    <3>1. RowTypes'
      BY <2>0, <2>7 DEF Schedule, RowTypes, row
    <3>2. LocalTypes' /\ Memory'
      <4>1. Return(p) \/ \E step \in Plain : GoTo(p, step)
        BY <2>7 DEF Schedule, Plain
      <4> QED
        BY <2>0, <4>1, GoToPlain
    <3>3. TableTypes'
      BY <2>0, <2>7 DEF Schedule, TableTypes, inbox
    <3> QED
      BY <3>1, <3>2, <3>3 DEF Typed
  <2>8. ASSUME NEW p \in Procs, Update(p) PROVE Typed'
    <3>1. op[p] \in Actions
      BY <2>0, <2>8 DEF Update, Memory, Fits
    <3>2. RowTypes' /\ LocalTypes' /\ Memory'
      <4>1. CASE status = seen[p]
        <5>1. Move(LeadsTo(op[p])) /\ Set(p, AfterMove(LeadsTo(op[p])), op[p], LeadsTo(op[p]))
          BY <2>8, <4>1 DEF Update
        <5> QED
          BY <2>0, <3>1, <5>1, ActionTable, MoveTypes, MoveKeeps
      <4>2. CASE status # seen[p]
        <5>1. UNCHANGED row /\ Return(p)
          BY <2>8, <4>2 DEF Update
        <5>2. RowTypes'
          BY <2>0, <5>1 DEF RowTypes, row
        <5> QED
          BY <2>0, <5>1, <5>2, GoToPlain
      <4> QED
        BY <4>1, <4>2
    <3>3. TableTypes'
      BY <2>0, <2>8 DEF Update, TableTypes, inbox
    <3> QED
      BY <3>2, <3>3 DEF Typed
  <2>9. ASSUME NEW p \in Procs, WriteMessage(p) PROVE Typed'
    <3>1. RowTypes'
      BY <2>0, <2>9 DEF WriteMessage, RowTypes, row
    <3>2. LocalTypes' /\ Memory'
      <4>1. Finishing(p) /\ GoTo(p, "notify")
        BY <2>9 DEF WriteMessage, Finishing
      <4> QED
        BY <2>0, <4>1, GoToFinish
    <3>3. TableTypes'
      BY <2>0, <2>9 DEF WriteMessage, TableTypes, OutcomeOf, inbox
    <3> QED
      BY <3>1, <3>2, <3>3 DEF Typed
  <2>10. ASSUME NEW p \in Procs, Notify(p) PROVE Typed'
    <3>1. RowTypes'
      BY <2>0, <2>10 DEF Notify, RowTypes, row
    <3>2. LocalTypes' /\ Memory'
      <4>1. CASE overRows' > 0 /\ seen[p] \in {"cancelled", "missed"}
        <5>1. Finishing(p) /\ GoTo(p, "push")
          BY <2>10, <4>1 DEF Notify, Finishing
        <5> QED
          BY <2>0, <4>1, <5>1, GoToFinish
      <4>2. CASE ~(overRows' > 0 /\ seen[p] \in {"cancelled", "missed"})
        <5>1. GoTo(p, "publish") /\ "publish" \in Plain
          BY <2>10, <4>2 DEF Notify, Plain
        <5> QED
          BY <2>0, <5>1, GoToPlain
      <4> QED
        BY <4>1, <4>2
    <3>3. TableTypes'
      BY <2>0, <2>10 DEF Notify, TableTypes
    <3> QED
      BY <3>1, <3>2, <3>3 DEF Typed
  <2>11. ASSUME NEW p \in Procs, Push(p) PROVE Typed'
    <3>1. RowTypes'
      BY <2>0, <2>11 DEF Push, RowTypes, row
    <3>2. LocalTypes' /\ Memory'
      <4>1. Return(p) \/ \E step \in Plain : GoTo(p, step)
        BY <2>11 DEF Push, Plain
      <4> QED
        BY <2>0, <4>1, GoToPlain
    <3>3. TableTypes'
      BY <2>0, <2>11 DEF Push, TableTypes
    <3> QED
      BY <3>1, <3>2, <3>3 DEF Typed
  <2>12. ASSUME NEW p \in Procs, Publish(p) PROVE Typed'
    <3>1. RowTypes'
      BY <2>0, <2>12 DEF Publish, RowTypes, row
    <3>2. LocalTypes' /\ Memory'
      <4>1. Return(p) \/ \E step \in Plain : GoTo(p, step)
        BY <2>12 DEF Publish, Plain
      <4> QED
        BY <2>0, <4>1, GoToPlain
    <3>3. TableTypes'
      BY <2>0, <2>12 DEF Publish, TableTypes, EventOf, inbox
    <3> QED
      BY <3>1, <3>2, <3>3 DEF Typed
  <2>13. ASSUME NEW p \in Procs, Store(p) PROVE Typed'
    <3>1. RowTypes'
      BY <2>0, <2>13 DEF Store, RowTypes, row
    <3>2. LocalTypes' /\ Memory'
      <4>1. Return(p) \/ \E step \in Plain : GoTo(p, step)
        BY <2>13 DEF Store, Plain
      <4> QED
        BY <2>0, <4>1, GoToPlain
    <3>3. TableTypes'
      <4>1. refused' \subseteq SignalTypes
        BY <2>0, <2>13 DEF Store, TableTypes, Memory, Fits
      <4> QED
        BY <2>0, <2>13, <4>1 DEF Store, TableTypes, inbox
    <3> QED
      BY <3>1, <3>2, <3>3 DEF Typed
  <2>14. ASSUME NEW p \in Procs, StatementFails(p) PROVE Typed'
    <3>1. RowTypes'
      BY <2>0, <2>14 DEF StatementFails, RowTypes, row
    <3>2. LocalTypes' /\ Memory'
      <4>1. CASE pc[p] = "message" /\ GoTo(p, "notify")
        <5>1. Finishing(p)
          BY <4>1 DEF Finishing
        <5> QED
          BY <2>0, <4>1, <5>1, GoToFinish
      <4>2. CASE Return(p) \/ \E step \in Plain : GoTo(p, step)
        BY <2>0, <4>2, GoToPlain
      <4> QED
        BY <2>14, <4>1, <4>2 DEF StatementFails, Plain
    <3>3. TableTypes'
      <4>1. faults' \in 0..FaultBudget
        BY <2>0, <2>14, FaultTypes DEF StatementFails, TableTypes
      <4> QED
        BY <2>0, <2>14, <4>1 DEF StatementFails, TableTypes, inbox
    <3> QED
      BY <3>1, <3>2, <3>3 DEF Typed
  <2>15. ASSUME NEW p \in Procs, ResultLost(p) PROVE Typed'
    <3>1. TableTypes'
      <4>1. faults' \in 0..FaultBudget
        BY <2>0, <2>15, FaultTypes DEF ResultLost, TableTypes
      <4> QED
        BY <2>0, <2>15, <4>1 DEF ResultLost, TableTypes, inbox
    <3>2. CASE /\ p \in Requests /\ status = "none" /\ Move("ringing")
               /\ Begin(p, "done", "none", "none")
      <4>1. RowTypes'
        BY <2>0, <3>2, MoveTypes DEF Statuses
      <4>2. Set(p, "done", "none", "none") /\ Fits("done", "none", "none")
        BY <3>2 DEF Begin, Fits
      <4>3. "done" \in Steps /\ "none" \in Ops /\ "none" \in Statuses
        BY DEF Steps, Ops, Statuses
      <4>4. LocalTypes' /\ Memory'
        BY <2>0, <4>2, <4>3, SetKeeps
      <4> QED
        BY <3>1, <4>1, <4>4 DEF Typed
    <3>3. CASE /\ pc[p] = "update" /\ status = seen[p]
               /\ Move(LeadsTo(op[p])) /\ Return(p)
      <4>1. op[p] \in Actions
        BY <2>0, <3>3 DEF Memory, Fits
      <4>2. RowTypes'
        BY <2>0, <3>3, <4>1, ActionTable, MoveTypes
      <4>3. LocalTypes' /\ Memory'
        BY <2>0, <3>3, GoToPlain
      <4> QED
        BY <3>1, <4>2, <4>3 DEF Typed
    <3> QED
      BY <2>15, <3>2, <3>3 DEF ResultLost
  <2>16. ASSUME RingTimeoutPasses PROVE Typed'
    <3>1. RowTypes'
      BY <2>0, <2>16 DEF RingTimeoutPasses, RowTypes, row
    <3>2. LocalTypes' /\ Memory'
      BY <2>0, <2>16 DEF RingTimeoutPasses, LocalTypes, Memory, Fits, local
    <3>3. TableTypes'
      BY <2>0, <2>16 DEF RingTimeoutPasses, TableTypes, inbox
    <3> QED
      BY <3>1, <3>2, <3>3 DEF Typed
  <2>17. ASSUME TimerFires PROVE Typed'
    <3>1. TableTypes'
      BY <2>0, <2>17 DEF TimerFires, TableTypes, inbox
    <3>2. CASE Move("missed") /\ Begin(Timer, "message", "miss", "missed")
      <4>1. RowTypes'
        BY <2>0, <3>2, MoveTypes DEF Statuses, Terminal
      <4>2. Set(Timer, "message", "miss", "missed") /\ Fits("message", "miss", "missed")
        BY <3>2 DEF Begin, Fits, Actions, LeadsTo, Terminal
      <4>3. /\ Timer \in Procs
            /\ "message" \in Steps /\ "miss" \in Ops /\ "missed" \in Statuses
        BY DEF Procs, Steps, Ops, Actions, Statuses, Terminal
      <4>4. LocalTypes' /\ Memory'
        BY <2>0, <4>2, <4>3, SetKeeps
      <4> QED
        BY <3>1, <4>1, <4>4 DEF Typed
    <3>3. CASE UNCHANGED <<row, local>>
      <4>1. RowTypes' /\ LocalTypes' /\ Memory'
        BY <2>0, <3>3 DEF RowTypes, LocalTypes, Memory, Fits, row, local
      <4> QED
        BY <3>1, <4>1 DEF Typed
    <3> QED
      BY <2>17, <3>2, <3>3 DEF TimerFires
  <2>18. ASSUME Sweep PROVE Typed'
    <3>1. TableTypes'
      BY <2>0, <2>18 DEF Sweep, TableTypes, inbox
    <3>2. CASE Move("missed") /\ Begin(Sweeper, "message", "miss", "missed")
      <4>1. RowTypes'
        BY <2>0, <3>2, MoveTypes DEF Statuses, Terminal
      <4>2. Set(Sweeper, "message", "miss", "missed") /\ Fits("message", "miss", "missed")
        BY <3>2 DEF Begin, Fits, Actions, LeadsTo, Terminal
      <4>3. /\ Sweeper \in Procs
            /\ "message" \in Steps /\ "miss" \in Ops /\ "missed" \in Statuses
        BY DEF Procs, Steps, Ops, Actions, Statuses, Terminal
      <4>4. LocalTypes' /\ Memory'
        BY <2>0, <4>2, <4>3, SetKeeps
      <4> QED
        BY <3>1, <4>1, <4>4 DEF Typed
    <3> QED
      BY <2>18, <3>2 DEF Sweep
  <2>19. ASSUME ApiStops PROVE Typed'
    <3>1. RowTypes'
      BY <2>0, <2>19 DEF ApiStops, RowTypes, row
    <3>2. LocalTypes'
      BY <2>0, <2>19 DEF ApiStops, LocalTypes, Rest, Steps, Ops, Statuses
    <3>3. ASSUME NEW p \in Procs PROVE Fits(pc'[p], op'[p], seen'[p])
      <4>1. \/ pc'[p] = pc[p] /\ op'[p] = op[p] /\ seen'[p] = seen[p]
            \/ pc'[p] = Rest(p)
        BY <2>0, <2>19 DEF ApiStops, LocalTypes
      <4>2. Rest(p) \in {"idle", "done"}
        BY DEF Rest
      <4> QED
        BY <2>0, <4>1, <4>2 DEF Memory, Fits
    <3>4. Memory'
      BY <3>3 DEF Memory, Fits
    <3>5. TableTypes'
      <4>1. faults' \in 0..FaultBudget
        BY <2>0, <2>19, FaultTypes DEF ApiStops, TableTypes
      <4> QED
        BY <2>0, <2>19, <4>1 DEF ApiStops, TableTypes, inbox
    <3> QED
      BY <3>1, <3>2, <3>4, <3>5 DEF Typed
  <2>20. ASSUME WorkerStops PROVE Typed'
    <3>1. RowTypes'
      BY <2>0, <2>20 DEF WorkerStops, RowTypes, row
    <3>2. LocalTypes' /\ Memory'
      <4>1. Return(Sweeper) /\ Sweeper \in Procs
        BY <2>20 DEF WorkerStops, Procs
      <4> QED
        BY <2>0, <4>1, GoToPlain
    <3>3. TableTypes'
      <4>1. faults' \in 0..FaultBudget
        BY <2>0, <2>20, FaultTypes DEF WorkerStops, TableTypes
      <4> QED
        BY <2>0, <2>20, <4>1 DEF WorkerStops, TableTypes, inbox
    <3> QED
      BY <3>1, <3>2, <3>3 DEF Typed
  <2>21. ASSUME UNCHANGED vars PROVE Typed'
    <3>1. RowTypes' /\ LocalTypes' /\ Memory'
      BY <2>0, <2>21 DEF vars, RowTypes, LocalTypes, Memory, Fits, row, local
    <3>2. TableTypes'
      BY <2>0, <2>21 DEF vars, TableTypes, inbox
    <3> QED
      BY <3>1, <3>2 DEF Typed
  <2> QED
    BY <2>1, <2>2, <2>3, <2>4, <2>5, <2>6, <2>7, <2>8, <2>9, <2>10, <2>11, <2>12,
       <2>13, <2>14, <2>15, <2>16, <2>17, <2>18, <2>19, <2>20, <2>21
    DEF Next, Arrive, Continue
<1> QED
  BY <1>1, <1>2, PTL DEF Spec

(* Every variable of a call keeps its type, whatever requests, timers,     *)
(* sweeper and failures do.                                                *)
THEOREM TypeCorrect == Spec => []TypeOK
<1>1. Typed => TypeOK
  BY TypeParts DEF Typed
<1> QED
  BY <1>1, TypedInvariant, PTL

-----------------------------------------------------------------------------
(* What a step can do to the row and to the processes that carry out an    *)
(* action.                                                                 *)

(* A process carries out action op[p]: the row has moved, and message,     *)
(* notification, push job and event follow.                                *)
FinishSteps == {"message", "notify", "push"}
CarrySteps  == FinishSteps \cup {"publish"}
Carrying(p) == pc[p] \in CarrySteps /\ op[p] \in Actions

(* q does not start to carry out anything in this step.                    *)
Keeps(q) ==
    (pc'[q] \in CarrySteps /\ op'[q] \in Actions) =>
        /\ Carrying(q) /\ op'[q] = op[q] /\ seen'[q] = seen[q]
        /\ pc'[q] \in FinishSteps => Finishing(q)

(* p starts to carry out a, which has just moved the row.                  *)
Takes(p, a) ==
    pc'[p] = AfterMove(LeadsTo(a)) /\ op'[p] = a /\ seen'[p] = LeadsTo(a)

StaysPut == UNCHANGED row /\ \A q \in Procs : Keeps(q)
Rings    == status = "none" /\ Move("ringing") /\ \A q \in Procs : Keeps(q)
Acts(p, a) ==
    /\ status = Needs(a) /\ Move(LeadsTo(a))
    /\ Takes(p, a) \/ Keeps(p)
    /\ \A q \in Procs \ {p} : Keeps(q)

LEMMA SetOthers ==
    ASSUME LocalTypes, NEW p \in Procs, NEW step, NEW a, NEW s, Set(p, step, a, s)
    PROVE  /\ pc'[p] = step /\ op'[p] = a /\ seen'[p] = s
           /\ \A q \in Procs \ {p} : Keeps(q)
<1>1. pc'[p] = step /\ op'[p] = a /\ seen'[p] = s
  BY DEF LocalTypes, Set
<1>2. ASSUME NEW q \in Procs \ {p} PROVE Keeps(q)
  <2>1. pc'[q] = pc[q] /\ op'[q] = op[q] /\ seen'[q] = seen[q]
    BY DEF LocalTypes, Set
  <2> QED
    BY <2>1 DEF Keeps, Carrying, Finishing, FinishSteps
<1> QED
  BY <1>1, <1>2

LEMMA SetStarts ==
    ASSUME LocalTypes, NEW p \in Procs, NEW step, NEW a, NEW s, Set(p, step, a, s),
           step \notin CarrySteps \/ a \notin Actions
    PROVE  \A q \in Procs : Keeps(q)
<1>1. Keeps(p)
  BY SetOthers DEF Keeps
<1> QED
  BY <1>1, SetOthers

LEMMA ReturnStarts ==
    ASSUME LocalTypes, NEW p \in Procs, Return(p)
    PROVE  \A q \in Procs : Keeps(q)
<1>1. Set(p, Rest(p), "none", "none") /\ "none" \notin Actions
  BY DEF Return, Actions
<1> QED
  BY <1>1, SetStarts

LEMMA FinishStarts ==
    ASSUME LocalTypes, Memory, NEW p \in Procs, Finishing(p), NEW step, GoTo(p, step)
    PROVE  \A q \in Procs : Keeps(q)
<1>1. Set(p, step, op[p], seen[p])
  BY DEF GoTo
<1>2. Carrying(p)
  BY DEF Memory, Fits, Finishing, Carrying, CarrySteps, FinishSteps
<1>3. Keeps(p)
  BY <1>1, <1>2, SetOthers DEF Keeps
<1> QED
  BY <1>1, <1>3, SetOthers

LEMMA GoToStarts ==
    ASSUME LocalTypes, NEW p \in Procs, NEW step, GoTo(p, step),
           step \notin CarrySteps \/ op[p] \notin Actions
    PROVE  \A q \in Procs : Keeps(q)
  BY SetStarts DEF GoTo

(* Every step leaves the row, makes the call ring, or is an action of the  *)
(* table that starts where the table says it may.                          *)
LEMMA StepKinds ==
    ASSUME Typed, [Next]_vars
    PROVE  StaysPut \/ Rings \/ \E p \in Procs, a \in Actions : Acts(p, a)
<1> DEFINE Kind == StaysPut \/ Rings \/ \E p \in Procs, a \in Actions : Acts(p, a)
<1>0. LocalTypes /\ Memory
  BY DEF Typed
<1>1. ASSUME NEW p \in Procs, Create(p) PROVE Kind
  <2>1. Set(p, "publish", "create", status') /\ "create" \notin Actions
    BY <1>1 DEF Create, Begin, Actions
  <2>2. \A q \in Procs : Keeps(q)
    BY <1>0, <2>1, SetStarts
  <2>3. (status = "none" /\ Move("ringing")) \/ UNCHANGED row
    BY <1>1 DEF Create
  <2> QED
    BY <2>2, <2>3 DEF StaysPut, Rings
<1>2. ASSUME NEW p \in Procs, NEW a \in Actions, Decide(p, a) PROVE Kind
  <2>1. Set(p, "update", a, status) /\ "update" \notin CarrySteps /\ UNCHANGED row
    BY <1>2 DEF Decide, Begin, CarrySteps, FinishSteps
  <2> QED
    BY <1>0, <2>1, SetStarts DEF StaysPut
<1>3. ASSUME NEW p \in Procs, NEW type \in SignalTypes, Signal(p, type) PROVE Kind
  <2>1. Set(p, "store", type, status) /\ "store" \notin CarrySteps /\ UNCHANGED row
    BY <1>3 DEF Signal, Begin, CarrySteps, FinishSteps
  <2> QED
    BY <1>0, <2>1, SetStarts DEF StaysPut
<1>4. ASSUME NEW p \in Procs, Invite(p) \/ Ring(p) \/ RingJob(p) PROVE Kind
  <2>1. PICK step \in {"ring", "ringJob", "schedule"} : GoTo(p, step) /\ UNCHANGED row
    BY <1>4 DEF Invite, Ring, RingJob
  <2>2. step \notin CarrySteps
    BY DEF CarrySteps, FinishSteps
  <2> QED
    BY <1>0, <2>1, <2>2, GoToStarts DEF StaysPut
<1>5. ASSUME NEW p \in Procs, Schedule(p) PROVE Kind
  <2>1. Return(p) /\ UNCHANGED row
    BY <1>5 DEF Schedule
  <2> QED
    BY <1>0, <2>1, ReturnStarts DEF StaysPut
<1>6. ASSUME NEW p \in Procs, Update(p) PROVE Kind
  <2>1. op[p] \in Actions /\ seen[p] = Needs(op[p])
    BY <1>0, <1>6 DEF Update, Memory, Fits
  <2>2. CASE status = seen[p]
    <3>1. Move(LeadsTo(op[p])) /\ Set(p, AfterMove(LeadsTo(op[p])), op[p], LeadsTo(op[p]))
      BY <1>6, <2>2 DEF Update
    <3>2. Takes(p, op[p]) /\ \A q \in Procs \ {p} : Keeps(q)
      BY <1>0, <3>1, SetOthers DEF Takes
    <3> QED
      BY <2>1, <2>2, <3>1, <3>2 DEF Acts
  <2>3. CASE status # seen[p]
    <3>1. Return(p) /\ UNCHANGED row
      BY <1>6, <2>3 DEF Update
    <3> QED
      BY <1>0, <3>1, ReturnStarts DEF StaysPut
  <2> QED
    BY <2>2, <2>3
<1>7. ASSUME NEW p \in Procs, WriteMessage(p) \/ Notify(p) \/ Push(p) PROVE Kind
  <2>1. Finishing(p) /\ UNCHANGED row
    BY <1>7 DEF WriteMessage, Notify, Push, Finishing
  <2>2. PICK step \in CarrySteps : GoTo(p, step)
    BY <1>7 DEF WriteMessage, Notify, Push, CarrySteps, FinishSteps
  <2> QED
    BY <1>0, <2>1, <2>2, FinishStarts DEF StaysPut
<1>8. ASSUME NEW p \in Procs, Publish(p) PROVE Kind
  <2>1. UNCHANGED row /\ (GoTo(p, "invite") \/ Return(p))
    BY <1>8 DEF Publish
  <2>2. "invite" \notin CarrySteps
    BY DEF CarrySteps, FinishSteps
  <2> QED
    BY <1>0, <2>1, <2>2, GoToStarts, ReturnStarts DEF StaysPut
<1>9. ASSUME NEW p \in Procs, Store(p) PROVE Kind
  <2>1. UNCHANGED row /\ (GoTo(p, "publish") \/ Return(p))
    BY <1>9 DEF Store
  <2>2. op[p] \notin Actions
    BY <1>0, <1>9 DEF Store, Memory, Fits, SignalTypes, Actions
  <2> QED
    BY <1>0, <2>1, <2>2, GoToStarts, ReturnStarts DEF StaysPut
<1>10. ASSUME NEW p \in Procs, StatementFails(p) PROVE Kind
  <2>1. UNCHANGED row
    BY <1>10 DEF StatementFails
  <2>2. CASE Finishing(p) /\ \E step \in CarrySteps : GoTo(p, step)
    BY <1>0, <2>1, <2>2, FinishStarts DEF StaysPut
  <2>3. CASE Return(p)
    BY <1>0, <2>1, <2>3, ReturnStarts DEF StaysPut
  <2>4. CASE \E step \in {"schedule", "invite"} : GoTo(p, step)
    <3>1. PICK step \in {"schedule", "invite"} : GoTo(p, step)
      BY <2>4
    <3>2. step \notin CarrySteps
      BY DEF CarrySteps, FinishSteps
    <3> QED
      BY <1>0, <2>1, <3>1, <3>2, GoToStarts DEF StaysPut
  <2> QED
    BY <1>10, <2>2, <2>3, <2>4 DEF StatementFails, Finishing, CarrySteps, FinishSteps
<1>11. ASSUME NEW p \in Procs, ResultLost(p) PROVE Kind
  <2>1. CASE status = "none" /\ Move("ringing") /\ Begin(p, "done", "none", "none")
    <3>1. Set(p, "done", "none", "none") /\ "none" \notin Actions
      BY <2>1 DEF Begin, Actions
    <3> QED
      BY <1>0, <2>1, <3>1, SetStarts DEF Rings
  <2>2. CASE /\ pc[p] = "update" /\ status = seen[p]
             /\ Move(LeadsTo(op[p])) /\ Return(p)
    <3>1. op[p] \in Actions /\ seen[p] = Needs(op[p])
      BY <1>0, <2>2 DEF Memory, Fits
    <3>2. \A q \in Procs : Keeps(q)
      BY <1>0, <2>2, ReturnStarts
    <3> QED
      BY <2>2, <3>1, <3>2 DEF Acts
  <2> QED
    BY <1>11, <2>1, <2>2 DEF ResultLost
<1>12. ASSUME NEW p \in {Timer, Sweeper}, status = "ringing", Move("missed"),
              Begin(p, "message", "miss", "missed")
       PROVE  Kind
  <2>1. /\ p \in Procs /\ "miss" \in Actions
        /\ Needs("miss") = "ringing" /\ LeadsTo("miss") = "missed"
        /\ AfterMove("missed") = "message"
    BY DEF Procs, Actions, Needs, LeadsTo, AfterMove, Terminal
  <2>2. Takes(p, "miss") /\ \A q \in Procs \ {p} : Keeps(q)
    BY <1>0, <1>12, <2>1, SetOthers DEF Begin, Takes
  <2> QED
    BY <1>12, <2>1, <2>2 DEF Acts
<1>13. ASSUME UNCHANGED <<row, local>> PROVE Kind
  BY <1>13 DEF StaysPut, Keeps, Carrying, Finishing, FinishSteps, local
<1>14. ASSUME ApiStops PROVE Kind
  <2>1. UNCHANGED row
    BY <1>14 DEF ApiStops
  <2>2. ASSUME NEW q \in Procs PROVE Keeps(q)
    <3>1. \/ pc'[q] = pc[q] /\ op'[q] = op[q] /\ seen'[q] = seen[q]
          \/ op'[q] = "none"
      BY <1>0, <1>14 DEF ApiStops, LocalTypes
    <3> QED
      BY <3>1 DEF Keeps, Carrying, Finishing, FinishSteps, Actions
  <2> QED
    BY <2>1, <2>2 DEF StaysPut
<1>15. ASSUME WorkerStops PROVE Kind
  <2>1. Return(Sweeper) /\ UNCHANGED row /\ Sweeper \in Procs
    BY <1>15 DEF WorkerStops, Procs
  <2> QED
    BY <1>0, <2>1, ReturnStarts DEF StaysPut
<1>16. ASSUME TimerFires PROVE Kind
  <2>1. \/ status = "ringing" /\ Move("missed") /\ Begin(Timer, "message", "miss", "missed")
        \/ UNCHANGED <<row, local>>
    BY <1>16 DEF TimerFires
  <2> QED
    BY <2>1, <1>12, <1>13
<1>17. ASSUME Sweep PROVE Kind
  BY <1>12, <1>17 DEF Sweep
<1>18. ASSUME RingTimeoutPasses \/ UNCHANGED vars PROVE Kind
  <2>1. UNCHANGED <<row, local>>
    BY <1>18 DEF RingTimeoutPasses, vars
  <2> QED
    BY <1>13, <2>1
<1> HIDE DEF Kind
<1>19. Kind
  BY <1>1, <1>2, <1>3, <1>4, <1>5, <1>6, <1>7, <1>8, <1>9, <1>10, <1>11, <1>14,
     <1>15, <1>16, <1>17, <1>18 DEF Next, Arrive, Continue
<1> QED
  BY <1>19 DEF Kind

-----------------------------------------------------------------------------
(* The row.                                                                *)

LEMMA RowStep ==
    ASSUME RowTypes, TimesMatchStatus,
           StaysPut \/ Rings \/ \E p \in Procs, a \in Actions : Acts(p, a)
    PROVE  TimesMatchStatus'
<1>1. CASE StaysPut
  BY <1>1 DEF StaysPut, TimesMatchStatus, row
<1>2. CASE Rings
  BY <1>2 DEF Rings, Move, TimesMatchStatus, Terminal
<1>3. ASSUME NEW p \in Procs, NEW a \in Actions, Acts(p, a) PROVE TimesMatchStatus'
  BY <1>3 DEF Acts, Move, TimesMatchStatus, Needs, LeadsTo, Actions, Terminal
<1> QED
  BY <1>1, <1>2, <1>3

(* started_at and ended_at always agree with the status.                   *)
THEOREM TimesMatchStatusAlways == Spec => []TimesMatchStatus
<1>1. Init => TimesMatchStatus
  BY DEF Init, TimesMatchStatus, Terminal
<1>2. Typed /\ TimesMatchStatus /\ [Next]_vars => TimesMatchStatus'
  BY StepKinds, RowStep DEF Typed
<1> QED
  BY <1>1, <1>2, TypedInvariant, PTL DEF Spec

(* However handlers, timers, sweeper and failures interleave, the status   *)
(* only makes the moves of a call's life.                                  *)
THEOREM LegalMovesAlways == Spec => LegalMoves
<1> DEFINE Legal ==
        \/ status' = status
        \/ status = "none" /\ status' = "ringing"
        \/ status = "ringing" /\ status' \in {"accepted", "rejected", "cancelled", "missed"}
        \/ status = "accepted" /\ status' = "ended"
<1>1. Typed /\ [Next]_vars => [Legal]_vars
  <2> SUFFICES ASSUME Typed, [Next]_vars PROVE Legal
    OBVIOUS
  <2>1. CASE StaysPut
    BY <2>1 DEF StaysPut, row
  <2>2. CASE Rings
    BY <2>2 DEF Rings, Move
  <2>3. ASSUME NEW p \in Procs, NEW a \in Actions, Acts(p, a) PROVE Legal
    BY <2>3 DEF Acts, Move, Needs, LeadsTo, Actions
  <2> QED
    BY <2>1, <2>2, <2>3, StepKinds
<1> QED
  BY <1>1, TypedInvariant, PTL DEF Spec, LegalMoves

-----------------------------------------------------------------------------
(* Who finishes a call.                                                    *)

LEMMA FinisherStep ==
    ASSUME Typed, Typed', OneFinisher, [Next]_vars
    PROVE  OneFinisher'
<1>0. \A p \in Procs : Finishing(p)' => pc'[p] \in FinishSteps /\ op'[p] \in Actions
  BY DEF Typed, Memory, Fits, Finishing, FinishSteps
<1>1. ASSUME NEW p \in Procs, Keeps(p), Finishing(p)'
      PROVE  Finishing(p) /\ seen'[p] = seen[p]
  BY <1>0, <1>1 DEF Keeps, CarrySteps
<1>2. CASE StaysPut
  <2>1. \A p \in Procs : Finishing(p)' => Finishing(p) /\ seen'[p] = seen[p]
    BY <1>1, <1>2 DEF StaysPut
  <2> QED
    BY <1>2, <2>1 DEF StaysPut, OneFinisher, row
<1>3. CASE Rings
  <2>1. \A p \in Procs : ~Finishing(p)
    BY <1>3 DEF Rings, OneFinisher, Terminal
  <2>2. \A p \in Procs : ~Finishing(p)'
    BY <1>1, <1>3, <2>1 DEF Rings
  <2> QED
    BY <2>2 DEF OneFinisher
<1>4. ASSUME NEW p \in Procs, NEW a \in Actions, Acts(p, a) PROVE OneFinisher'
  <2>1. \A q \in Procs : ~Finishing(q)
    BY <1>4, ActionTable DEF Acts, OneFinisher
  <2>2. \A q \in Procs \ {p} : ~Finishing(q)'
    BY <1>1, <1>4, <2>1 DEF Acts
  <2>3. ASSUME Finishing(p)' PROVE status' = seen'[p] /\ status' \in Terminal
    <3>1. Takes(p, a)
      BY <1>1, <1>4, <2>1, <2>3 DEF Acts
    <3>2. LeadsTo(a) \in Terminal
      BY <2>3, <3>1 DEF Takes, AfterMove, Finishing
    <3> QED
      BY <1>4, <3>1, <3>2 DEF Acts, Takes, Move
  <2> QED
    BY <2>2, <2>3 DEF OneFinisher
<1> QED
  BY <1>2, <1>3, <1>4, StepKinds

(* Among the requests, timers and sweeper that race to finish a call, only *)
(* one writes message, notifications and push job, and what it remembers   *)
(* is how the call ended.                                                  *)
THEOREM OneFinisherAlways == Spec => []OneFinisher
<1>1. Init => OneFinisher
  BY DEF Init, OneFinisher, Finishing
<1>2. Typed /\ Typed' /\ OneFinisher /\ [Next]_vars => OneFinisher'
  BY FinisherStep
<1> QED
  BY <1>1, <1>2, TypedInvariant, PTL DEF Spec

-----------------------------------------------------------------------------
(* What the rest of the system is told.                                    *)

(* The tables that tell of a call change only by the process that carries  *)
(* out the statement, and the row stays.                                   *)
LEMMA MessageWriter ==
    ASSUME [Next]_vars
    PROVE  \/ message' = message
           \/ /\ UNCHANGED row
              /\ \E p \in Procs : Finishing(p) /\ message' = OutcomeOf(seen[p])
<1>1. ASSUME NEW p \in Procs, WriteMessage(p)
      PROVE  Finishing(p) /\ UNCHANGED row /\ message' \in {message, OutcomeOf(seen[p])}
  BY <1>1 DEF WriteMessage, Finishing
<1>2. CASE \E p \in Procs : WriteMessage(p)
  BY <1>1, <1>2
<1>3. CASE ~\E p \in Procs : WriteMessage(p)
  <2>1. message' = message
    BY <1>3 DEF Next, Arrive, Continue, Create, Decide, Signal, Invite, Ring, RingJob,
       Schedule, Update, Notify, Push, Publish, Store, StatementFails, ResultLost,
       RingTimeoutPasses, TimerFires, Sweep, ApiStops, WorkerStops, vars
  <2> QED
    BY <2>1
<1> QED
  BY <1>2, <1>3

LEMMA WireWriter ==
    ASSUME [Next]_vars
    PROVE  \/ wire' = wire
           \/ /\ UNCHANGED row
              /\ \E p \in Procs : pc[p] = "publish" /\ wire' = wire \cup {EventOf(op[p])}
<1>1. ASSUME NEW p \in Procs, Publish(p)
      PROVE  /\ pc[p] = "publish" /\ UNCHANGED row
             /\ wire' = wire \/ wire' = wire \cup {EventOf(op[p])}
  BY <1>1 DEF Publish
<1>2. CASE \E p \in Procs : Publish(p)
  BY <1>1, <1>2
<1>3. CASE ~\E p \in Procs : Publish(p)
  <2>1. wire' = wire
    BY <1>3 DEF Next, Arrive, Continue, Create, Decide, Signal, Invite, Ring, RingJob,
       Schedule, Update, WriteMessage, Notify, Push, Store, StatementFails, ResultLost,
       RingTimeoutPasses, TimerFires, Sweep, ApiStops, WorkerStops, vars
  <2> QED
    BY <2>1
<1> QED
  BY <1>2, <1>3

LEMMA MissedJobWriter ==
    ASSUME [Next]_vars
    PROVE  \/ missedJobs' = missedJobs
           \/ UNCHANGED row /\ \E p \in Procs : pc[p] = "push"
<1>1. ASSUME NEW p \in Procs, Push(p) PROVE pc[p] = "push" /\ UNCHANGED row
  BY <1>1 DEF Push
<1>2. CASE \E p \in Procs : Push(p)
  BY <1>1, <1>2
<1>3. CASE ~\E p \in Procs : Push(p)
  <2>1. missedJobs' = missedJobs
    BY <1>3 DEF Next, Arrive, Continue, Create, Decide, Signal, Invite, Ring, RingJob,
       Schedule, Update, WriteMessage, Notify, Publish, Store, StatementFails, ResultLost,
       RingTimeoutPasses, TimerFires, Sweep, ApiStops, WorkerStops, vars, inbox
  <2> QED
    BY <2>1
<1> QED
  BY <1>2, <1>3

(* A call that is over keeps its status.                                   *)
LEMMA OverIsOver ==
    ASSUME Typed, [Next]_vars, status \in Terminal
    PROVE  UNCHANGED row
<1>1. ~Rings
  BY DEF Rings, Terminal
<1>2. ~\E p \in Procs, a \in Actions : Acts(p, a)
  BY ActionTable DEF Acts
<1> QED
  BY <1>1, <1>2, StepKinds DEF StaysPut

(* The call message of the channel is there only for a call that is over   *)
(* and says how it ended, whoever wrote it and however late.               *)
THEOREM MessageTellsOutcomeAlways == Spec => []MessageTellsOutcome
<1>1. Init => MessageTellsOutcome
  BY DEF Init, MessageTellsOutcome
<1>2. ASSUME Typed, OneFinisher, MessageTellsOutcome, [Next]_vars
      PROVE  MessageTellsOutcome'
  <2>1. CASE message' = message
    <3>1. CASE message = "none"
      BY <2>1, <3>1 DEF MessageTellsOutcome
    <3>2. CASE message # "none"
      <4>1. status \in Terminal
        BY <1>2, <3>2 DEF MessageTellsOutcome
      <4>2. status' = status
        BY <1>2, <4>1, OverIsOver DEF row
      <4> QED
        BY <1>2, <2>1, <4>2 DEF MessageTellsOutcome
    <3> QED
      BY <3>1, <3>2
  <2>2. ASSUME UNCHANGED row, NEW p \in Procs, Finishing(p), message' = OutcomeOf(seen[p])
        PROVE  MessageTellsOutcome'
    <3>1. status = seen[p] /\ status \in Terminal /\ status' = status
      BY <1>2, <2>2 DEF OneFinisher, row
    <3> QED
      BY <2>2, <3>1 DEF MessageTellsOutcome, OutcomeOf
  <2> QED
    BY <1>2, <2>1, <2>2, MessageWriter
<1> QED
  BY <1>1, <1>2, TypedInvariant, OneFinisherAlways, PTL DEF Spec

(* What a process that carries out an action remembers is still true when  *)
(* it publishes: only an accepted call may have moved on meanwhile.        *)
Carried ==
    \A p \in Procs : Carrying(p) =>
        /\ seen[p] = LeadsTo(op[p])
        /\ status = LeadsTo(op[p]) \/ (op[p] = "accept" /\ started)

LEMMA CarriedStep ==
    ASSUME Typed, TimesMatchStatus, Carried, [Next]_vars
    PROVE  Carried'
<1>0. ASSUME NEW q \in Procs, Carrying(q)', Keeps(q)
      PROVE  Carrying(q) /\ op'[q] = op[q] /\ seen'[q] = seen[q]
  BY <1>0 DEF Carrying, Keeps
<1>1. CASE StaysPut
  <2>1. \A q \in Procs : Carrying(q)' => Carrying(q) /\ op'[q] = op[q] /\ seen'[q] = seen[q]
    BY <1>0, <1>1 DEF StaysPut
  <2> QED
    BY <1>1, <2>1 DEF StaysPut, Carried, row
<1>2. CASE Rings
  <2>1. ASSUME NEW q \in Procs, Carrying(q) PROVE FALSE
    <3>1. op[q] \in Actions
      BY <2>1 DEF Carrying
    <3>2. LeadsTo(op[q]) # "none"
      BY <3>1, ActionTable DEF Terminal
    <3>3. status = "none" /\ ~started
      BY <1>2 DEF Rings, TimesMatchStatus
    <3> QED
      BY <2>1, <3>2, <3>3 DEF Carried
  <2> QED
    BY <1>0, <1>2, <2>1 DEF Rings, Carried
<1>3. ASSUME NEW p \in Procs, NEW a \in Actions, Acts(p, a) PROVE Carried'
  <2>1. ASSUME NEW q \in Procs, Carrying(q)', Keeps(q)
        PROVE  seen'[q] = LeadsTo(op'[q]) /\ op'[q] = "accept" /\ started'
    <3>1. /\ Carrying(q) /\ op'[q] = op[q] /\ seen'[q] = seen[q]
          /\ op[q] \in Actions /\ seen[q] = LeadsTo(op[q])
      BY <1>0, <2>1 DEF Carried, Carrying
    <3>2. op[q] = "accept" /\ started
      <4>1. CASE status = LeadsTo(op[q])
        <5>1. status \in {"ringing", "accepted"}
          BY <1>3, ActionTable DEF Acts
        <5>2. op[q] = "accept" /\ status = "accepted"
          BY <3>1, <4>1, <5>1 DEF LeadsTo, Actions
        <5> QED
          BY <5>2 DEF TimesMatchStatus
      <4> QED
        BY <3>1, <4>1 DEF Carried
    <3>3. started'
      BY <1>3, <3>2 DEF Acts, Move
    <3> QED
      BY <3>1, <3>2, <3>3
  <2>2. CASE Takes(p, a)
    <3>1. seen'[p] = LeadsTo(op'[p]) /\ status' = LeadsTo(op'[p])
      BY <1>3, <2>2 DEF Acts, Takes, Move
    <3> QED
      BY <1>3, <2>1, <3>1 DEF Acts, Carried
  <2>3. CASE Keeps(p)
    BY <1>3, <2>1, <2>3 DEF Acts, Carried
  <2> QED
    BY <1>3, <2>2, <2>3 DEF Acts
<1> QED
  BY <1>1, <1>2, <1>3, StepKinds

LEMMA CarriedAlways == Spec => []Carried
<1>1. Init => Carried
  BY DEF Init, Carried, Carrying, CarrySteps, FinishSteps
<1>2. Typed /\ TimesMatchStatus /\ Carried /\ [Next]_vars => Carried'
  BY CarriedStep
<1> QED
  BY <1>1, <1>2, TypedInvariant, TimesMatchStatusAlways, PTL DEF Spec

(* The events of a call and its columns: once an event is out, the row     *)
(* agrees with it for good.                                                *)
EventsAgree ==
    /\ \A a \in Actions : EventOf(a) \in wire => status = LeadsTo(a) \/ a = "accept"
    /\ "CallAccepted" \in wire => started

MissedAgrees == missedJobs > 0 => ~started /\ status \in {"cancelled", "missed"}

(* No two actions announce the same event, and nothing else announces one. *)
LEMMA EventsDiffer ==
    ASSUME NEW a \in Actions, NEW b \in Ops, EventOf(a) = EventOf(b)
    PROVE  a = b
  BY DEF EventOf, Actions, Ops, SignalTypes

LEMMA EventsStep ==
    ASSUME Typed, TimesMatchStatus, Carried, EventsAgree, [Next]_vars
    PROVE  EventsAgree'
<1>1. CASE wire' = wire
  <2>1. CASE StaysPut
    BY <1>1, <2>1 DEF StaysPut, EventsAgree, row
  <2>2. CASE Rings
    <3>1. ASSUME NEW a \in Actions, EventOf(a) \in wire PROVE FALSE
      <4>1. status = "none" /\ ~started
        BY <2>2 DEF Rings, TimesMatchStatus
      <4>2. status # LeadsTo(a) /\ EventOf("accept") = "CallAccepted"
        BY <4>1, ActionTable DEF Terminal, EventOf
      <4> QED
        BY <3>1, <4>1, <4>2 DEF EventsAgree
    <3>2. "CallAccepted" \notin wire
      BY <3>1 DEF EventOf, Actions
    <3> QED
      BY <1>1, <3>1, <3>2 DEF EventsAgree, EventOf
  <2>3. ASSUME NEW p \in Procs, NEW b \in Actions, Acts(p, b) PROVE EventsAgree'
    <3>1. status \in {"ringing", "accepted"}
      BY <2>3, ActionTable DEF Acts
    <3>2. ASSUME NEW a \in Actions, EventOf(a) \in wire PROVE a = "accept"
      BY <3>1, <3>2 DEF EventsAgree, LeadsTo, Actions
    <3>3. started => started'
      BY <2>3 DEF Acts, Move
    <3> QED
      BY <1>1, <3>2, <3>3 DEF EventsAgree, EventOf
  <2> QED
    BY <2>1, <2>2, <2>3, StepKinds
<1>2. ASSUME UNCHANGED row, NEW p \in Procs, pc[p] = "publish",
             wire' = wire \cup {EventOf(op[p])}
      PROVE  EventsAgree'
  <2>1. status' = status /\ started' = started /\ op[p] \in Ops
    BY <1>2 DEF row, Typed, LocalTypes
  <2>2. ASSUME NEW a \in Actions, EventOf(a) = EventOf(op[p])
        PROVE  /\ status = LeadsTo(a) \/ a = "accept"
               /\ a = "accept" => started
    <3>1. a = op[p]
      BY <2>1, <2>2, EventsDiffer
    <3>2. Carrying(p)
      BY <1>2, <3>1 DEF Carrying, CarrySteps
    <3>3. status = LeadsTo(a) \/ (a = "accept" /\ started)
      BY <3>1, <3>2 DEF Carried
    <3> QED
      BY <3>3 DEF LeadsTo, TimesMatchStatus
  <2>3. "CallAccepted" = EventOf("accept") /\ "accept" \in Actions
    BY DEF EventOf, Actions
  <2>4. \A a \in Actions : EventOf(a) \in wire' => status' = LeadsTo(a) \/ a = "accept"
    BY <1>2, <2>1, <2>2 DEF EventsAgree
  <2>5. "CallAccepted" \in wire' => started'
    BY <1>2, <2>1, <2>2, <2>3 DEF EventsAgree
  <2>6. \A a \in Actions : EventOf(a)' = EventOf(a) /\ LeadsTo(a)' = LeadsTo(a)
    BY DEF EventOf, LeadsTo
  <2> QED
    BY <2>4, <2>5, <2>6 DEF EventsAgree
<1> QED
  BY <1>1, <1>2, WireWriter

LEMMA MissedStep ==
    ASSUME Typed, TimesMatchStatus, OneFinisher, MissedAgrees, [Next]_vars
    PROVE  MissedAgrees'
<1>1. CASE missedJobs > 0 /\ missedJobs' = missedJobs
  <2>1. ~started /\ status \in {"cancelled", "missed"}
    BY <1>1 DEF MissedAgrees
  <2>2. UNCHANGED row
    BY <2>1, OverIsOver DEF Terminal
  <2> QED
    BY <2>1, <2>2 DEF MissedAgrees, row
<1>2. CASE ~(missedJobs > 0) /\ missedJobs' = missedJobs
  BY <1>2 DEF MissedAgrees
<1>3. ASSUME UNCHANGED row, NEW p \in Procs, pc[p] = "push" PROVE MissedAgrees'
  <2>1. Finishing(p) /\ seen[p] \in {"cancelled", "missed"}
    BY <1>3 DEF Finishing, Typed, Memory, Fits
  <2>2. status \in {"cancelled", "missed"}
    BY <2>1 DEF OneFinisher
  <2>3. ~started
    BY <2>2 DEF TimesMatchStatus
  <2> QED
    BY <1>3, <2>2, <2>3 DEF MissedAgrees, row
<1> QED
  BY <1>1, <1>2, <1>3, MissedJobWriter

(* Clients never hear two different outcomes of a call, none that the row  *)
(* does not have, and the callee of an answered call no "missed".          *)
THEOREM AnnouncedOutcomeIsRealAlways == Spec => []AnnouncedOutcomeIsReal
<1>1. Init => EventsAgree /\ MissedAgrees
  BY DEF Init, EventsAgree, MissedAgrees
<1>2. Typed /\ TimesMatchStatus /\ Carried /\ EventsAgree /\ [Next]_vars => EventsAgree'
  BY EventsStep
<1>3. Typed /\ TimesMatchStatus /\ OneFinisher /\ MissedAgrees /\ [Next]_vars => MissedAgrees'
  BY MissedStep
<1>4. EventsAgree /\ MissedAgrees => AnnouncedOutcomeIsReal
  BY DEF EventsAgree, MissedAgrees, AnnouncedOutcomeIsReal
<1> QED
  BY <1>1, <1>2, <1>3, <1>4, TypedInvariant, TimesMatchStatusAlways, OneFinisherAlways,
     CarriedAlways, PTL DEF Spec

(* What the run of the small instance checks, for any number of requests.  *)
THEOREM OneOutcomeAlways == Spec => []OneOutcome
BY TimesMatchStatusAlways, OneFinisherAlways, MessageTellsOutcomeAlways,
   AnnouncedOutcomeIsRealAlways, PTL DEF OneOutcome
-----------------------------------------------------------------------------
(* Ringing.                                                                *)

(* p has the notifications of a call that is over still to rewrite.        *)
Rewrites(p) == pc[p] \in {"message", "notify"}

(* While nothing has failed and no invitation came late, a call that is    *)
(* over rings only as long as somebody is on the way to stop it.           *)
SomebodyStopsIt ==
    status \in Terminal /\ faults = 0 /\ ~late =>
        ringRows = 0 \/ \E p \in Procs : Rewrites(p)

(* A step of p that leaves the rows alone and is not p's rewriting takes   *)
(* nobody off that way.                                                    *)
LEMMA OthersStay ==
    ASSUME LocalTypes, SomebodyStopsIt, NEW p \in Procs, ~Rewrites(p),
           NEW step, NEW a, NEW s, Set(p, step, a, s),
           status' = status, UNCHANGED <<ringRows, late, faults>>
    PROVE  SomebodyStopsIt'
<1>1. \A q \in Procs : Rewrites(q) => Rewrites(q)'
  BY DEF LocalTypes, Set, Rewrites
<1> QED
  BY <1>1 DEF SomebodyStopsIt

(* The step that ends a call puts its finisher on that way.                *)
LEMMA EndStarts ==
    ASSUME LocalTypes, NEW p \in Procs, NEW a, NEW s, Move(s), Set(p, AfterMove(s), a, s)
    PROVE  SomebodyStopsIt'
<1>1. status' = s /\ pc'[p] = AfterMove(s)
  BY DEF LocalTypes, Move, Set
<1>2. s \in Terminal => Rewrites(p)'
  BY <1>1 DEF AfterMove, Rewrites
<1> QED
  BY <1>1, <1>2 DEF SomebodyStopsIt

LEMMA FaultExcuses == ASSUME faults \in Nat, Fault PROVE SomebodyStopsIt'
  BY DEF Fault, SomebodyStopsIt

LEMMA StopStep ==
    ASSUME Typed, SomebodyStopsIt, [Next]_vars
    PROVE  SomebodyStopsIt'
<1> USE DEF Typed
<1>0. faults \in Nat /\ ringRows \in Nat
  BY FaultAssumption DEF TableTypes
<1>1. ASSUME NEW p \in Procs, Create(p) PROVE SomebodyStopsIt'
  <2>1. CASE status = "none"
    BY <1>1, <2>1 DEF Create, Move, SomebodyStopsIt, Terminal
  <2>2. CASE status # "none"
    BY <1>1, <2>2, OthersStay DEF Create, Begin, Rewrites, row, inbox
  <2> QED
    BY <2>1, <2>2
<1>2. ASSUME NEW p \in Procs, NEW a \in Actions, Decide(p, a) PROVE SomebodyStopsIt'
  BY <1>2, OthersStay DEF Decide, Begin, Rewrites, row, inbox
<1>3. ASSUME NEW p \in Procs, NEW type \in SignalTypes, Signal(p, type) PROVE SomebodyStopsIt'
  BY <1>3, OthersStay DEF Signal, Begin, Rewrites, row, inbox
<1>4. ASSUME NEW p \in Procs,
             Invite(p) \/ RingJob(p) \/ Schedule(p) \/ Push(p) \/ Publish(p) \/ Store(p)
      PROVE  SomebodyStopsIt'
  <2>1. ~Rewrites(p) /\ status' = status /\ UNCHANGED <<ringRows, late, faults>>
    BY <1>4 DEF Invite, RingJob, Schedule, Push, Publish, Store, Rewrites, row, inbox
  <2>2. \E step, a, s : Set(p, step, a, s)
    BY <1>4 DEF Invite, RingJob, Schedule, Push, Publish, Store, GoTo, Return
  <2> QED
    BY <2>1, <2>2, OthersStay
<1>5. ASSUME NEW p \in Procs, Ring(p) PROVE SomebodyStopsIt'
  BY <1>5 DEF Ring, SomebodyStopsIt, row
<1>6. ASSUME NEW p \in Procs, Update(p) PROVE SomebodyStopsIt'
  <2>1. CASE status = seen[p]
    BY <1>6, <2>1, EndStarts DEF Update
  <2>2. CASE status # seen[p]
    BY <1>6, <2>2, OthersStay DEF Update, Return, Rewrites, row, inbox
  <2> QED
    BY <2>1, <2>2
<1>7. ASSUME NEW p \in Procs, WriteMessage(p) PROVE SomebodyStopsIt'
  <2>1. Rewrites(p)'
    BY <1>7 DEF WriteMessage, GoTo, Set, LocalTypes, Rewrites
  <2> QED
    BY <2>1 DEF SomebodyStopsIt
<1>8. ASSUME NEW p \in Procs, Notify(p) PROVE SomebodyStopsIt'
  BY <1>8 DEF Notify, SomebodyStopsIt
<1>9. CASE RingTimeoutPasses
  BY <1>9 DEF RingTimeoutPasses, SomebodyStopsIt, Rewrites, row, local, inbox
<1>10. CASE TimerFires \/ Sweep
  <2>1. CASE UNCHANGED <<status, pc, ringRows, late, faults>>
    BY <2>1 DEF SomebodyStopsIt, Rewrites
  <2>2. ASSUME NEW p \in Procs, Move("missed"), Begin(p, "message", "miss", "missed")
        PROVE  SomebodyStopsIt'
    BY <2>2, EndStarts DEF Begin, AfterMove, Terminal
  <2> QED
    BY <1>10, <2>1, <2>2 DEF TimerFires, Sweep, Procs, row, local, inbox
<1>11. ASSUME NEW p \in Procs, StatementFails(p) \/ ResultLost(p) PROVE SomebodyStopsIt'
  BY <1>0, <1>11, FaultExcuses DEF StatementFails, ResultLost
<1>12. CASE ApiStops \/ WorkerStops
  BY <1>0, <1>12, FaultExcuses DEF ApiStops, WorkerStops
<1>13. CASE UNCHANGED vars
  BY <1>13 DEF SomebodyStopsIt, Rewrites, vars, row, local, inbox
<1> QED
  BY <1>1, <1>2, <1>3, <1>4, <1>5, <1>6, <1>7, <1>8, <1>9, <1>10, <1>11, <1>12, <1>13
  DEF Next, Arrive, Continue

(* When everybody is done with a call that is over, nothing of it rings,   *)
(* however many requests, timers and sweeps it met, unless a statement was *)
(* lost or an invitation came after the end.                               *)
THEOREM RingingStopsAlways == Spec => []RingingStops
<1>1. Init => SomebodyStopsIt
  BY DEF Init, SomebodyStopsIt
<1>2. Typed /\ SomebodyStopsIt /\ [Next]_vars => SomebodyStopsIt'
  BY StopStep
<1>3. SomebodyStopsIt => RingingStops
  BY DEF SomebodyStopsIt, RingingStops, Rewrites
<1> QED
  BY <1>1, <1>2, <1>3, TypedInvariant, PTL DEF Spec
=============================================================================
