------------------------------ MODULE JobsProofs ------------------------------
(***************************************************************************)
(* What holds of the jobs of a worker, for every set of jobs, workers,     *)
(* requests and devices, every batch size and number of attempts.  The     *)
(* first part is about ScheduledJobs, the second about PushJobs.           *)
(***************************************************************************)
EXTENDS ScheduledJobs, PushJobs, FiniteSetTheorems, TLAPS

-----------------------------------------------------------------------------
(* Scheduled jobs: the inductive invariant.                                *)

(* The lock of a job that was not lost belongs to whoever has it in hand.  *)
LocksAreHeld ==
    \A j \in Jobs \ unlocked : \A w \in Workers : j \in InHand(hand[w]) =>
        Exists(j) /\ job[j].lock = w /\ job[j].fresh = TRUE

-----------------------------------------------------------------------------
(* Scheduled jobs: types.                                                  *)

(* What may be written to a row.                                           *)
LEMMA SavedType == \A status \in Statuses, schedule \in Schedules :
                      Saved(status, schedule) \in Rows
  BY DEF Saved, Rows, Statuses, Schedules

LEMMA LockedType ==
    ASSUME TypeOK, NEW w \in Actors, NEW picked \in SUBSET Jobs, \A j \in picked : Exists(j)
    PROVE  Locked(picked, w) \in [Jobs -> Rows \cup {NoJob, Gone}]
<1>1. ASSUME NEW j \in picked PROVE [job[j] EXCEPT !.lock = w, !.fresh = TRUE] \in Rows
  <2>1. job[j] \in Rows
    BY DEF TypeOK, Exists
  <2> QED
    BY <2>1 DEF Rows
<1> QED
  BY <1>1 DEF Locked, TypeOK

LEMMA RescheduledType ==
    ASSUME TypeOK, NEW j \in Jobs, NEW next \in {"none", "later", "due"}
    PROVE  /\ Rescheduled(j, next) \in [Jobs -> Rows \cup {NoJob, Gone}]
           /\ \A k \in Jobs \ {j} : Rescheduled(j, next)[k] = job[k]
           /\ ~Exists(j) => Rescheduled(j, next)[j] = job[j]
           /\ Exists(j) => /\ Rescheduled(j, next)[j].next = next
                           /\ Rescheduled(j, next)[j].status = job[j].status
                           /\ Rescheduled(j, next)[j].schedule = job[j].schedule
<1>1. CASE Exists(j)
  <2>1. job[j] \in Rows
    BY <1>1 DEF TypeOK, Exists
  <2>2. Rescheduled(j, next) = [job EXCEPT ![j] = [job[j] EXCEPT !.next = next,
                                                     !.lock = NoActor, !.fresh = FALSE]]
    BY <1>1 DEF Rescheduled, TypeOK
  <2>3. [job[j] EXCEPT !.next = next, !.lock = NoActor, !.fresh = FALSE] \in Rows
    BY <2>1 DEF Rows
  <2> QED
    BY <1>1, <2>1, <2>2, <2>3 DEF TypeOK, Rows
<1>2. CASE ~Exists(j)
  BY <1>2 DEF Rescheduled, TypeOK
<1> QED
  BY <1>1, <1>2

LEMMA CopyType == ASSUME TypeOK, NEW j \in Jobs, Exists(j) PROVE CopyOf(j) \in Copies
<1>1. job[j] \in Rows
  BY DEF TypeOK, Exists
<1> QED
  BY <1>1 DEF CopyOf, Copies, Rows

Hands == [batch : SUBSET Copies, run : Copies \cup {NoCopy}]

(* The copy an actor runs names a job.                                     *)
LEMMA NextType ==
    ASSUME TypeOK, NEW a \in Actors, hand[a].run # NoCopy
    PROVE  /\ hand[a].run \in Copies /\ hand[a].run.id \in Jobs
           /\ NextFor(hand[a].run.status, hand[a].run.schedule) \subseteq {"none", "later"}
<1>1. hand[a].run \in Copies
  BY DEF TypeOK
<1> QED
  BY <1>1 DEF Copies, NextFor, NextRun, Schedules

LEMMA TypeStep == ASSUME TypeOK, Next PROVE TypeOK'
<1> USE JobBounds
<1>1. ASSUME NEW lost \in SUBSET Jobs, LockLost(lost) PROVE unlocked' \in SUBSET Jobs
  BY <1>1 DEF LockLost, TypeOK
<1>2. ASSUME NEW j \in Jobs, Create(j) PROVE TypeOK'
  <2>1. job' \in [Jobs -> Rows \cup {NoJob, Gone}]
    BY <1>2, SavedType DEF Create, TypeOK
  <2> QED
    BY <1>2, <2>1 DEF Create, TypeOK
<1>3. ASSUME NEW j \in Jobs, Update(j) \/ Delete(j) PROVE TypeOK'
  <2>1. job' \in [Jobs -> Rows \cup {NoJob, Gone}]
    BY <1>3, SavedType DEF Update, Delete, TypeOK
  <2>2. edits' \in 0..MaxEdits
    <3>1. edits < MaxEdits /\ edits' = edits + 1
      BY <1>3 DEF Update, Delete, Edited
    <3> QED
      BY <3>1 DEF TypeOK
  <2>3. unlocked' \in SUBSET Jobs
    BY <1>1, <1>3 DEF Update, Delete
  <2>4. overtaken' \in SUBSET Jobs /\ UNCHANGED <<runNows, table, hand, faults>>
    BY <1>3 DEF Update, Delete, TypeOK
  <2> QED
    BY <2>1, <2>2, <2>3, <2>4 DEF TypeOK
<1>4. ASSUME NEW j \in Jobs, BecomesDue(j) \/ LockExpires(j) PROVE TypeOK'
  <2>1. job[j] \in Rows
    BY <1>4 DEF BecomesDue, LockExpires, Exists, TypeOK
  <2>2. [job[j] EXCEPT !.next = "due"] \in Rows /\ [job[j] EXCEPT !.fresh = FALSE] \in Rows
    BY <2>1 DEF Rows
  <2>3. job' \in [Jobs -> Rows \cup {NoJob, Gone}]
    BY <1>4, <2>2 DEF BecomesDue, LockExpires, TypeOK
  <2>4. unlocked' \in SUBSET Jobs
    BY <1>1, <1>4 DEF BecomesDue, LockExpires, TypeOK
  <2> QED
    BY <1>4, <2>3, <2>4 DEF BecomesDue, LockExpires, TypeOK
<1>5. ASSUME NEW w \in Workers, ClaimDue(w) PROVE TypeOK'
  <2>1. PICK picked \in SUBSET Claimable :
           /\ job' = Locked(picked, w)
           /\ hand' = [hand EXCEPT ![w].batch = {CopyOf(j) : j \in picked}]
    BY <1>5 DEF ClaimDue
  <2>2. \A j \in picked : j \in Jobs /\ Exists(j)
    BY DEF Claimable, Due
  <2>3. job' \in [Jobs -> Rows \cup {NoJob, Gone}]
    BY <2>1, <2>2, LockedType DEF Actors
  <2>4. {CopyOf(j) : j \in picked} \in SUBSET Copies
    BY <2>2, CopyType
  <2>5. hand' \in [Actors -> Hands]
    BY <2>1, <2>4 DEF TypeOK, Hands
  <2> QED
    BY <1>5, <2>3, <2>5 DEF ClaimDue, TypeOK, Hands
<1>6. ASSUME NEW q \in Requests, RunNow(q) PROVE TypeOK'
  <2>1. PICK j \in Jobs : Exists(j) /\ hand' = [hand EXCEPT ![q].batch = {CopyOf(j)}]
    BY <1>6 DEF RunNow
  <2>2. hand' \in [Actors -> Hands]
    <3>1. hand \in [Actors -> Hands]
      BY DEF TypeOK, Hands
    <3>2. {CopyOf(j)} \in SUBSET Copies
      BY <2>1, CopyType
    <3>3. [hand[q] EXCEPT !.batch = {CopyOf(j)}] \in Hands
      BY <3>1, <3>2 DEF Hands, Actors
    <3>4. hand' = [hand EXCEPT ![q] = [hand[q] EXCEPT !.batch = {CopyOf(j)}]]
      BY <2>1
    <3> QED
      BY <3>1, <3>3, <3>4
  <2>3. runNows' \in 0..MaxRunNow
    BY <1>6 DEF RunNow, TypeOK
  <2> QED
    BY <1>6, <2>2, <2>3 DEF RunNow, TypeOK, Hands
<1>7. ASSUME NEW a \in Actors, Abandon(a), UNCHANGED <<edits, runNows>>, faults' \in 0..MaxFaults
      PROVE  TypeOK'
  <2>1. Idle \in Hands
    BY DEF Idle, Hands
  <2>2. hand' \in [Actors -> Hands]
    BY <1>7, <2>1 DEF Abandon, TypeOK, Hands
  <2>3. unlocked' \in SUBSET Jobs
    BY <1>1, <1>7 DEF Abandon
  <2> QED
    BY <1>7, <2>2, <2>3 DEF Abandon, TypeOK, Hands
<1>8. ASSUME NEW a \in Actors, StartRun(a) PROVE TypeOK'
  <2>1. PICK c \in hand[a].batch :
           IF Exists(c.id)
           THEN /\ hand' = [hand EXCEPT ![a] = [batch |-> @.batch \ {c}, run |-> c]]
                /\ UNCHANGED <<table, job, overtaken, unlocked>>
           ELSE Abandon(a)
    BY <1>8 DEF StartRun
  <2>2. UNCHANGED <<faults, edits, runNows>>
    BY <1>8 DEF StartRun
  <2>3. CASE Exists(c.id)
    <3>1. [batch |-> hand[a].batch \ {c}, run |-> c] \in Hands
      BY DEF TypeOK, Hands
    <3>2. hand' \in [Actors -> Hands]
      BY <2>1, <2>3, <3>1 DEF TypeOK, Hands
    <3> QED
      BY <2>1, <2>2, <2>3, <3>2 DEF TypeOK, Hands
  <2>4. CASE ~Exists(c.id)
    BY <1>7, <2>1, <2>2, <2>4 DEF TypeOK
  <2> QED
    BY <2>3, <2>4
<1>9. ASSUME NEW a \in Actors, FinishRun(a) PROVE TypeOK'
  <2> DEFINE c == hand[a].run
  <2>1. c # NoCopy /\ c \in Copies /\ c.id \in Jobs
    BY <1>9, NextType DEF FinishRun
  <2>2. job' \in [Jobs -> Rows \cup {NoJob, Gone}]
    <3>1. PICK next \in NextFor(c.status, c.schedule) : job' = Rescheduled(c.id, next)
      BY <1>9 DEF FinishRun
    <3>2. next \in {"none", "later", "due"}
      BY <1>9, <2>1, NextType
    <3> QED
      BY <2>1, <3>1, <3>2, RescheduledType
  <2>3. hand' \in [Actors -> Hands]
    BY <1>9 DEF FinishRun, TypeOK, Hands
  <2>4. unlocked' \in SUBSET Jobs
    BY <1>1, <1>9, <2>1 DEF FinishRun
  <2>5. overtaken' \in SUBSET Jobs
    BY <1>9, <2>1 DEF FinishRun, TypeOK
  <2> QED
    BY <1>9, <2>2, <2>3, <2>4, <2>5 DEF FinishRun, TypeOK, Hands
<1>10. ASSUME NEW a \in Actors, StatementFails(a) PROVE TypeOK'
  <2>1. faults' \in 0..MaxFaults
    BY <1>10 DEF StatementFails, Fault, TypeOK
  <2> QED
    BY <1>7, <1>10, <2>1 DEF StatementFails
<1> QED
  BY <1>2, <1>3, <1>4, <1>5, <1>6, <1>8, <1>9, <1>10 DEF Next, ActorStep

(* Every variable of the scheduled jobs keeps its type.                    *)
THEOREM TypeCorrect == Spec => []TypeOK
<1>1. Init => TypeOK
  BY JobBounds DEF Init, TableInit, TypeOK, Idle
<1>2. TypeOK /\ [Next]_vars => TypeOK'
  BY TypeStep DEF vars, TypeOK
<1> QED
  BY <1>1, <1>2, PTL DEF Spec

-----------------------------------------------------------------------------
(* Scheduled jobs: locks.                                                  *)

(* A step that loses some locks, touches no other and takes no job.        *)
LEMMA LostLocks ==
    ASSUME LocksAreHeld, NEW lost \in SUBSET Jobs, LockLost(lost),
           \A w \in Workers : InHand(hand'[w]) \subseteq InHand(hand[w]),
           \A j \in Jobs \ lost : job'[j] = job[j]
    PROVE  LocksAreHeld'
<1> SUFFICES ASSUME NEW j \in Jobs \ unlocked', NEW w \in Workers, j \in InHand(hand'[w])
             PROVE  (Exists(j) /\ job[j].lock = w /\ job[j].fresh = TRUE)'
  BY DEF LocksAreHeld, InHand
<1>1. j \notin unlocked /\ j \notin lost
  BY DEF LockLost
<1>2. j \in InHand(hand[w]) /\ job'[j] = job[j]
  BY <1>1
<1> QED
  BY <1>1, <1>2 DEF LocksAreHeld, Exists

(* What an actor has in hand, as its hand changes.                         *)
LEMMA HandsShrink ==
    ASSUME TypeOK, NEW a \in Actors, NEW h \in Hands, hand' = [hand EXCEPT ![a] = h],
           InHand(h) \subseteq InHand(hand[a])
    PROVE  \A w \in Workers : InHand(hand'[w]) \subseteq InHand(hand[w])
<1>1. \A w \in Workers : hand'[w] = IF w = a THEN h ELSE hand[w]
  BY DEF TypeOK, Actors
<1> QED
  BY <1>1

LEMMA LocksStep == ASSUME TypeOK, LocksAreHeld, Next PROVE LocksAreHeld'
<1> USE NamesAssumption
<1>1. ASSUME NEW j \in Jobs, Create(j) PROVE LocksAreHeld'
  <2>1. job[j] = NoJob /\ (\A k \in Jobs \ {j} : job'[k] = job[k]) /\ UNCHANGED <<hand, unlocked>>
    BY <1>1 DEF Create, TypeOK
  <2>2. \A k \in Jobs \ unlocked : \A w \in Workers : k \in InHand(hand[w]) => k # j
    BY <2>1 DEF LocksAreHeld, Exists
  <2> QED
    BY <2>1, <2>2 DEF LocksAreHeld, InHand, Exists
<1>2. ASSUME NEW j \in Jobs, Update(j) \/ Delete(j) PROVE LocksAreHeld'
  <2>1. LockLost({j}) /\ (\A k \in Jobs \ {j} : job'[k] = job[k]) /\ hand' = hand
    BY <1>2 DEF Update, Delete, TypeOK
  <2> QED
    BY <2>1, LostLocks
<1>3. ASSUME NEW j \in Jobs, BecomesDue(j) PROVE LocksAreHeld'
  <2>1. /\ Exists(j) /\ job' = [job EXCEPT ![j] = [job[j] EXCEPT !.next = "due"]]
        /\ UNCHANGED <<hand, unlocked>>
    BY <1>3 DEF BecomesDue, TypeOK
  <2>2. job[j] \in Rows
    BY <2>1 DEF Exists, TypeOK
  <2>3. LET r == [job[j] EXCEPT !.next = "due"]
        IN  r \in Rows /\ r.lock = job[j].lock /\ r.fresh = job[j].fresh
    BY <2>2 DEF Rows
  <2>4. \A k \in Jobs : /\ Exists(k) => job'[k] \notin {NoJob, Gone}
                        /\ job'[k].lock = job[k].lock /\ job'[k].fresh = job[k].fresh
    BY <2>1, <2>3 DEF TypeOK, Exists
  <2> QED
    BY <2>1, <2>4 DEF LocksAreHeld, InHand, Exists
<1>4. ASSUME NEW j \in Jobs, LockExpires(j) PROVE LocksAreHeld'
  <2>1. LockLost({j}) /\ (\A k \in Jobs \ {j} : job'[k] = job[k]) /\ hand' = hand
    BY <1>4 DEF LockExpires, TypeOK
  <2> QED
    BY <2>1, LostLocks
<1>5. ASSUME NEW v \in Workers, ClaimDue(v) PROVE LocksAreHeld'
  <2>1. PICK picked \in SUBSET Claimable :
           /\ job' = Locked(picked, v)
           /\ hand' = [hand EXCEPT ![v].batch = {CopyOf(j) : j \in picked}]
    BY <1>5 DEF ClaimDue
  <2>2. hand[v].run = NoCopy /\ unlocked' = unlocked
    BY <1>5 DEF ClaimDue, Idle
  <2>3. \A j \in picked : j \in Jobs /\ Exists(j) /\ Unlocked(j)
    BY DEF Claimable, Due
  <2>4. \A w \in Workers : hand'[w] = IF w = v THEN [batch |-> {CopyOf(j) : j \in picked}, run |-> NoCopy]
                                       ELSE hand[w]
    BY <2>1, <2>2 DEF TypeOK, Actors
  <2>5. InHand(hand'[v]) \subseteq picked
    <3> DEFINE copies == {CopyOf(j) : j \in picked}
    <3>1. \A k \in copies : k.id \in picked
      BY DEF CopyOf
    <3>2. hand'[v] = [batch |-> copies, run |-> NoCopy]
      BY <2>4
    <3> HIDE DEF copies
    <3> QED
      BY <3>1, <3>2 DEF InHand
  <2> SUFFICES ASSUME NEW j \in Jobs \ unlocked, NEW w \in Workers, j \in InHand(hand'[w])
               PROVE  job'[j] \notin {NoJob, Gone} /\ job'[j].lock = w /\ job'[j].fresh = TRUE
    BY <2>2 DEF LocksAreHeld, InHand, Exists
  <2>6. CASE w = v
    <3>1. j \in picked /\ Exists(j)
      BY <2>3, <2>5, <2>6
    <3>2. job[j] \in Rows /\ job'[j] = [job[j] EXCEPT !.lock = w, !.fresh = TRUE]
      BY <2>1, <2>6, <3>1 DEF TypeOK, Exists, Locked
    <3>3. job'[j] \in Rows
      BY <3>2 DEF Rows, Actors
    <3> QED
      BY <3>2, <3>3 DEF Rows
  <2>7. CASE w # v
    <3>1. j \in InHand(hand[w])
      BY <2>4, <2>7
    <3>2. Exists(j) /\ job[j].lock = w /\ job[j].fresh = TRUE
      BY <3>1 DEF LocksAreHeld
    <3>3. w # NoActor
      BY DEF Actors
    <3>4. j \notin picked
      BY <2>3, <3>2, <3>3 DEF Unlocked
    <3> QED
      BY <2>1, <3>2, <3>4 DEF Locked, Exists
  <2> QED
    BY <2>6, <2>7
<1>6. ASSUME NEW q \in Requests, RunNow(q) PROVE LocksAreHeld'
  <2>1. UNCHANGED <<job, unlocked>> /\ \A w \in Workers : hand'[w] = hand[w]
    BY <1>6 DEF RunNow, TypeOK, Actors
  <2> QED
    BY <2>1 DEF LocksAreHeld, InHand, Exists
<1>7. ASSUME NEW a \in Actors, Abandon(a) PROVE LocksAreHeld'
  <2>1. hand' = [hand EXCEPT ![a] = Idle] /\ job' = job /\ LockLost({})
    BY <1>7 DEF Abandon
  <2>2. Idle \in Hands /\ InHand(Idle) \subseteq InHand(hand[a])
    BY DEF Idle, Hands, InHand
  <2> QED
    BY <2>1, <2>2, HandsShrink, LostLocks
<1>8. ASSUME NEW a \in Actors, StartRun(a) PROVE LocksAreHeld'
  <2>1. PICK c \in hand[a].batch :
           IF Exists(c.id)
           THEN /\ hand' = [hand EXCEPT ![a] = [batch |-> @.batch \ {c}, run |-> c]]
                /\ UNCHANGED <<table, job, overtaken, unlocked>>
           ELSE Abandon(a)
    BY <1>8 DEF StartRun
  <2>2. CASE Exists(c.id)
    <3> DEFINE h == [batch |-> hand[a].batch \ {c}, run |-> c]
    <3>1. h \in Hands /\ hand' = [hand EXCEPT ![a] = h] /\ UNCHANGED <<job, unlocked>>
      BY <2>1, <2>2 DEF TypeOK, Hands
    <3>2. hand[a].run = NoCopy
      BY <1>8 DEF StartRun
    <3>3. InHand(h) \subseteq InHand(hand[a])
      BY <3>1, <3>2 DEF InHand
    <3>4. \A w \in Workers : InHand(hand'[w]) \subseteq InHand(hand[w])
      BY <3>1, <3>3, HandsShrink
    <3> QED
      BY <3>1, <3>4 DEF LocksAreHeld, Exists
  <2>3. CASE ~Exists(c.id)
    BY <1>7, <2>1, <2>3
  <2> QED
    BY <2>2, <2>3
<1>9. ASSUME NEW a \in Actors, FinishRun(a) PROVE LocksAreHeld'
  <2> DEFINE c == hand[a].run
             h == [batch |-> hand[a].batch, run |-> NoCopy]
  <2>1. c.id \in Jobs /\ LockLost({c.id}) /\ h \in Hands /\ hand' = [hand EXCEPT ![a] = h]
    <3>1. c # NoCopy
      BY <1>9 DEF FinishRun
    <3>2. c.id \in Jobs /\ h \in Hands
      BY <3>1, NextType DEF TypeOK, Hands
    <3>3. hand[a] = [batch |-> hand[a].batch, run |-> hand[a].run]
      BY DEF TypeOK
    <3>4. hand' = [hand EXCEPT ![a] = h]
      <4>1. hand' = [hand EXCEPT ![a] = [hand[a] EXCEPT !.run = NoCopy]]
        BY <1>9 DEF FinishRun, TypeOK
      <4>2. [hand[a] EXCEPT !.run = NoCopy] = h
        BY <3>3
      <4> QED
        BY <4>1, <4>2
    <3>5. LockLost({c.id})
      BY <1>9 DEF FinishRun
    <3> QED
      BY <3>2, <3>4, <3>5
  <2>2. InHand(h) \subseteq InHand(hand[a])
    BY DEF InHand
  <2>3. \A k \in Jobs \ {c.id} : job'[k] = job[k]
    BY <1>9, <2>1 DEF FinishRun, Rescheduled, TypeOK
  <2>4. \A w \in Workers : InHand(hand'[w]) \subseteq InHand(hand[w])
    BY <2>1, <2>2, HandsShrink
  <2> QED
    BY <2>1, <2>3, <2>4, LostLocks
<1> QED
  BY <1>1, <1>2, <1>3, <1>4, <1>5, <1>6, <1>7, <1>8, <1>9 DEF Next, ActorStep, StatementFails

(* A lock that was not lost belongs to one worker.                         *)
LEMMA OneHolder == TypeOK /\ LocksAreHeld => LocksExclude
<1> SUFFICES ASSUME LocksAreHeld, NEW j \in Jobs \ unlocked PROVE Cardinality(Holders(j)) <= 1
  BY DEF LocksExclude
<1>1. Holders(j) \subseteq {job[j].lock}
  BY DEF LocksAreHeld, Holders
<1>2. IsFiniteSet({job[j].lock}) /\ Cardinality({job[j].lock}) = 1
  BY FS_Singleton
<1>3. Cardinality(Holders(j)) <= Cardinality({job[j].lock})
  BY <1>1, <1>2, FS_Subset
<1>4. Cardinality(Holders(j)) \in Nat
  BY <1>1, <1>2, FS_Subset, FS_CardinalityType
<1> QED
  BY <1>2, <1>3, <1>4

-----------------------------------------------------------------------------
(* Scheduled jobs: the next run.                                           *)

(* What holds of the row of a job that is not written over.                *)
Follows(r) ==
    /\ r.next # "none" => r.status = "active" /\ r.schedule # "none"
    /\ r.status = "active" /\ r.schedule = "regular" => r.next # "none"

(* A row that is saved, and one re-scheduled from a copy that is like it.  *)
LEMMA SavedFollows == \A status \in Statuses, schedule \in Schedules :
                         Follows(Saved(status, schedule))
  BY DEF Follows, Saved

LEMMA NextFollows ==
    ASSUME NEW r \in Rows, NEW next \in NextFor(r.status, r.schedule), NEW s \in Rows,
           s.next = next, s.status = r.status, s.schedule = r.schedule
    PROVE  Follows(s)
  BY DEF Follows, NextFor, NextRun, Rows, Schedules

(* A step whose rows keep to their schedule unless they are written over.  *)
LEMMA FollowsStep ==
    ASSUME TypeOK, ScheduleFollowsStatus, Next
    PROVE  \A j \in Jobs \ overtaken' : job'[j] \notin {NoJob, Gone} => Follows(job'[j])
<1> USE NamesAssumption
<1>0. \A j \in Jobs \ overtaken : job[j] \notin {NoJob, Gone} => job[j] \in Rows /\ Follows(job[j])
  BY DEF TypeOK, ScheduleFollowsStatus, Exists, Follows
<1>1. ASSUME NEW k \in Jobs, NEW row \in Rows \cup {NoJob, Gone},
             job' = [job EXCEPT ![k] = row], overtaken \ {k} \subseteq overtaken',
             \/ k \in overtaken'
             \/ row \in {NoJob, Gone}
             \/ row \in Rows /\ Follows(row)
      PROVE  \A j \in Jobs \ overtaken' : job'[j] \notin {NoJob, Gone} => Follows(job'[j])
  <2>1. \A j \in Jobs : job'[j] = IF j = k THEN row ELSE job[j]
    BY <1>1 DEF TypeOK
  <2> QED
    BY <1>0, <1>1, <2>1
<1>2. ASSUME NEW k \in Jobs, Create(k) \/ Update(k)
      PROVE  \A j \in Jobs \ overtaken' : job'[j] \notin {NoJob, Gone} => Follows(job'[j])
  <2>1. PICK status \in Statuses, schedule \in Schedules :
           job' = [job EXCEPT ![k] = Saved(status, schedule)]
    BY <1>2 DEF Create, Update
  <2>2. overtaken \ {k} \subseteq overtaken'
    BY <1>2 DEF Create, Update
  <2> QED
    BY <1>1, <2>1, <2>2, SavedType, SavedFollows
<1>3. ASSUME NEW k \in Jobs, Delete(k)
      PROVE  \A j \in Jobs \ overtaken' : job'[j] \notin {NoJob, Gone} => Follows(job'[j])
  BY <1>1, <1>3 DEF Delete
<1>4. ASSUME NEW k \in Jobs, BecomesDue(k)
      PROVE  \A j \in Jobs \ overtaken' : job'[j] \notin {NoJob, Gone} => Follows(job'[j])
  <2> DEFINE row == [job[k] EXCEPT !.next = "due"]
  <2>1. job[k] \in Rows /\ job[k].next = "later"
    BY <1>4 DEF BecomesDue, Exists, TypeOK
  <2>2. row \in Rows /\ (Follows(job[k]) => Follows(row))
    BY <2>1 DEF Rows, Follows
  <2>3. job' = [job EXCEPT ![k] = row] /\ overtaken' = overtaken
    BY <1>4 DEF BecomesDue, TypeOK
  <2>4. k \notin overtaken => Follows(job[k])
    BY <1>0, <1>4 DEF BecomesDue, Exists
  <2> HIDE DEF row
  <2> QED
    BY <1>1, <2>2, <2>3, <2>4
<1>5. ASSUME NEW k \in Jobs, LockExpires(k)
      PROVE  \A j \in Jobs \ overtaken' : job'[j] \notin {NoJob, Gone} => Follows(job'[j])
  <2> DEFINE row == [job[k] EXCEPT !.fresh = FALSE]
  <2>1. job[k] \in Rows
    BY <1>5 DEF LockExpires, Exists, TypeOK
  <2>2. row \in Rows /\ (Follows(job[k]) => Follows(row))
    BY <2>1 DEF Rows, Follows
  <2>3. job' = [job EXCEPT ![k] = row] /\ overtaken' = overtaken
    BY <1>5 DEF LockExpires, TypeOK
  <2>4. k \notin overtaken => Follows(job[k])
    BY <1>0, <1>5 DEF LockExpires, Exists
  <2> HIDE DEF row
  <2> QED
    BY <1>1, <2>2, <2>3, <2>4
<1>6. ASSUME NEW v \in Workers, ClaimDue(v)
      PROVE  \A j \in Jobs \ overtaken' : job'[j] \notin {NoJob, Gone} => Follows(job'[j])
  <2>1. PICK picked \in SUBSET Claimable : job' = Locked(picked, v)
    BY <1>6 DEF ClaimDue
  <2>2. overtaken' = overtaken /\ v \in Actors
    BY <1>6 DEF ClaimDue, Actors
  <2> SUFFICES ASSUME NEW j \in Jobs \ overtaken, job'[j] \notin {NoJob, Gone}
               PROVE  Follows(job'[j])
    BY <2>2
  <2>3. CASE j \in picked
    <3>1. job[j] \in Rows /\ Follows(job[j])
      BY <1>0, <2>3 DEF Claimable, Due, Exists
    <3>2. job'[j] = [job[j] EXCEPT !.lock = v, !.fresh = TRUE]
      BY <2>1, <2>3 DEF Locked
    <3> QED
      BY <3>1, <3>2 DEF Rows, Follows
  <2>4. CASE j \notin picked
    BY <1>0, <2>1, <2>4 DEF Locked
  <2> QED
    BY <2>3, <2>4
<1>7. ASSUME NEW a \in Actors, FinishRun(a)
      PROVE  \A j \in Jobs \ overtaken' : job'[j] \notin {NoJob, Gone} => Follows(job'[j])
  <2> DEFINE c == hand[a].run
  <2>1. c # NoCopy /\ c \in Copies /\ c.id \in Jobs
    BY <1>7, NextType DEF FinishRun
  <2>2. PICK next \in NextFor(c.status, c.schedule) : job' = Rescheduled(c.id, next)
    BY <1>7 DEF FinishRun
  <2>3. next \in {"none", "later", "due"}
    BY <2>1, <2>2, NextType
  <2>4. job' \in [Jobs -> Rows \cup {NoJob, Gone}]
    BY <2>1, <2>2, <2>3, RescheduledType
  <2>5. overtaken' = IF Exists(c.id) /\ c # CopyOf(c.id)
                     THEN overtaken \cup {c.id} ELSE overtaken \ {c.id}
    BY <1>7 DEF FinishRun
  <2> SUFFICES ASSUME NEW j \in Jobs \ overtaken', job'[j] \notin {NoJob, Gone}
               PROVE  Follows(job'[j])
    OBVIOUS
  <2>6. CASE j # c.id
    <3>1. job'[j] = job[j] /\ j \notin overtaken
      BY <2>1, <2>2, <2>3, <2>5, <2>6, RescheduledType
    <3> QED
      BY <1>0, <3>1
  <2>7. CASE j = c.id
    <3>1. Exists(j)
      BY <2>1, <2>2, <2>3, <2>7, RescheduledType DEF Exists
    <3>2. c = CopyOf(j)
      BY <2>5, <2>7, <3>1
    <3>3. c.status = job[j].status /\ c.schedule = job[j].schedule
      BY <3>2 DEF CopyOf
    <3>4. /\ job'[j].next = next
          /\ job'[j].status = job[j].status
          /\ job'[j].schedule = job[j].schedule
      BY <2>1, <2>2, <2>3, <2>7, <3>1, RescheduledType
    <3>5. job[j] \in Rows /\ job'[j] \in Rows
      BY <2>4, <3>1 DEF TypeOK, Exists
    <3> QED
      BY <2>2, <3>3, <3>4, <3>5, NextFollows
  <2> QED
    BY <2>6, <2>7
<1>8. ASSUME UNCHANGED <<job, overtaken>>
      PROVE  \A j \in Jobs \ overtaken' : job'[j] \notin {NoJob, Gone} => Follows(job'[j])
  BY <1>0, <1>8
<1>9. ASSUME NEW a \in Actors, StartRun(a) \/ StatementFails(a) PROVE UNCHANGED <<job, overtaken>>
  BY <1>9 DEF StartRun, StatementFails, Abandon
<1>10. ASSUME NEW q \in Requests, RunNow(q) PROVE UNCHANGED <<job, overtaken>>
  BY <1>10 DEF RunNow
<1> QED
  BY <1>2, <1>3, <1>4, <1>5, <1>6, <1>7, <1>8, <1>9, <1>10 DEF Next, ActorStep

(* The inductive invariant of scheduled jobs.                              *)
JobsInv == TypeOK /\ LocksAreHeld /\ ScheduleFollowsStatus

LEMMA JobsInit == Init => JobsInv
<1> SUFFICES ASSUME Init PROVE JobsInv
  OBVIOUS
<1>1. \A j \in Jobs : ~Exists(j)
  BY DEF Init, Exists
<1>2. \A w \in Workers : InHand(hand[w]) = {}
  BY DEF Init, TableInit, InHand, Idle, Actors
<1>3. TypeOK
  BY JobBounds DEF Init, TableInit, TypeOK, Idle
<1> QED
  BY <1>1, <1>2, <1>3 DEF JobsInv, LocksAreHeld, ScheduleFollowsStatus

LEMMA JobsStep == JobsInv /\ [Next]_vars => JobsInv'
<1>1. ASSUME JobsInv, Next PROVE JobsInv'
  <2>1. ScheduleFollowsStatus'
    BY <1>1, FollowsStep DEF JobsInv, ScheduleFollowsStatus, Exists, Follows
  <2> QED
    BY <1>1, <2>1, TypeStep, LocksStep DEF JobsInv
<1>2. ASSUME JobsInv, UNCHANGED vars PROVE JobsInv'
  BY <1>2 DEF JobsInv, vars, TypeOK, LocksAreHeld, ScheduleFollowsStatus, InHand, Exists
<1> QED
  BY <1>1, <1>2

(* Whatever the batches, the edits, the requests, the stops and the time   *)
(* locks take to grow old: two workers run a job at once only after its    *)
(* lock was lost, and a job is scheduled exactly when it is active unless  *)
(* a run that was claimed before the last edit has written over it.        *)
THEOREM ScheduleIsKeptAlways == Spec => []ScheduleIsKept
<1>1. JobsInv => ScheduleIsKept
  BY OneHolder DEF JobsInv, ScheduleIsKept
<1> QED
  BY <1>1, JobsInit, JobsStep, PTL DEF Spec

-----------------------------------------------------------------------------
(* Push jobs: the inductive invariant.                                     *)

(* A worker sends one job at a time, taken out of its batch; without one   *)
(* it has no tokens left to send to.                                       *)
HandsAreWhole ==
    \A w \in PushWorkers : /\ sender[w].now \notin sender[w].batch
                           /\ sender[w].now = NoPush => sender[w].tokens = {}

(* A job in hand is being processed, in an attempt that has been counted:  *)
(* a device that is still to be asked has had fewer pushes than attempts.  *)
AttemptsAreAhead ==
    \A w \in PushWorkers :
        /\ \A j \in InBatch(w) : pushJob[j].status = "processing"
        /\ \A j \in sender[w].batch, d \in Devices : received[j][d] < pushJob[j].attempts
        /\ sender[w].now # NoPush =>
              /\ \A d \in sender[w].tokens :
                    received[sender[w].now][d] < pushJob[sender[w].now].attempts
              /\ accepted[sender[w].now] \cup sender[w].tokens = asked[sender[w].now]

(* A job waits at first with no attempt.                                   *)
PendingIsNew == \A j \in PushIds : pushJob[j].status = "pending" => pushJob[j].attempts = 0

(* The inductive invariant of push jobs.                                   *)
PushInv == /\ PushTypeOK /\ HandsAreWhole /\ AttemptsAreAhead /\ PendingIsNew
           /\ SentMeansAccepted /\ OneSender /\ OnlyFaultsAbandon

PushRows == [status : PushStatuses, attempts : 0..MaxAttempts, due : BOOLEAN]
Senders == [batch : SUBSET PushIds, now : PushIds \cup {NoPush}, tokens : SUBSET Devices]

(* A job in hand, and nobody else's.                                       *)
LEMMA JobInHand ==
    ASSUME PushInv, NEW w \in PushWorkers, NEW j \in InBatch(w)
    PROVE  /\ j \in PushIds /\ pushJob[j].status = "processing"
           /\ \A v \in PushWorkers \ {w} : j \notin sender[v].batch /\ j # sender[v].now
<1>1. j \in PushIds
  BY DEF PushInv, PushTypeOK, InBatch
<1>2. pushJob[j].status = "processing"
  BY DEF PushInv, AttemptsAreAhead
<1>3. ASSUME NEW v \in PushWorkers \ {w} PROVE j \notin sender[v].batch /\ j # sender[v].now
  <2>1. j \notin InBatch(v)
    BY DEF PushInv, OneSender
  <2> QED
    BY <1>1, <2>1, PushBounds DEF InBatch
<1> QED
  BY <1>1, <1>2, <1>3

-----------------------------------------------------------------------------
(* Push jobs: steps that only let go of jobs, by a fault.                  *)

LEMMA DropStep ==
    ASSUME PushInv, NEW w \in PushWorkers, NEW s \in Senders, PushFault,
           sender' = [sender EXCEPT ![w] = s],
           s = Waiting \/ s = [batch |-> sender[w].batch, now |-> NoPush, tokens |-> {}],
           UNCHANGED <<pushJob, device, changes, asked, accepted, received>>
    PROVE  PushInv'
<1> USE PushBounds
<1>1. \A v \in PushWorkers : sender'[v] = IF v = w THEN s ELSE sender[v]
  BY DEF PushInv, PushTypeOK
<1>2. s.now = NoPush /\ s.tokens = {} /\ s.batch \subseteq sender[w].batch
  BY DEF Waiting
<1>3. \A v \in PushWorkers : InBatch(v)' \subseteq InBatch(v)
  BY <1>1, <1>2 DEF InBatch
<1>4. PushTypeOK'
  <2>1. pushFaults' \in 0..MaxPushFaults
    BY DEF PushInv, PushTypeOK, PushFault
  <2>2. sender' \in [PushWorkers -> Senders]
    BY DEF PushInv, PushTypeOK, Senders
  <2> QED
    BY <2>1, <2>2 DEF PushInv, PushTypeOK, Senders
<1>5. HandsAreWhole'
  BY <1>1, <1>2, <1>4 DEF PushInv, HandsAreWhole, PushTypeOK
<1>6. AttemptsAreAhead'
  BY <1>1, <1>2, <1>3 DEF PushInv, AttemptsAreAhead
<1>7. OneSender'
  BY <1>3 DEF PushInv, OneSender
<1>8. OnlyFaultsAbandon'
  BY DEF OnlyFaultsAbandon, PushFault, PushInv, PushTypeOK
<1>9. PendingIsNew' /\ SentMeansAccepted'
  BY DEF PushInv, PendingIsNew, SentMeansAccepted
<1> QED
  BY <1>4, <1>5, <1>6, <1>7, <1>8, <1>9 DEF PushInv

-----------------------------------------------------------------------------
(* Push jobs: a batch is claimed.                                          *)

LEMMA ClaimStep ==
    ASSUME PushInv, NEW w \in PushWorkers, ProcessPendingJobs(w)
    PROVE  PushInv'
<1> USE PushBounds
<1>1. PICK picked \in SUBSET {j \in PushIds : Sendable(j)} :
         /\ pushJob' = [j \in PushIds |-> IF j \in picked
                THEN [status |-> "processing", attempts |-> pushJob[j].attempts + 1, due |-> FALSE]
                ELSE pushJob[j]]
         /\ sender' = [sender EXCEPT ![w].batch = picked]
  BY DEF ProcessPendingJobs
<1>2. UNCHANGED <<device, pushFaults, changes, asked, accepted, received>> /\ sender[w] = Waiting
  BY DEF ProcessPendingJobs
<1>3. \A v \in PushWorkers : sender'[v] = IF v = w THEN [batch |-> picked, now |-> NoPush, tokens |-> {}]
                                           ELSE sender[v]
  <2>1. [sender[w] EXCEPT !.batch = picked] = [batch |-> picked, now |-> NoPush, tokens |-> {}]
    BY <1>2 DEF Waiting
  <2>2. sender' = [sender EXCEPT ![w] = [sender[w] EXCEPT !.batch = picked]]
    BY <1>1 DEF PushInv, PushTypeOK
  <2> QED
    BY <2>1, <2>2 DEF PushInv, PushTypeOK
<1>4. \A j \in picked : /\ j \in PushIds /\ pushJob[j].status \in {"pending", "failed"}
                        /\ pushJob[j].attempts \in Nat /\ pushJob[j].attempts < MaxAttempts
  BY DEF Sendable, PushInv, PushTypeOK, PendingIsNew, SentMeansAccepted
<1>5. \A v \in PushWorkers, j \in picked : j \notin InBatch(v)
  BY <1>4, JobInHand
<1>6. \A j \in picked : /\ pushJob'[j].status = "processing"
                        /\ pushJob'[j].attempts = pushJob[j].attempts + 1
                        /\ pushJob'[j] \in PushRows
  <2>1. ASSUME NEW j \in picked
        PROVE  [status |-> "processing", attempts |-> pushJob[j].attempts + 1, due |-> FALSE] \in PushRows
    BY <1>4 DEF PushRows, PushStatuses
  <2> QED
    BY <1>1, <1>4, <2>1
<1>7. \A j \in PushIds \ picked : pushJob'[j] = pushJob[j] /\ pushJob[j] \in PushRows
  BY <1>1 DEF PushInv, PushTypeOK, PushRows
<1>8. InBatch(w)' = picked /\ \A v \in PushWorkers \ {w} : InBatch(v)' = InBatch(v)
  BY <1>3 DEF InBatch
<1>9. PushTypeOK'
  <2>1. pushJob' \in [PushIds -> PushRows]
    BY <1>1, <1>6, <1>7
  <2>2. sender' \in [PushWorkers -> Senders]
    <3>1. [batch |-> picked, now |-> NoPush, tokens |-> {}] \in Senders
      BY <1>4 DEF Senders
    <3>2. sender' = [v \in PushWorkers |-> sender'[v]]
      BY <1>1 DEF PushInv, PushTypeOK
    <3>3. sender \in [PushWorkers -> Senders]
      BY DEF PushInv, PushTypeOK, Senders
    <3> QED
      BY <1>3, <3>1, <3>2, <3>3
  <2> QED
    BY <1>2, <2>1, <2>2 DEF PushInv, PushTypeOK, PushRows, Senders
<1>10. HandsAreWhole'
  BY <1>3, <1>9 DEF PushInv, HandsAreWhole
<1>11. AttemptsAreAhead'
  <2> SUFFICES ASSUME NEW v \in PushWorkers
               PROVE  /\ \A j \in InBatch(v)' : pushJob'[j].status = "processing"
                      /\ \A j \in sender'[v].batch, d \in Devices : received'[j][d] < pushJob'[j].attempts
                      /\ sender'[v].now # NoPush =>
                            /\ \A d \in sender'[v].tokens :
                                  received'[sender'[v].now][d] < pushJob'[sender'[v].now].attempts
                            /\ accepted'[sender'[v].now] \cup sender'[v].tokens = asked'[sender'[v].now]
    BY DEF AttemptsAreAhead, InBatch
  <2>1. CASE v = w
    <3>1. \A j \in picked, d \in Devices : received[j][d] \in Nat /\ received[j][d] <= pushJob[j].attempts
      BY <1>4 DEF PushInv, PushTypeOK, SentMeansAccepted
    <3>2. \A j \in picked, d \in Devices : received'[j][d] < pushJob'[j].attempts
      BY <1>2, <1>4, <1>6, <3>1
    <3> QED
      BY <1>3, <1>6, <1>8, <2>1, <3>2
  <2>2. CASE v # w
    <3>1. \A j \in InBatch(v) : pushJob'[j] = pushJob[j]
      BY <1>5, <1>7, JobInHand
    <3>2. sender[v].now # NoPush => sender[v].now \in InBatch(v)
      BY DEF InBatch
    <3>3. sender[v].batch \subseteq InBatch(v)
      BY DEF InBatch
    <3> QED
      BY <1>2, <1>3, <1>8, <2>2, <3>1, <3>2, <3>3 DEF PushInv, AttemptsAreAhead
  <2> QED
    BY <2>1, <2>2
<1>12. OneSender'
  BY <1>5, <1>8 DEF PushInv, OneSender
<1>13. OnlyFaultsAbandon'
  <2> SUFFICES ASSUME pushFaults = 0, NEW j \in PushIds, pushJob'[j].status = "processing"
               PROVE  \E v \in PushWorkers : j \in InBatch(v)'
    BY <1>2 DEF OnlyFaultsAbandon, Abandoned, InBatch
  <2>1. CASE j \in picked
    BY <1>8, <2>1
  <2>2. CASE j \notin picked
    <3>1. PICK v \in PushWorkers : j \in InBatch(v)
      BY <1>7, <2>2 DEF PushInv, OnlyFaultsAbandon, Abandoned
    <3>2. v # w
      BY <1>2, <3>1, PushBounds DEF InBatch, Waiting
    <3> QED
      BY <1>8, <3>1, <3>2
  <2> QED
    BY <2>1, <2>2
<1>14. PendingIsNew'
  BY <1>6, <1>7 DEF PushInv, PendingIsNew
<1>15. SentMeansAccepted'
  <2> SUFFICES ASSUME NEW j \in PushIds
               PROVE  /\ pushJob'[j].status = "sent" => accepted'[j] = asked'[j]
                      /\ \A d \in Devices : received'[j][d] <= pushJob'[j].attempts
                      /\ pushJob'[j].status = "dead" => pushJob'[j].attempts = MaxAttempts
                      /\ pushJob'[j].status = "failed" => pushJob'[j].attempts < MaxAttempts
    BY DEF SentMeansAccepted
  <2>1. CASE j \in picked
    <3>1. \A d \in Devices : received[j][d] \in Nat /\ received[j][d] <= pushJob[j].attempts
      BY DEF PushInv, PushTypeOK, SentMeansAccepted
    <3> QED
      BY <1>2, <1>4, <1>6, <2>1, <3>1
  <2>2. CASE j \notin picked
    BY <1>2, <1>7, <2>2 DEF PushInv, SentMeansAccepted
  <2> QED
    BY <2>1, <2>2
<1> QED
  BY <1>9, <1>10, <1>11, <1>12, <1>13, <1>14, <1>15 DEF PushInv

-----------------------------------------------------------------------------
(* Push jobs: the tokens of a job are read, and one of them is asked.      *)

LEMMA ReadStep ==
    ASSUME PushInv, NEW w \in PushWorkers, ReadTokens(w)
    PROVE  PushInv'
<1> USE PushBounds
<1> DEFINE tokens == {d \in Devices : device[d] = "active"}
<1>1. PICK j \in sender[w].batch :
         /\ sender' = [sender EXCEPT ![w] = [batch |-> @.batch \ {j}, now |-> j, tokens |-> tokens]]
         /\ asked' = [asked EXCEPT ![j] = tokens]
         /\ accepted' = [accepted EXCEPT ![j] = {}]
  BY DEF ReadTokens
<1>2. sender[w].now = NoPush /\ UNCHANGED <<pushJob, device, pushFaults, changes, received>>
  BY DEF ReadTokens
<1>3. j \in InBatch(w) /\ j \in PushIds /\ tokens \subseteq Devices
  BY DEF InBatch, PushInv, PushTypeOK
<1> HIDE DEF tokens
<1>4. \A v \in PushWorkers : sender'[v] = IF v = w THEN [batch |-> sender[w].batch \ {j}, now |-> j, tokens |-> tokens]
                                           ELSE sender[v]
  BY <1>1 DEF PushInv, PushTypeOK
<1>5. \A v \in PushWorkers : InBatch(v)' = InBatch(v)
  BY <1>2, <1>3, <1>4 DEF InBatch
<1>6. \A k \in PushIds : /\ asked'[k] = IF k = j THEN tokens ELSE asked[k]
                         /\ accepted'[k] = IF k = j THEN {} ELSE accepted[k]
  BY <1>1 DEF PushInv, PushTypeOK
<1>7. PushTypeOK'
  <2>1. sender' \in [PushWorkers -> Senders]
    <3>1. [batch |-> sender[w].batch \ {j}, now |-> j, tokens |-> tokens] \in Senders
      BY <1>3 DEF PushInv, PushTypeOK, Senders
    <3> QED
      BY <1>1, <3>1 DEF PushInv, PushTypeOK, Senders
  <2> QED
    BY <1>1, <1>2, <1>3, <2>1 DEF PushInv, PushTypeOK, Senders
<1>8. HandsAreWhole'
  BY <1>3, <1>4 DEF PushInv, HandsAreWhole
<1>9. AttemptsAreAhead'
  <2> SUFFICES ASSUME NEW v \in PushWorkers
               PROVE  /\ \A k \in InBatch(v)' : pushJob'[k].status = "processing"
                      /\ \A k \in sender'[v].batch, d \in Devices : received'[k][d] < pushJob'[k].attempts
                      /\ sender'[v].now # NoPush =>
                            /\ \A d \in sender'[v].tokens :
                                  received'[sender'[v].now][d] < pushJob'[sender'[v].now].attempts
                            /\ accepted'[sender'[v].now] \cup sender'[v].tokens = asked'[sender'[v].now]
    BY DEF AttemptsAreAhead, InBatch
  <2>1. CASE v = w
    BY <1>2, <1>3, <1>4, <1>5, <1>6, <2>1 DEF PushInv, AttemptsAreAhead
  <2>2. CASE v # w
    <3>1. sender[v].now # NoPush => sender[v].now \in PushIds /\ sender[v].now # j
      BY <1>3, <2>2, JobInHand DEF PushInv, PushTypeOK
    <3> QED
      BY <1>2, <1>4, <1>5, <1>6, <2>2, <3>1 DEF PushInv, AttemptsAreAhead
  <2> QED
    BY <2>1, <2>2
<1>10. SentMeansAccepted'
  BY <1>2, <1>3, <1>6, JobInHand DEF PushInv, SentMeansAccepted
<1>11. OneSender' /\ OnlyFaultsAbandon' /\ PendingIsNew'
  BY <1>2, <1>5 DEF PushInv, OneSender, OnlyFaultsAbandon, Abandoned, PendingIsNew
<1> QED
  BY <1>7, <1>8, <1>9, <1>10, <1>11 DEF PushInv

LEMMA SendStep ==
    ASSUME PushInv, NEW w \in PushWorkers, Send(w)
    PROVE  PushInv'
<1> USE PushBounds
<1> DEFINE j == sender[w].now
<1>1. PICK d \in sender[w].tokens :
         /\ sender' = [sender EXCEPT ![w].tokens = @ \ {d}]
         /\ accepted' = [accepted EXCEPT ![j] = @ \cup {d}]
         /\ received' = [received EXCEPT ![j][d] = @ + 1]
         /\ UNCHANGED <<pushJob, device, pushFaults, changes, asked>>
  BY DEF Send
<1>2. j # NoPush /\ j \in PushIds /\ j \in InBatch(w) /\ d \in Devices
  BY DEF PushInv, PushTypeOK, HandsAreWhole, InBatch
<1>3. received[j][d] \in Nat /\ received[j][d] < pushJob[j].attempts /\ pushJob[j].attempts \in 0..MaxAttempts
  BY <1>2 DEF PushInv, PushTypeOK, AttemptsAreAhead
<1>4. \A v \in PushWorkers : /\ sender'[v].batch = sender[v].batch /\ sender'[v].now = sender[v].now
                             /\ sender'[v].tokens = IF v = w THEN sender[w].tokens \ {d} ELSE sender[v].tokens
  BY <1>1 DEF PushInv, PushTypeOK
<1>5. \A v \in PushWorkers : InBatch(v)' = InBatch(v)
  BY <1>4 DEF InBatch
<1>6. \A k \in PushIds : /\ accepted'[k] = IF k = j THEN accepted[k] \cup {d} ELSE accepted[k]
                         /\ \A e \in Devices :
                               received'[k][e] = IF k = j /\ e = d THEN received[k][e] + 1 ELSE received[k][e]
  <2>1. ASSUME NEW k \in PushIds PROVE accepted'[k] = IF k = j THEN accepted[k] \cup {d} ELSE accepted[k]
    BY <1>1, <1>2 DEF PushInv, PushTypeOK
  <2>2. ASSUME NEW k \in PushIds, NEW e \in Devices
        PROVE  received'[k][e] = IF k = j /\ e = d THEN received[k][e] + 1 ELSE received[k][e]
    BY <1>1, <1>2 DEF PushInv, PushTypeOK
  <2> QED
    BY <2>1, <2>2
<1>7. PushTypeOK'
  <2>1. sender' \in [PushWorkers -> Senders]
    <3>1. sender \in [PushWorkers -> Senders]
      BY DEF PushInv, PushTypeOK, Senders
    <3>2. [sender[w] EXCEPT !.tokens = sender[w].tokens \ {d}] \in Senders
      <4>1. sender[w] \in Senders
        BY <3>1
      <4> QED
        BY <4>1 DEF Senders
    <3>3. sender' = [sender EXCEPT ![w] = [sender[w] EXCEPT !.tokens = sender[w].tokens \ {d}]]
      BY <1>1, <3>1
    <3> QED
      BY <3>1, <3>2, <3>3
  <2>2. received' \in [PushIds -> [Devices -> 0..MaxAttempts]]
    <3>1. received[j][d] + 1 \in 0..MaxAttempts
      BY <1>3
    <3>2. [received[j] EXCEPT ![d] = received[j][d] + 1] \in [Devices -> 0..MaxAttempts]
      BY <1>2, <3>1 DEF PushInv, PushTypeOK
    <3>3. received' = [received EXCEPT ![j] = [received[j] EXCEPT ![d] = received[j][d] + 1]]
      BY <1>1, <1>2 DEF PushInv, PushTypeOK
    <3> QED
      BY <1>2, <3>2, <3>3 DEF PushInv, PushTypeOK
  <2>3. accepted' \in [PushIds -> SUBSET Devices]
    BY <1>1, <1>2 DEF PushInv, PushTypeOK
  <2> QED
    BY <1>1, <2>1, <2>2, <2>3 DEF PushInv, PushTypeOK, Senders
<1>8. HandsAreWhole'
  BY <1>2, <1>4 DEF PushInv, HandsAreWhole
<1>9. AttemptsAreAhead'
  <2> SUFFICES ASSUME NEW v \in PushWorkers
               PROVE  /\ \A k \in InBatch(v)' : pushJob'[k].status = "processing"
                      /\ \A k \in sender'[v].batch, e \in Devices : received'[k][e] < pushJob'[k].attempts
                      /\ sender'[v].now # NoPush =>
                            /\ \A e \in sender'[v].tokens :
                                  received'[sender'[v].now][e] < pushJob'[sender'[v].now].attempts
                            /\ accepted'[sender'[v].now] \cup sender'[v].tokens = asked'[sender'[v].now]
    BY DEF AttemptsAreAhead, InBatch
  <2>1. \A k \in sender[v].batch : k \in PushIds /\ k # j
    BY <1>2, JobInHand DEF PushInv, PushTypeOK, HandsAreWhole
  <2>2. pushJob' = pushJob /\ asked' = asked
    BY <1>1
  <2>3. /\ \A k \in InBatch(v)' : pushJob'[k].status = "processing"
        /\ \A k \in sender'[v].batch, e \in Devices : received'[k][e] < pushJob'[k].attempts
    <3>1. \A k \in InBatch(v) : pushJob[k].status = "processing"
      BY DEF PushInv, AttemptsAreAhead
    <3>2. \A k \in sender[v].batch, e \in Devices : received[k][e] < pushJob[k].attempts
      BY DEF PushInv, AttemptsAreAhead
    <3>3. \A k \in sender[v].batch, e \in Devices : received'[k][e] = received[k][e]
      BY <1>6, <2>1
    <3> QED
      BY <1>4, <1>5, <2>2, <3>1, <3>2, <3>3
  <2>4. sender[v].tokens \subseteq Devices
    BY DEF PushInv, PushTypeOK
  <2>0. sender[v].now # NoPush =>
           /\ \A e \in sender[v].tokens : received[sender[v].now][e] < pushJob[sender[v].now].attempts
           /\ accepted[sender[v].now] \cup sender[v].tokens = asked[sender[v].now]
    BY DEF PushInv, AttemptsAreAhead
  <2>5. CASE v = w
    <3>1. sender'[v].now = j /\ sender'[v].tokens = sender[w].tokens \ {d}
      BY <1>4, <2>5
    <3>2. accepted'[j] = accepted[j] \cup {d} /\ \A e \in sender'[v].tokens : received'[j][e] = received[j][e]
      BY <1>2, <1>6, <2>4, <2>5, <3>1
    <3>3. accepted'[j] \cup sender'[v].tokens = asked'[j]
      BY <1>2, <2>0, <2>2, <2>5, <3>1, <3>2
    <3>4. \A e \in sender'[v].tokens : received'[j][e] < pushJob'[j].attempts
      BY <1>2, <2>0, <2>2, <2>5, <3>1, <3>2
    <3> HIDE DEF j
    <3> QED
      BY <2>3, <3>1, <3>3, <3>4
  <2>6. CASE v # w
    <3> DEFINE k == sender[v].now
    <3>1. CASE k = NoPush
      BY <1>4, <2>3, <2>6, <3>1
    <3>2. CASE k # NoPush
      <4>1. k \in PushIds /\ k # j
        BY <1>2, <2>6, <3>2, JobInHand DEF PushInv, PushTypeOK
      <4>2. accepted'[k] = accepted[k] /\ \A e \in sender[v].tokens : received'[k][e] = received[k][e]
        BY <1>6, <2>4, <4>1
      <4> QED
        BY <1>4, <2>0, <2>2, <2>3, <2>6, <3>2, <4>2
    <3> QED
      BY <3>1, <3>2
  <2> QED
    BY <2>5, <2>6
<1>10. SentMeansAccepted'
  <2> SUFFICES ASSUME NEW k \in PushIds
               PROVE  /\ pushJob[k].status = "sent" => accepted'[k] = asked[k]
                      /\ \A e \in Devices : received'[k][e] <= pushJob[k].attempts
    BY <1>1 DEF PushInv, SentMeansAccepted
  <2>1. pushJob[j].status = "processing"
    BY <1>2, JobInHand
  <2>2. /\ pushJob[k].status = "sent" => accepted[k] = asked[k]
        /\ \A e \in Devices : received[k][e] <= pushJob[k].attempts
    BY DEF PushInv, SentMeansAccepted
  <2>3. CASE k = j
    <3>1. ASSUME NEW e \in Devices PROVE received'[k][e] <= pushJob[k].attempts
      <4>1. CASE e = d
        <5>1. received'[k][e] = received[j][d] + 1
          BY <1>2, <1>6, <2>3, <4>1
        <5> QED
          BY <1>3, <2>3, <5>1
      <4>2. CASE e # d
        BY <1>6, <2>2, <4>2
      <4> QED
        BY <4>1, <4>2
    <3> QED
      BY <2>1, <2>3, <3>1
  <2>4. CASE k # j
    BY <1>6, <2>2, <2>4
  <2> QED
    BY <2>3, <2>4
<1>11. OneSender' /\ OnlyFaultsAbandon' /\ PendingIsNew'
  BY <1>1, <1>5 DEF PushInv, OneSender, OnlyFaultsAbandon, Abandoned, PendingIsNew
<1> QED
  BY <1>7, <1>8, <1>9, <1>10, <1>11 DEF PushInv

-----------------------------------------------------------------------------
(* Push jobs: an attempt ends with a mark.                                 *)

LEMMA DoneIs ==
    ASSUME PushTypeOK, NEW w \in PushWorkers
    PROVE  Done(w) = [sender EXCEPT ![w] = [batch |-> sender[w].batch, now |-> NoPush, tokens |-> {}]]
<1> DEFINE s1 == [sender[w] EXCEPT !.now = NoPush]
           s2 == [s1 EXCEPT !.tokens = {}]
           first == [sender EXCEPT ![w] = s1]
<1>1. s2 = [batch |-> sender[w].batch, now |-> NoPush, tokens |-> {}]
  <2>1. sender[w] = [batch |-> sender[w].batch, now |-> sender[w].now, tokens |-> sender[w].tokens]
    BY DEF PushTypeOK
  <2>2. s1 = [batch |-> sender[w].batch, now |-> NoPush, tokens |-> sender[w].tokens]
    BY <2>1
  <2> HIDE DEF s1
  <2> QED
    BY <2>2
<1>2. Done(w) = [first EXCEPT ![w] = [first[w] EXCEPT !.tokens = {}]]
  BY Zenon DEF Done
<1>3. first[w] = s1
  BY DEF PushTypeOK
<1>4. Done(w) = [first EXCEPT ![w] = s2]
  BY <1>2, <1>3
<1> HIDE DEF s1, s2
<1>5. [first EXCEPT ![w] = s2] = [sender EXCEPT ![w] = s2]
  BY DEF PushTypeOK
<1> QED
  BY <1>1, <1>4, <1>5

LEMMA MarkStep ==
    ASSUME PushInv, NEW w \in PushWorkers, sender[w].now # NoPush, sender' = Done(w),
           NEW status \in {"sent", "failed", "dead"},
           pushJob' = [pushJob EXCEPT ![sender[w].now].status = status],
           status = "sent" => sender[w].tokens = {} /\ received' = received,
           status = "dead" => pushJob[sender[w].now].attempts = MaxAttempts,
           status = "failed" => pushJob[sender[w].now].attempts < MaxAttempts,
           received' \in [PushIds -> [Devices -> 0..MaxAttempts]],
           \A k \in PushIds \ {sender[w].now} : received'[k] = received[k],
           \A d \in Devices : received'[sender[w].now][d] <= pushJob[sender[w].now].attempts,
           UNCHANGED <<device, pushFaults, changes, asked, accepted>>
    PROVE  PushInv'
<1> USE PushBounds
<1> DEFINE j == sender[w].now
<1>1. j \in InBatch(w) /\ j \in PushIds /\ pushJob[j] \in PushRows /\ pushJob[j].status = "processing"
  <2>1. j \in InBatch(w)
    BY DEF InBatch
  <2> QED
    BY <2>1, JobInHand DEF PushInv, PushTypeOK, PushRows
<1>2. \A k \in PushIds : /\ k # j => pushJob'[k] = pushJob[k]
                         /\ pushJob'[k].attempts = pushJob[k].attempts
  BY <1>1 DEF PushInv, PushTypeOK, PushRows
<1>3. pushJob'[j].status = status /\ pushJob'[j] \in PushRows
  <2>1. pushJob'[j] = [pushJob[j] EXCEPT !.status = status]
    BY <1>1 DEF PushInv, PushTypeOK
  <2> QED
    BY <1>1, <2>1 DEF PushRows, PushStatuses
<1>4. \A v \in PushWorkers : sender'[v] = IF v = w THEN [batch |-> sender[w].batch, now |-> NoPush, tokens |-> {}]
                                           ELSE sender[v]
  BY DoneIs DEF PushInv, PushTypeOK
<1>5. InBatch(w)' = sender[w].batch /\ \A v \in PushWorkers \ {w} : InBatch(v)' = InBatch(v)
  BY <1>4 DEF InBatch
<1>6. \A v \in PushWorkers : j \notin sender'[v].batch /\ j # sender'[v].now /\ j \notin InBatch(v)'
  <2>1. j \notin sender[w].batch
    BY DEF PushInv, HandsAreWhole
  <2>2. \A v \in PushWorkers \ {w} : j \notin sender[v].batch /\ j # sender[v].now /\ j \notin InBatch(v)
    BY <1>1, JobInHand DEF InBatch
  <2> QED
    BY <1>4, <1>5, <2>1, <2>2
<1>7. PushTypeOK'
  <2>1. sender' \in [PushWorkers -> Senders]
    <3>1. [batch |-> sender[w].batch, now |-> NoPush, tokens |-> {}] \in Senders
      BY DEF PushInv, PushTypeOK, Senders
    <3>2. sender' = [sender EXCEPT ![w] = [batch |-> sender[w].batch, now |-> NoPush, tokens |-> {}]]
      BY DoneIs DEF PushInv
    <3> QED
      BY <3>1, <3>2 DEF PushInv, PushTypeOK, Senders
  <2>2. pushJob' \in [PushIds -> PushRows]
    <3>1. \A k \in PushIds : pushJob'[k] \in PushRows
      BY <1>2, <1>3 DEF PushInv, PushTypeOK, PushRows
    <3>2. pushJob' = [k \in PushIds |-> pushJob'[k]]
      BY DEF PushInv, PushTypeOK
    <3> QED
      BY <3>1, <3>2
  <2> QED
    BY <2>1, <2>2 DEF PushInv, PushTypeOK, Senders, PushRows
<1>8. HandsAreWhole'
  BY <1>4, <1>7 DEF PushInv, HandsAreWhole, PushTypeOK
<1>9. AttemptsAreAhead'
  <2> SUFFICES ASSUME NEW v \in PushWorkers
               PROVE  /\ \A k \in InBatch(v)' : pushJob'[k].status = "processing"
                      /\ \A k \in sender'[v].batch, e \in Devices : received'[k][e] < pushJob'[k].attempts
                      /\ sender'[v].now # NoPush =>
                            /\ \A e \in sender'[v].tokens :
                                  received'[sender'[v].now][e] < pushJob'[sender'[v].now].attempts
                            /\ accepted'[sender'[v].now] \cup sender'[v].tokens = asked'[sender'[v].now]
    BY DEF AttemptsAreAhead, InBatch
  <2>1. InBatch(v)' \subseteq InBatch(v) /\ \A k \in InBatch(v)' : k \in PushIds /\ k # j
    BY <1>5, <1>6, JobInHand DEF InBatch
  <2>2. \A k \in InBatch(v)' : pushJob'[k] = pushJob[k] /\ received'[k] = received[k]
    BY <1>2, <2>1
  <2>3. sender'[v].batch = sender[v].batch /\ sender'[v].batch \subseteq InBatch(v)'
    BY <1>4 DEF InBatch
  <2>4. sender'[v].now # NoPush => sender'[v] = sender[v] /\ sender'[v].now \in InBatch(v)'
    BY <1>4 DEF InBatch
  <2>5. UNCHANGED <<asked, accepted>>
    OBVIOUS
  <2>6. \A k \in InBatch(v)' : pushJob'[k].status = "processing"
    BY <2>1, <2>2 DEF PushInv, AttemptsAreAhead
  <2>7. \A k \in sender'[v].batch, e \in Devices : received'[k][e] < pushJob'[k].attempts
    BY <2>2, <2>3 DEF PushInv, AttemptsAreAhead
  <2> QED
    BY <2>2, <2>4, <2>5, <2>6, <2>7 DEF PushInv, AttemptsAreAhead
<1>10. SentMeansAccepted'
  <2> SUFFICES ASSUME NEW k \in PushIds
               PROVE  /\ pushJob'[k].status = "sent" => accepted'[k] = asked'[k]
                      /\ \A d \in Devices : received'[k][d] <= pushJob'[k].attempts
                      /\ pushJob'[k].status = "dead" => pushJob'[k].attempts = MaxAttempts
                      /\ pushJob'[k].status = "failed" => pushJob'[k].attempts < MaxAttempts
    BY DEF SentMeansAccepted
  <2>1. CASE k = j
    <3>1. sender[w].tokens = {} => accepted[j] = asked[j]
      BY DEF PushInv, AttemptsAreAhead
    <3> QED
      BY <1>1, <1>2, <1>3, <2>1, <3>1
  <2>2. CASE k # j
    BY <1>2, <2>2 DEF PushInv, SentMeansAccepted
  <2> QED
    BY <2>1, <2>2
<1>11. OneSender'
  <2>1. \A v \in PushWorkers : InBatch(v)' \subseteq InBatch(v)
    BY <1>5 DEF InBatch
  <2> QED
    BY <2>1 DEF PushInv, OneSender
<1>12. PendingIsNew'
  BY <1>2, <1>3 DEF PushInv, PendingIsNew
<1>13. OnlyFaultsAbandon'
  <2> SUFFICES ASSUME pushFaults = 0, NEW k \in PushIds, pushJob'[k].status = "processing"
               PROVE  \E v \in PushWorkers : k \in InBatch(v)'
    BY DEF OnlyFaultsAbandon, Abandoned, InBatch
  <2>1. k # j
    BY <1>3
  <2>2. PICK v \in PushWorkers : k \in InBatch(v)
    BY <1>2, <2>1 DEF PushInv, OnlyFaultsAbandon, Abandoned
  <2>3. k \in InBatch(v)'
    BY <1>5, <2>1, <2>2 DEF InBatch
  <2> QED
    BY <2>3
<1> QED
  BY <1>7, <1>8, <1>9, <1>10, <1>11, <1>12, <1>13 DEF PushInv

(* The two ends of an attempt.                                             *)
LEMMA DeliveredStep == ASSUME PushInv, NEW w \in PushWorkers, Delivered(w) PROVE PushInv'
<1> DEFINE j == sender[w].now
<1>1. j # NoPush /\ sender[w].tokens = {} /\ sender' = Done(w) /\ received' = received
      /\ pushJob' = [pushJob EXCEPT ![j].status = "sent"] /\ UNCHANGED <<device, pushFaults, changes, asked, accepted>>
  BY DEF Delivered, MarkSent
<1>2. j \in PushIds
  BY <1>1 DEF PushInv, PushTypeOK
<1>3. \A d \in Devices : received[j][d] <= pushJob[j].attempts
  BY <1>2 DEF PushInv, SentMeansAccepted
<1>4. received' \in [PushIds -> [Devices -> 0..MaxAttempts]]
  BY <1>1 DEF PushInv, PushTypeOK
<1> QED
  BY <1>1, <1>3, <1>4, MarkStep

LEMMA RefusedStep == ASSUME PushInv, NEW w \in PushWorkers, Refused(w) PROVE PushInv'
<1> USE PushBounds
<1> DEFINE j == sender[w].now
           status == IF pushJob[j].attempts >= MaxAttempts THEN "dead" ELSE "failed"
<1>1. j # NoPush /\ sender' = Done(w) /\ UNCHANGED <<device, pushFaults, changes, asked, accepted>>
      /\ pushJob' = [pushJob EXCEPT ![j].status = status]
  BY DEF Refused, MarkFailed
<1>2. PICK d \in sender[w].tokens, n \in {0, 1} : received' = [received EXCEPT ![j][d] = @ + n]
  BY DEF Refused
<1>3. j \in PushIds /\ d \in Devices /\ pushJob[j].attempts \in 0..MaxAttempts
  BY <1>1 DEF PushInv, PushTypeOK
<1>4. received[j][d] \in Nat /\ received[j][d] < pushJob[j].attempts
  BY <1>1, <1>3 DEF PushInv, PushTypeOK, AttemptsAreAhead
<1>5. received[j][d] + n \in 0..MaxAttempts /\ received[j][d] + n <= pushJob[j].attempts
  BY <1>3, <1>4
<1>6. received' = [received EXCEPT ![j] = [received[j] EXCEPT ![d] = received[j][d] + n]]
  BY <1>2, <1>3 DEF PushInv, PushTypeOK
<1>7. [received[j] EXCEPT ![d] = received[j][d] + n] \in [Devices -> 0..MaxAttempts]
  BY <1>3, <1>5 DEF PushInv, PushTypeOK
<1>8. received' \in [PushIds -> [Devices -> 0..MaxAttempts]]
  BY <1>3, <1>6, <1>7 DEF PushInv, PushTypeOK
<1>9. \A k \in PushIds \ {j} : received'[k] = received[k]
  BY <1>3, <1>6 DEF PushInv, PushTypeOK
<1>10. \A e \in Devices : received'[j][e] <= pushJob[j].attempts
  <2>1. \A e \in Devices : received'[j][e] = IF e = d THEN received[j][d] + n ELSE received[j][e]
    BY <1>3, <1>6 DEF PushInv, PushTypeOK
  <2>2. \A e \in Devices : received[j][e] <= pushJob[j].attempts
    BY <1>3 DEF PushInv, SentMeansAccepted
  <2> QED
    BY <1>5, <2>1, <2>2
<1>11. /\ status \in {"sent", "failed", "dead"} /\ status # "sent"
       /\ status = "dead" => pushJob[j].attempts = MaxAttempts
       /\ status = "failed" => pushJob[j].attempts < MaxAttempts
  BY <1>3
<1> HIDE DEF status
<1> QED
  BY <1>1, <1>8, <1>9, <1>10, <1>11, MarkStep

-----------------------------------------------------------------------------
LEMMA PushStep == PushInv /\ [PushNext]_pushVars => PushInv'
<1> USE PushBounds
<1>1. ASSUME PushInv, DeviceChanges PROVE PushInv'
  <2>1. UNCHANGED <<pushJob, sender, pushFaults, asked, accepted, received>>
    BY <1>1 DEF DeviceChanges
  <2>2. device' \in [Devices -> {"unknown", "active", "silent", "revoked"}]
    BY <1>1 DEF DeviceChanges, RegisterOrUpdate, Remove, PushInv, PushTypeOK
  <2>3. changes < MaxChanges /\ changes' = changes + 1
    BY <1>1 DEF DeviceChanges
  <2>4. changes' \in 0..MaxChanges
    BY <1>1, <2>3 DEF PushInv, PushTypeOK
  <2>5. PushTypeOK'
    BY <1>1, <2>1, <2>2, <2>4 DEF PushInv, PushTypeOK
  <2> QED
    BY <1>1, <2>1, <2>5 DEF PushInv, HandsAreWhole, AttemptsAreAhead, PendingIsNew, SentMeansAccepted,
                            OneSender, OnlyFaultsAbandon, Abandoned, InBatch
<1>2. ASSUME PushInv, NEW j \in PushIds, RetryDue(j) PROVE PushInv'
  <2>1. UNCHANGED <<sender, device, pushFaults, changes, asked, accepted, received>>
    BY <1>2 DEF RetryDue
  <2>2. \A k \in PushIds : /\ pushJob'[k].status = pushJob[k].status
                           /\ pushJob'[k].attempts = pushJob[k].attempts
    BY <1>2 DEF RetryDue, PushInv, PushTypeOK
  <2>3. pushJob' \in [PushIds -> PushRows]
    <3>1. pushJob[j] \in PushRows
      BY <1>2 DEF PushInv, PushTypeOK, PushRows
    <3>2. [pushJob[j] EXCEPT !.due = TRUE] \in PushRows
      BY <3>1, Zenon DEF PushRows
    <3> QED
      BY <1>2, <3>1, <3>2 DEF RetryDue, PushInv, PushTypeOK, PushRows
  <2>4. PushTypeOK'
    BY <1>2, <2>1, <2>3 DEF PushInv, PushTypeOK, PushRows
  <2>5. \A v \in PushWorkers : InBatch(v)' = InBatch(v) /\ InBatch(v) \subseteq PushIds
    BY <1>2, <2>1 DEF InBatch, PushInv, PushTypeOK
  <2>6. HandsAreWhole' /\ OneSender' /\ PendingIsNew'
    BY <1>2, <2>1, <2>2, <2>5 DEF PushInv, HandsAreWhole, OneSender, PendingIsNew
  <2>7. AttemptsAreAhead'
    <3>1. \A v \in PushWorkers : sender[v].batch \subseteq PushIds /\ sender[v].now \in PushIds \cup {NoPush}
      BY <1>2 DEF PushInv, PushTypeOK
    <3> QED
      BY <1>2, <2>1, <2>2, <2>5, <3>1 DEF PushInv, AttemptsAreAhead
  <2>8. SentMeansAccepted' /\ OnlyFaultsAbandon'
    BY <1>2, <2>1, <2>2, <2>5 DEF PushInv, SentMeansAccepted, OnlyFaultsAbandon, Abandoned
  <2> QED
    BY <2>4, <2>6, <2>7, <2>8 DEF PushInv
<1>3. ASSUME PushInv, NEW w \in PushWorkers, MarkLost(w) \/ WorkerStops(w) PROVE PushInv'
  <2> DEFINE done == [batch |-> sender[w].batch, now |-> NoPush, tokens |-> {}]
  <2>1. Waiting \in Senders /\ done \in Senders
    BY <1>3 DEF Waiting, Senders, PushInv, PushTypeOK
  <2>2. Done(w) = [sender EXCEPT ![w] = done]
    BY <1>3, DoneIs DEF PushInv
  <2>3. PushFault /\ UNCHANGED <<pushJob, device, changes, asked, accepted, received>>
    BY <1>3 DEF MarkLost, WorkerStops
  <2>4. sender' = [sender EXCEPT ![w] = Waiting] \/ sender' = [sender EXCEPT ![w] = done]
    BY <1>3, <2>2 DEF MarkLost, WorkerStops
  <2> HIDE DEF done
  <2>5. CASE sender' = [sender EXCEPT ![w] = Waiting]
    BY <1>3, <2>1, <2>3, <2>5, DropStep
  <2>6. CASE sender' = [sender EXCEPT ![w] = done]
    BY <1>3, <2>1, <2>3, <2>6, DropStep DEF done
  <2> QED
    BY <2>4, <2>5, <2>6
<1>4. ASSUME PushInv, UNCHANGED pushVars PROVE PushInv'
  BY <1>4 DEF pushVars, PushInv, PushTypeOK, HandsAreWhole, AttemptsAreAhead, PendingIsNew, SentMeansAccepted,
              OneSender, OnlyFaultsAbandon, Abandoned, InBatch
<1> QED
  BY <1>1, <1>2, <1>3, <1>4, ClaimStep, ReadStep, SendStep, DeliveredStep, RefusedStep DEF PushNext, WorkerStep

LEMMA PushInitially == PushInit => PushInv
<1> SUFFICES ASSUME PushInit PROVE PushInv
  OBVIOUS
<1> USE PushBounds
<1>1. PushTypeOK
  BY DEF PushInit, PushTypeOK, Waiting, PushStatuses
<1>2. \A w \in PushWorkers : InBatch(w) = {} /\ sender[w] = Waiting
  BY DEF PushInit, InBatch, Waiting
<1>3. HandsAreWhole /\ AttemptsAreAhead
  BY <1>2 DEF HandsAreWhole, AttemptsAreAhead, Waiting
<1>4. PendingIsNew /\ SentMeansAccepted /\ OneSender /\ OnlyFaultsAbandon
  BY <1>2 DEF PushInit, PendingIsNew, SentMeansAccepted, OneSender, OnlyFaultsAbandon, Abandoned
<1> QED
  BY <1>1, <1>3, <1>4 DEF PushInv

(* However workers share the jobs, fail and stop and devices come and go:  *)
(* 'sent' means that every token of the last attempt was accepted, a       *)
(* device gets no push more often than the job was attempted, a job is     *)
(* given up exactly when its attempts are used up, no job is sent by two   *)
(* workers at once, and only a fault leaves one behind.                    *)
THEOREM PushesAreCountedAlways == PushSpec => []PushesAreCounted
<1>1. PushInv => PushesAreCounted
  BY DEF PushInv, PushesAreCounted
<1> QED
  BY <1>1, PushInitially, PushStep, PTL DEF PushSpec
=============================================================================
