------------------------------ MODULE MobileSync ------------------------------
(***************************************************************************)
(* A mobile device catches up with its workspace (modules/sync and         *)
(* mobile/lib/features/sync): it pages through outbox_events from a        *)
(* cursor, saves the cursor locally and acknowledges it to the server.     *)
(*                                                                         *)
(* The cursor is an event, and pages are ordered by created_at, the time   *)
(* its transaction BEGAN; events become visible when transactions COMMIT.  *)
(* The server's copy of the cursor is used only when the device has none.  *)
(* Catch-ups of one device may overlap (the retry button ignores           *)
(* _syncInFlight), and a cron job deletes old events.                      *)
(***************************************************************************)
EXTENDS Integers, FiniteSets, FiniteSetsExt

CONSTANTS
    LastEvent,     \* events are 1..LastEvent, in the order of (created_at, id)
    Loops,         \* catch-ups that may be under way at once
    Limit,         \* page size
    MaxPages,      \* pages of one catch-up
    MayPrune,      \* does the cron job cleanup_dead_outbox exist?
    FaultBudget    \* bound: failed calls and stops of the app

ASSUME SyncAssumption == /\ LastEvent \in Nat /\ FaultBudget \in Nat
                         /\ Limit \in Nat \ {0} /\ MaxPages \in Nat \ {0}
                         /\ MayPrune \in BOOLEAN

Events == 1..LastEvent
None   == 0          \* no cursor: the empty string, null, NULL

VARIABLES
    tx,          \* an event's transaction: none, open, committed; or pruned
    local,       \* the cursor in the device's database
    acked,       \* mobile_sync_cursors.cursor_event_id
    inFlight,    \* _syncInFlight
    degraded,    \* _networkDegraded: the retry button is on the screen
    stage,       \* per catch-up: idle, read, ask, list, save, ack
    cur, base,   \* its cursor; the cursor the server answers from
    next, more,  \* next_cursor and has_more of its last page
    pages,       \* pages it has had
    got,         \* history: events the device has received
    late,        \* history: events that became visible after a younger one
    faults

server   == <<tx, acked, late>>
device   == <<local, inFlight, degraded, got>>
loop     == <<stage, cur, base, next, more, pages>>
syncVars == <<server, device, loop, faults>>

SyncTypeOK ==
    /\ tx \in [Events -> {"none", "open", "committed", "pruned"}]
    /\ local \in Events \cup {None} /\ acked \in Events \cup {None}
    /\ inFlight \in BOOLEAN /\ degraded \in BOOLEAN
    /\ stage \in [Loops -> {"idle", "read", "ask", "list", "save", "ack"}]
    /\ cur \in [Loops -> Events \cup {None}]
    /\ base \in [Loops -> Events \cup {None}]
    /\ next \in [Loops -> Events \cup {None}]
    /\ more \in [Loops -> BOOLEAN]
    /\ pages \in [Loops -> 0..MaxPages]
    /\ got \subseteq Events /\ late \subseteq Events
    /\ faults \in 0..FaultBudget

SyncInit ==
    /\ tx = [e \in Events |-> "none"]
    /\ local = None /\ acked = None
    /\ inFlight = FALSE /\ degraded = FALSE
    /\ stage = [p \in Loops |-> "idle"]
    /\ cur = [p \in Loops |-> None] /\ base = [p \in Loops |-> None]
    /\ next = [p \in Loops |-> None] /\ more = [p \in Loops |-> FALSE]
    /\ pages = [p \in Loops |-> 0]
    /\ got = {} /\ late = {}
    /\ faults = 0

-----------------------------------------------------------------------------
(* Helpers.                                                                *)

Visible == {e \in Events : tx[e] = "committed"}

Fault == faults < FaultBudget /\ faults' = faults + 1

GoesTo(p, step) == stage' = [stage EXCEPT ![p] = step]

(* The n oldest events of S.                                               *)
Oldest(S, n) == {e \in S : Cardinality({f \in S : f < e}) < n}

(* Mutant: ORDER BY created_at DESC.                                       *)
RowsNewest(cursor) ==
    LET S == {e \in Visible : cursor = None \/ e > cursor}
    IN  {e \in S : Cardinality({f \in S : f > e}) < Limit + 1}
(* Mutant: a page is all that is asked for, so nothing ever follows it.    *)
RowsWithoutLookahead(cursor) ==
    Oldest({e \in Visible : cursor = None \/ e > cursor}, Limit)

(* ListEvents with LIMIT Limit + 1: nothing is greater than a cursor that  *)
(* is no longer in the table.                                              *)
Rows(cursor) ==
    Oldest({e \in Visible : cursor = None \/ (cursor \in Visible /\ e > cursor)}, Limit + 1)

(* _runWorkspaceCatchUp's finally.                                         *)
FinishCatchUp(p, isDegraded) ==
    /\ GoesTo(p, "idle")
    /\ cur' = [cur EXCEPT ![p] = None] /\ base' = [base EXCEPT ![p] = None]
    /\ next' = [next EXCEPT ![p] = None] /\ more' = [more EXCEPT ![p] = FALSE]
    /\ pages' = [pages EXCEPT ![p] = 0]
    /\ inFlight' = FALSE
    /\ degraded' = isDegraded

-----------------------------------------------------------------------------
(* The events.                                                             *)

(* now() of the transaction: created_at follows the order of the starts.   *)
Begin(e) ==
    /\ tx[e] = "none"
    /\ \A f \in 1..(e - 1) : tx[f] # "none"
    /\ tx' = [tx EXCEPT ![e] = "open"]
    /\ UNCHANGED <<acked, late, device, loop, faults>>

Commit(e) ==
    /\ tx[e] = "open"
    /\ tx' = [tx EXCEPT ![e] = "committed"]
    /\ late' = IF \E f \in Events : f > e /\ tx[f] \in {"committed", "pruned"}
               THEN late \cup {e} ELSE late
    /\ UNCHANGED <<acked, device, loop, faults>>

(* CleanupDeadOutbox deletes settled events 30 days old (no transaction    *)
(* lasts that long); the foreign key sets cursors on them to NULL.         *)
Prune(S) ==
    /\ MayPrune
    /\ S # {} /\ S \subseteq Visible
    /\ \A e \in 1..Max(S) : tx[e] # "open"
    /\ tx' = [e \in Events |-> IF e \in S THEN "pruned" ELSE tx[e]]
    /\ acked' = IF acked \in S THEN None ELSE acked
    /\ UNCHANGED <<late, device, loop, faults>>

-----------------------------------------------------------------------------
(* A catch-up.                                                             *)

(* The app starts or resumes, or the retry button (force) is pressed.      *)
Start(p) ==
    /\ stage[p] = "idle"
    /\ ~inFlight \/ degraded
    /\ inFlight' = TRUE
    /\ GoesTo(p, "read")
    /\ UNCHANGED <<server, local, degraded, got, cur, base, next, more, pages, faults>>

ReadCursor(p) ==
    /\ stage[p] = "read"
    /\ cur' = [cur EXCEPT ![p] = local]
    /\ GoesTo(p, "ask")
    /\ UNCHANGED <<server, device, base, next, more, pages, faults>>

(* Service.CatchUp: GetAckCursor if the request carries no cursor.         *)
Ask(p) ==
    /\ stage[p] = "ask"
    /\ base' = [base EXCEPT ![p] = IF cur[p] = None THEN acked ELSE cur[p]]
    /\ GoesTo(p, "list")
    /\ UNCHANGED <<server, device, cur, next, more, pages, faults>>

(* ... and ListEvents: an empty page has no next_cursor and ends it.       *)
List(p) ==
    /\ stage[p] = "list"
    /\ LET page == Oldest(Rows(base[p]), Limit)
       IN  /\ got' = got \cup page
           /\ IF page = {}
              THEN FinishCatchUp(p, FALSE)
              ELSE /\ next' = [next EXCEPT ![p] = Max(page)]
                   /\ more' = [more EXCEPT ![p] = Rows(base[p]) # page]
                   /\ pages' = [pages EXCEPT ![p] = @ + 1]
                   /\ GoesTo(p, "save")
                   /\ UNCHANGED <<cur, base, inFlight, degraded>>
    /\ UNCHANGED <<server, local, faults>>

(* _persistCursor: saveCursor, whatever the cursor has become meanwhile.   *)
SaveCursor(p) ==
    /\ stage[p] = "save"
    /\ local' = next[p]
    /\ GoesTo(p, "ack")
    /\ UNCHANGED <<server, inFlight, degraded, got, cur, base, next, more, pages, faults>>

(* What follows _persistCursor: the next page, or the end.                 *)
AfterPersist(p) ==
    IF more[p] /\ pages[p] < MaxPages
    THEN /\ cur' = [cur EXCEPT ![p] = next[p]]
         /\ GoesTo(p, "ask")
         /\ UNCHANGED <<base, next, more, pages, inFlight, degraded>>
    ELSE FinishCatchUp(p, FALSE)

(* Ack: the upsert selects from cursor_event, empty for a pruned event.    *)
Ack(p) ==
    /\ stage[p] = "ack"
    /\ acked' = IF next[p] \in Visible THEN next[p] ELSE acked
    /\ AfterPersist(p)
    /\ UNCHANGED <<tx, late, local, got, faults>>

-----------------------------------------------------------------------------
(* Failures.                                                               *)

(* readCursor fails: valueOrNull makes it "no cursor".                     *)
ReadFails(p) ==
    /\ Fault
    /\ stage[p] = "read"
    /\ cur' = [cur EXCEPT ![p] = None]
    /\ GoesTo(p, "ask")
    /\ UNCHANGED <<server, device, base, next, more, pages>>

(* The request, or its answer, is lost: a failure only if no page came.    *)
RequestFails(p) ==
    /\ Fault
    /\ stage[p] \in {"ask", "list"}
    /\ FinishCatchUp(p, pages[p] = 0)
    /\ UNCHANGED <<server, local, got>>

(* saveCursor fails and is ignored.                                        *)
SaveFails(p) ==
    /\ Fault
    /\ stage[p] = "save"
    /\ GoesTo(p, "ack")
    /\ UNCHANGED <<server, device, cur, base, next, more, pages>>

(* The ack fails and is ignored.                                           *)
AckFails(p) ==
    /\ Fault
    /\ stage[p] = "ack"
    /\ AfterPersist(p)
    /\ UNCHANGED <<server, local, got>>

(* The app is killed.                                                      *)
AppStops ==
    /\ Fault
    /\ \E p \in Loops : stage[p] # "idle"
    /\ stage' = [p \in Loops |-> "idle"]
    /\ cur' = [p \in Loops |-> None] /\ base' = [p \in Loops |-> None]
    /\ next' = [p \in Loops |-> None] /\ more' = [p \in Loops |-> FALSE]
    /\ pages' = [p \in Loops |-> 0]
    /\ inFlight' = FALSE /\ degraded' = FALSE
    /\ UNCHANGED <<server, local, got>>

-----------------------------------------------------------------------------
Step(p) == ReadCursor(p) \/ Ask(p) \/ List(p) \/ SaveCursor(p) \/ Ack(p)

FaultStep(p) == ReadFails(p) \/ RequestFails(p) \/ SaveFails(p) \/ AckFails(p)

SyncNext == \/ \E e \in Events : Begin(e) \/ Commit(e)
        \/ \E S \in SUBSET Events : Prune(S)
        \/ \E p \in Loops : Start(p) \/ Step(p) \/ FaultStep(p)
        \/ AppStops

SyncSpec == SyncInit /\ [][SyncNext]_syncVars

-----------------------------------------------------------------------------
(* Properties.                                                             *)

Cursors == {local, acked} \cup {next[p] : p \in Loops} \cup {cur[p] : p \in Loops}

(* However catch-ups overlap, fail and move the cursors backwards: an      *)
(* event in the table that lies before a cursor has been received, unless  *)
(* it became visible after a younger event had.                            *)
OnlyLateEventsAreSkipped ==
    /\ SyncTypeOK
    /\ \A c \in Cursors : \A e \in Visible \ late : e <= c => e \in got

(* A page with nothing after it completes the device's view: from a cursor *)
(* that still exists, it leaves only late events unseen.                   *)
LastPageCompletes ==
    [][\A p \in Loops :
          /\ List(p) /\ ~more'[p]
          /\ base[p] = None \/ base[p] \in Visible
          => Visible \ late \subseteq got']_syncVars
=============================================================================
