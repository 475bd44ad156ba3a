------------------------------- MODULE MCMobile -------------------------------
(* A device: two catch-ups that may overlap, the outbox of a room, and the   *)
(* messages the room shows.  They share nothing but the device: a behaviour  *)
(* is one of a part, the others stay as they start.  A catch-up that fails   *)
(* meets one pruned event, one that does not fail any number.  The outbox is *)
(* checked twice: with texts in one room, two with one fault or one with     *)
(* two; and with one text, sent by a room that was closed while another is   *)
(* open.  So is the room, which has two messages, one of them on an older    *)
(* page, and two sockets: with one change, one fault and the app paused and  *)
(* resumed, and with two changes and the older page while the app stays in   *)
(* the foreground.                                                           *)
EXTENDS MobileSync, MobileOutbox, ChatRoom

CONSTANT Only     \* the one controller of the part "texts"

VARIABLE part

MCVars == <<syncVars, outboxVars, roomVars, part>>

MCInit ==
    /\ part \in {"sync", "texts", "rooms", "return", "changes"}
    /\ SyncInit /\ OutboxInit /\ RoomInit
    /\ part \notin {"texts", "rooms"} => unsent = {} /\ queued = {}
    /\ part = "rooms" => unsent = WithFile /\ queued = {}

MCNext ==
    /\ UNCHANGED part
    /\ \/ /\ part = "sync" /\ SyncNext /\ UNCHANGED <<outboxVars, roomVars>>
          /\ faults' = 0 \/ Cardinality({e \in Events : tx'[e] = "pruned"}) <= 1
       \/ /\ part \in {"texts", "rooms"} /\ OutboxNext /\ UNCHANGED <<syncVars, roomVars>>
          /\ part = "texts" \/ unsent' # {} => open' \subseteq {Only}
          /\ part = "rooms" \/ Cardinality(unsent' \cup queued') > 1 => outboxFaults' < MaxOutboxFaults
       \/ /\ part \in {"return", "changes"} /\ RoomNext /\ UNCHANGED <<syncVars, outboxVars>>
          /\ part = "return" => roomChanges' < MaxRoomChanges /\ older' = NoPage
          /\ part = "changes" => roomFaults' = 0 /\ active'

OutboxRuns(A) == part \in {"texts", "rooms"} /\ A
RoomRuns(A) == part \in {"return", "changes"} /\ A

(* The fairness of the outbox and of the room, where they run.               *)
MCFairness ==
    /\ \A c \in Controllers :
          /\ WF_outboxVars(OutboxRuns(RetryStep(c))) /\ WF_outboxVars(OutboxRuns(SendStep(c)))
          /\ WF_outboxVars(OutboxRuns(LoadStep(c))) /\ WF_outboxVars(OutboxRuns(TapRetry(c)))
          /\ WF_outboxVars(OutboxRuns(Load(c)))
          /\ WF_outboxVars(OutboxRuns((part = "rooms" \/ c = Only) /\ OpenRoom(c)))
    /\ WF_roomVars(RoomRuns(Broadcast)) /\ WF_roomVars(RoomRuns(UpsertLocal))
    /\ WF_roomVars(RoomRuns(ApplyPage)) /\ WF_roomVars(RoomRuns(MergeOlder))
    /\ WF_roomVars(RoomRuns(Resume)) /\ SF_roomVars(RoomRuns(LoadMessages))
    /\ \A s \in Sockets : WF_roomVars(RoomRuns(SocketStep(s)))

MCSpec == MCInit /\ [][MCNext]_MCVars /\ MCFairness

(* What holds of the device: an item of the outbox is kept until it is       *)
(* delivered and is marked as 'sending' while it is sent, and the messages   *)
(* the room shows are the server's.                                          *)
DeviceIsRight ==
    /\ OutboxTypeOK /\ KeptUntilSent /\ SendingMeansTrying
    /\ RoomTypeOK /\ RoomIsTrue

(* What a user comes back to: texts that were queued are delivered, and the  *)
(* newest page is shown as it is.                                            *)
RoomSettles ==
    /\ QueuedIsDelivered
    /\ <>[](part \in {"return", "changes"} => \A m \in Latest : Right(m))
=============================================================================
