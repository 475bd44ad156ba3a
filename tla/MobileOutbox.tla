---------------------------- MODULE MobileOutbox ----------------------------
(***************************************************************************)
(* The outbox of a chat room in the mobile app.  A text whose send fails   *)
(* becomes an item with its client id, in a list that is kept as one value *)
(* of the device's database; the room's controller holds a copy of that    *)
(* list in memory and retries its items.  Every change of the stored list  *)
(* reads the whole list, awaits, and writes the whole list.                *)
(*                                                                         *)
(* A controller runs a load, a send and a retry at one time, and goes on   *)
(* with them when the user has left the room; the room that is opened next *)
(* has a controller of its own.  When the app dies they are all gone.      *)
(***************************************************************************)
EXTENDS Naturals, FiniteSets

CONSTANTS
    Texts,            \* what the user sends; each has one client id
    WithFile,         \* those with an uploaded file to attach
    Controllers,      \* controllers of the room
    MaxOutboxFaults   \* bound on failing requests and deaths of the app

ASSUME OutboxAssumption == WithFile \subseteq Texts /\ "none" \notin Texts /\ MaxOutboxFaults \in Nat

VARIABLES
    savedItems,       \* the stored list: text -> status of its item
    items,            \* controller -> the list in its state
    open,             \* controllers whose room is on the screen
    loading,          \* controller -> its load()
    sending,          \* controller -> its sendCurrentDraft()
    retrying,         \* controller -> its retryOutbox()
    unsent,           \* texts the user has not sent yet
    atServer,         \* texts with a message at the server
    filesAttached,    \* texts whose file is attached to their message
    outboxFaults,
    queued,           \* history: texts that were put into the outbox
    overwritten,      \* history: texts whose item a stale list has replaced
    interrupted       \* history: texts that were 'sending' when the app died

stateOf == <<items, open, loading, sending, retrying>>
outboxVars == <<savedItems, stateOf, unsent, atServer, filesAttached, outboxFaults,
                queued, overwritten, interrupted>>

NoItems == [t \in Texts |-> "none"]
NoLoad == [pc |-> "idle", list |-> NoItems]
NoSend == [pc |-> "idle", text |-> "none", list |-> NoItems]
NoRetry == [pc |-> "idle", text |-> "none", todo |-> {}, list |-> NoItems]

(* The app starts with the items an earlier one has left.                  *)
OutboxInit ==
    /\ savedItems \in [Texts -> {"none", "failed"}]
    /\ items = [c \in Controllers |-> NoItems]
    /\ open = {}
    /\ loading = [c \in Controllers |-> NoLoad]
    /\ sending = [c \in Controllers |-> NoSend]
    /\ retrying = [c \in Controllers |-> NoRetry]
    /\ queued = {t \in Texts : savedItems[t] # "none"} /\ unsent \in SUBSET (Texts \ queued)
    /\ atServer = {} /\ filesAttached = {}
    /\ outboxFaults = 0
    /\ overwritten = {} /\ interrupted = {}

OutboxFault == outboxFaults < MaxOutboxFaults /\ outboxFaults' = outboxFaults + 1
AtRest(c) == loading[c].pc = "idle" /\ sending[c].pc = "idle" /\ retrying[c].pc = "idle"

(* The list that was read, with one item changed, replaces what is stored. *)
WriteList(list, t, status) ==
    /\ savedItems' = [list EXCEPT ![t] = status]
    /\ overwritten' = overwritten \cup {x \in Texts \ {t} : list[x] # savedItems[x]}

Replaced(c, t, status) == IF items[c][t] = "none" THEN items ELSE [items EXCEPT ![c][t] = status]

---------------------------------------------------------------------------
(* The room: one is on the screen; it loads when it opens and on resuming. *)
(* A load reads the stored list and then waits for the page of messages.   *)
OpenRoom(c) ==
    /\ open = {} /\ AtRest(c)
    /\ open' = {c}
    /\ items' = [items EXCEPT ![c] = NoItems]
    /\ loading' = [loading EXCEPT ![c] = [pc |-> "page", list |-> savedItems]]
    /\ UNCHANGED <<savedItems, sending, retrying, unsent, atServer, filesAttached, outboxFaults,
                   queued, overwritten, interrupted>>

LeaveRoom(c) ==
    /\ c \in open /\ open' = {}
    /\ UNCHANGED <<savedItems, items, loading, sending, retrying, unsent, atServer, filesAttached,
                   outboxFaults, queued, overwritten, interrupted>>

Load(c) ==
    /\ c \in open /\ loading[c].pc = "idle"
    /\ loading' = [loading EXCEPT ![c] = [pc |-> "page", list |-> savedItems]]
    /\ UNCHANGED <<savedItems, items, open, sending, retrying, unsent, atServer, filesAttached,
                   outboxFaults, queued, overwritten, interrupted>>

(* The page arrives, or the cached one does instead, or neither.           *)
LoadApplies(c) ==
    /\ loading[c].pc = "page"
    /\ items' = [items EXCEPT ![c] = loading[c].list]
    /\ \/ loading' = [loading EXCEPT ![c] = [NoLoad EXCEPT !.pc = "retry"]] /\ UNCHANGED outboxFaults
       \/ loading' = [loading EXCEPT ![c] = NoLoad] /\ OutboxFault
    /\ UNCHANGED <<savedItems, open, sending, retrying, unsent, atServer, filesAttached,
                   queued, overwritten, interrupted>>

---------------------------------------------------------------------------
(* A new text: posted once; a failure puts it into the outbox.             *)
SendCurrentDraft(c) ==
    /\ c \in open /\ sending[c].pc = "idle"
    /\ \E t \in unsent :
          /\ unsent' = unsent \ {t}
          /\ sending' = [sending EXCEPT ![c] = [NoSend EXCEPT !.pc = "post", !.text = t]]
    /\ UNCHANGED <<savedItems, items, open, loading, retrying, atServer, filesAttached,
                   outboxFaults, queued, overwritten, interrupted>>

(* The server stores one message per client id, also when the answer is lost. *)
SendPosts(c) ==
    LET t == sending[c].text IN
    /\ sending[c].pc = "post"
    /\ \/ /\ atServer' = atServer \cup {t}
          /\ sending' = [sending EXCEPT ![c] = NoSend] /\ UNCHANGED outboxFaults
       \/ /\ OutboxFault /\ atServer' \in {atServer, atServer \cup {t}}
          /\ sending' = [sending EXCEPT ![c].pc = "list"]
    /\ UNCHANGED <<savedItems, items, open, loading, retrying, unsent, filesAttached,
                   queued, overwritten, interrupted>>

EnqueueReads(c) ==
    /\ sending[c].pc = "list"
    /\ sending' = [sending EXCEPT ![c].pc = "write", ![c].list = savedItems]
    /\ UNCHANGED <<savedItems, items, open, loading, retrying, unsent, atServer, filesAttached,
                   outboxFaults, queued, overwritten, interrupted>>

EnqueueFailedSend(c) ==
    LET t == sending[c].text IN
    /\ sending[c].pc = "write"
    /\ WriteList(sending[c].list, t, "failed")
    /\ items' = [items EXCEPT ![c][t] = "failed"]
    /\ queued' = queued \cup {t}
    /\ sending' = [sending EXCEPT ![c] = NoSend]
    /\ UNCHANGED <<open, loading, retrying, unsent, atServer, filesAttached, outboxFaults, interrupted>>

---------------------------------------------------------------------------
(* Retrying: the items that are not 'sending', one after the other, unless *)
(* this controller is at it already.                                       *)
Candidates(c) == {t \in Texts : items[c][t] = "failed"}

RetryOutbox(c) ==
    IF retrying[c].pc = "idle" /\ Candidates(c) # {}
    THEN retrying' = [retrying EXCEPT ![c] = [NoRetry EXCEPT !.pc = "next", !.todo = Candidates(c)]]
    ELSE UNCHANGED retrying

AutoRetry(c) ==
    /\ loading[c].pc = "retry"
    /\ loading' = [loading EXCEPT ![c] = NoLoad]
    /\ RetryOutbox(c)
    /\ UNCHANGED <<savedItems, items, open, sending, unsent, atServer, filesAttached,
                   outboxFaults, queued, overwritten, interrupted>>

TapRetry(c) ==
    /\ c \in open /\ retrying[c].pc = "idle" /\ Candidates(c) # {}
    /\ RetryOutbox(c)
    /\ UNCHANGED <<savedItems, items, open, loading, sending, unsent, atServer, filesAttached,
                   outboxFaults, queued, overwritten, interrupted>>

(* Each item in turn: the stored list is read, ...                         *)
NextItem(c) ==
    /\ retrying[c].pc = "next"
    /\ IF retrying[c].todo = {} THEN retrying' = [retrying EXCEPT ![c] = NoRetry]
       ELSE \E t \in retrying[c].todo :
                retrying' = [retrying EXCEPT ![c] =
                    [pc |-> "mark", text |-> t, todo |-> @.todo \ {t}, list |-> savedItems]]
    /\ UNCHANGED <<savedItems, items, open, loading, sending, unsent, atServer, filesAttached,
                   outboxFaults, queued, overwritten, interrupted>>

(* ... the item is saved as 'sending', ...                                 *)
MarkSending(c) ==
    LET t == retrying[c].text IN
    /\ retrying[c].pc = "mark"
    /\ WriteList(retrying[c].list, t, "sending")
    /\ items' = Replaced(c, t, "sending")
    /\ retrying' = [retrying EXCEPT ![c].pc = "post"]
    /\ UNCHANGED <<open, loading, sending, unsent, atServer, filesAttached, outboxFaults, queued, interrupted>>

(* Mutant: a message that is there counts as done, its file or not.        *)
AfterPostUnattached(t) == "delete"

AfterPost(t) == IF t \in WithFile THEN "attach" ELSE "delete"

(* ... it is posted with its client id, ...                                *)
RetryPosts(c) ==
    LET t == retrying[c].text IN
    /\ retrying[c].pc = "post"
    /\ \/ /\ atServer' = atServer \cup {t}
          /\ retrying' = [retrying EXCEPT ![c].pc = AfterPost(t)] /\ UNCHANGED outboxFaults
       \/ /\ OutboxFault /\ atServer' \in {atServer, atServer \cup {t}}
          /\ retrying' = [retrying EXCEPT ![c].pc = "fail"]
    /\ UNCHANGED <<savedItems, items, open, loading, sending, unsent, filesAttached,
                   queued, overwritten, interrupted>>

(* ... its file is attached, ...                                           *)
AttachOutboxFiles(c) ==
    LET t == retrying[c].text IN
    /\ retrying[c].pc = "attach"
    /\ \/ /\ filesAttached' = filesAttached \cup {t}
          /\ retrying' = [retrying EXCEPT ![c].pc = "delete"] /\ UNCHANGED outboxFaults
       \/ /\ OutboxFault /\ filesAttached' \in {filesAttached, filesAttached \cup {t}}
          /\ retrying' = [retrying EXCEPT ![c].pc = "fail"]
    /\ UNCHANGED <<savedItems, items, open, loading, sending, unsent, atServer,
                   queued, overwritten, interrupted>>

(* Mutant: a failure is shown and not saved.                               *)
AfterListUnsaved(pc) == IF pc = "delete" THEN "remove" ELSE "next"

AfterList(pc) == IF pc = "delete" THEN "remove" ELSE "restore"

(* ... and the list is read again, to be written without the item, or with *)
(* the item as 'failed'.                                                   *)
ListAgain(c) ==
    /\ retrying[c].pc \in {"delete", "fail"}
    /\ retrying' = [retrying EXCEPT ![c].pc = AfterList(@), ![c].list = savedItems]
    /\ UNCHANGED <<savedItems, items, open, loading, sending, unsent, atServer, filesAttached,
                   outboxFaults, queued, overwritten, interrupted>>

RemoveOutboxItem(c) ==
    LET t == retrying[c].text IN
    /\ retrying[c].pc = "remove"
    /\ WriteList(retrying[c].list, t, "none")
    /\ items' = [items EXCEPT ![c][t] = "none"]
    /\ retrying' = [retrying EXCEPT ![c].pc = "next", ![c].text = "none", ![c].list = NoItems]
    /\ UNCHANGED <<open, loading, sending, unsent, atServer, filesAttached, outboxFaults, queued, interrupted>>

SaveFailed(c) ==
    LET t == retrying[c].text IN
    /\ retrying[c].pc = "restore"
    /\ WriteList(retrying[c].list, t, "failed")
    /\ items' = Replaced(c, t, "failed")
    /\ retrying' = [retrying EXCEPT ![c].pc = "next", ![c].text = "none", ![c].list = NoItems]
    /\ UNCHANGED <<open, loading, sending, unsent, atServer, filesAttached, outboxFaults, queued, interrupted>>

---------------------------------------------------------------------------
AppDies ==
    /\ OutboxFault
    /\ open' = {}
    /\ items' = [c \in Controllers |-> NoItems]
    /\ loading' = [c \in Controllers |-> NoLoad]
    /\ sending' = [c \in Controllers |-> NoSend]
    /\ retrying' = [c \in Controllers |-> NoRetry]
    /\ interrupted' = interrupted \cup {t \in Texts : savedItems[t] = "sending"}
    /\ UNCHANGED <<savedItems, unsent, atServer, filesAttached, queued, overwritten>>

RetryStep(c) ==
    \/ NextItem(c) \/ MarkSending(c) \/ RetryPosts(c) \/ AttachOutboxFiles(c)
    \/ ListAgain(c) \/ RemoveOutboxItem(c) \/ SaveFailed(c)

SendStep(c) == SendPosts(c) \/ EnqueueReads(c) \/ EnqueueFailedSend(c)

LoadStep(c) == LoadApplies(c) \/ AutoRetry(c)

OutboxNext ==
    \/ AppDies
    \/ \E c \in Controllers :
          \/ OpenRoom(c) \/ LeaveRoom(c) \/ Load(c) \/ SendCurrentDraft(c) \/ TapRetry(c)
          \/ LoadStep(c) \/ SendStep(c) \/ RetryStep(c)

(* What has begun goes on; the user comes back to the room, resumes the    *)
(* app and taps the items that failed.                                     *)
OutboxFairness ==
    \A c \in Controllers :
        /\ WF_outboxVars(RetryStep(c)) /\ WF_outboxVars(SendStep(c)) /\ WF_outboxVars(LoadStep(c))
        /\ WF_outboxVars(OpenRoom(c)) /\ WF_outboxVars(Load(c)) /\ WF_outboxVars(TapRetry(c))

OutboxSpec == OutboxInit /\ [][OutboxNext]_outboxVars /\ OutboxFairness

---------------------------------------------------------------------------
OutboxTypeOK ==
    /\ savedItems \in [Texts -> {"none", "failed", "sending"}]
    /\ \A c \in Controllers : items[c] \in [Texts -> {"none", "failed", "sending"}]
    /\ Cardinality(open) <= 1 /\ open \subseteq Controllers
    /\ unsent \subseteq Texts /\ atServer \subseteq Texts \ unsent /\ filesAttached \subseteq atServer
    /\ outboxFaults \in 0..MaxOutboxFaults

Arrived(t) == t \in atServer /\ (t \in WithFile => t \in filesAttached)

(* A queued text is stored until its message and its file are delivered,   *)
(* whatever dies or fails, unless a list read too early was written over it. *)
KeptUntilSent ==
    \A t \in queued \ overwritten : ~Arrived(t) => savedItems[t] # "none"

(* An item that is stored as 'sending' is being sent.  The exceptions are  *)
(* the two ways to strand it, for nobody retries what is 'sending': the    *)
(* app died while it was sent, or a stale list brought the mark back.      *)
SendingMeansTrying ==
    \A t \in Texts \ (interrupted \cup overwritten) :
        savedItems[t] = "sending" => \E c \in Controllers : retrying[c].text = t

(* Apart from those two, what is queued is delivered.                      *)
QueuedIsDelivered ==
    \A t \in Texts : t \in queued ~> Arrived(t) \/ t \in interrupted \cup overwritten
=============================================================================
