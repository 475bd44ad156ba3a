------------------------------ MODULE ChatRoom ------------------------------
(***************************************************************************)
(* The messages a chat room of the mobile app shows.  They come from three *)
(* sides: pages (the newest on load(), an older one on demand), the events *)
(* of the room over a web socket, and the answers to the user's own        *)
(* requests.  Pages replace or fill the list, events and answers change a  *)
(* message each; nothing compares how old they are.                        *)
(*                                                                         *)
(* A subscription opens a socket.  When the app is paused it is cancelled  *)
(* and the current socket closed; when the app resumes a load subscribes   *)
(* again.  A socket that ends, or does not open, is reconnected unless the *)
(* repository is disposed then; so more than one may be open.              *)
(***************************************************************************)
EXTENDS Naturals, FiniteSets, Sequences, FiniteSetsExt

CONSTANTS
    RoomMessages,   \* messages of the room
    Latest,         \* those of its newest page
    Sockets,        \* sockets that exist at one time
    MaxVersion,     \* bound on changes of a message
    MaxRoomChanges, \* bound on changes of all messages
    MaxRoomFaults,  \* bound on failing pages, sockets and sends
    NoPage

ASSUME RoomAssumption ==
    /\ Latest \subseteq RoomMessages /\ MaxVersion \in Nat \ {0}
    /\ MaxRoomChanges \in Nat /\ MaxRoomFaults \in Nat

VARIABLES
    row,            \* message -> its version at the server, and whether it is deleted
    broadcasts,     \* events of changes that are committed and not yet sent
    socket,         \* socket -> its state and the events on their way
    current,        \* the repository's _socket
    disposed,       \* the repository's _disposed
    subscribed,     \* the room has its subscription, the repository its controller
    active,         \* the app is in the foreground
    view,           \* message -> what the room shows
    hasMore,        \* the older page is still to be loaded
    loads, older,   \* the page on its way of load() and of loadOlder()
    answer,         \* the answer on its way to an edit of the user, and the
                    \* cached page as it was when the request was made
    cached,         \* the newest page in the device's cache
    shown, heard,   \* history: message -> version of what is shown, and of what came by
    roomChanges, roomFaults

net == <<socket, current, disposed, subscribed>>
roomState == <<view, hasMore, loads, older, answer, cached, shown>>
roomVars == <<row, broadcasts, net, active, roomState, heard, roomChanges, roomFaults>>

NoSocket == "none"
OldMessages == RoomMessages \ Latest
Absent == [v |-> 0, as |-> "absent"]
ClosedSocket == [st |-> "off", queue |-> <<>>]

RoomInit ==
    /\ row = [m \in RoomMessages |-> [v |-> 1, deleted |-> FALSE]]
    /\ broadcasts = {}
    /\ socket = [s \in Sockets |-> ClosedSocket]
    /\ current = NoSocket /\ disposed = FALSE /\ subscribed = FALSE
    /\ active = TRUE
    /\ view = [m \in RoomMessages |-> Absent] /\ hasMore = FALSE
    /\ loads = NoPage /\ older = NoPage /\ answer = NoPage /\ cached = NoPage
    /\ shown = [m \in RoomMessages |-> 0] /\ heard = [m \in RoomMessages |-> 0]
    /\ roomChanges = 0 /\ roomFaults = 0

RoomFault == roomFaults < MaxRoomFaults /\ roomFaults' = roomFaults + 1
Hear(events) == heard' = [m \in RoomMessages |-> Max({heard[m]} \cup {e.v : e \in {x \in events : x.m = m}})]
QueueOf(s) == {socket[s].queue[i] : i \in DOMAIN socket[s].queue}
Joined == {s \in Sockets : socket[s].st = "joined"}
FreeSockets == {s \in Sockets : socket[s].st = "off"}

(* What a client reads out of an event: the message, and whether the event *)
(* is of its deletion; the version stands for what the message says.       *)
EventOf(m, v, gone) == [m |-> m, v |-> v, deleted |-> gone]

---------------------------------------------------------------------------
(* The server: a change commits and its event is published, to the sockets *)
(* that are in the room then; events of two requests in any order.         *)
Changed(m, gone) ==
    /\ roomChanges < MaxRoomChanges /\ row[m].v < MaxVersion /\ ~row[m].deleted
    /\ row' = [row EXCEPT ![m] = [v |-> @.v + 1, deleted |-> gone]]
    /\ broadcasts' = broadcasts \cup {EventOf(m, row[m].v + 1, gone)}
    /\ roomChanges' = roomChanges + 1

OthersChange ==
    /\ \E m \in RoomMessages, gone \in BOOLEAN : Changed(m, gone)
    /\ UNCHANGED <<net, active, roomState, heard, roomFaults>>

(* A socket whose buffer is full does not get the event.                   *)
Broadcast ==
    \E e \in broadcasts, full \in SUBSET Joined :
        /\ broadcasts' = broadcasts \ {e}
        /\ socket' = [s \in Sockets |->
               IF s \in Joined \ full THEN [socket[s] EXCEPT !.queue = Append(@, e)] ELSE socket[s]]
        /\ IF full = {} THEN UNCHANGED roomFaults ELSE RoomFault
        /\ IF full # {} \/ Joined = {} THEN Hear({e}) ELSE UNCHANGED heard
        /\ UNCHANGED <<row, current, disposed, subscribed, active, roomState, roomChanges>>

---------------------------------------------------------------------------
(* Sockets.  One that opens is adopted unless the repository is disposed;  *)
(* it is then the current one, whatever was.                               *)
Connect(s) == socket' = [socket EXCEPT ![s] = [ClosedSocket EXCEPT !.st = "connecting"]]

Connected(s) ==
    /\ socket[s].st = "connecting"
    /\ IF disposed THEN socket' = [socket EXCEPT ![s] = ClosedSocket] /\ UNCHANGED current
       ELSE socket' = [socket EXCEPT ![s].st = "joined"] /\ current' = s
    /\ UNCHANGED <<row, broadcasts, disposed, subscribed, active, roomState, heard, roomChanges, roomFaults>>

Reconnects == ~disposed /\ subscribed

(* A socket ends, by a fault or because it was closed, and is tried again; *)
(* the delay before that is part of connecting.                            *)
ScheduleReconnect(s) ==
    /\ \/ socket[s].st \in {"connecting", "joined"} /\ RoomFault
       \/ socket[s].st = "closing" /\ UNCHANGED roomFaults
    /\ Hear(QueueOf(s))
    /\ socket' = [socket EXCEPT ![s] = [ClosedSocket EXCEPT !.st = IF Reconnects THEN "connecting" ELSE "off"]]
    /\ UNCHANGED <<row, broadcasts, current, disposed, subscribed, active, roomState, roomChanges>>

---------------------------------------------------------------------------
(* Mutant: every event puts its message in, also a deletion.               *)
ReducedAsUpdate(e) == [v |-> e.v, as |-> "live"]

(* Events: an update puts its message in or replaces it, a deletion marks  *)
(* a message that is known.                                                *)
Reduced(e) ==
    IF ~e.deleted THEN [v |-> e.v, as |-> "live"]
    ELSE IF view[e.m].as = "absent" THEN view[e.m] ELSE [view[e.m] EXCEPT !.as = "deleted"]

HandleRealtimeEvent(s) ==
    LET e == Head(socket[s].queue) IN
    /\ socket[s].st \in {"joined", "closing"} /\ socket[s].queue # <<>>
    /\ socket' = [socket EXCEPT ![s].queue = Tail(@)]
    /\ Hear({e})
    /\ IF subscribed
       THEN view' = [view EXCEPT ![e.m] = Reduced(e)] /\ shown' = [shown EXCEPT ![e.m] = e.v]
       ELSE UNCHANGED <<view, shown>>
    /\ UNCHANGED <<row, broadcasts, current, disposed, subscribed, active, hasMore, loads, older, answer,
                   cached, roomChanges, roomFaults>>

---------------------------------------------------------------------------
(* A page is what it makes the room show.  The cached one is that of the  *)
(* last load, with the answers to the user's requests put in or taken out. *)
PageOf(msgs) ==
    [m \in RoomMessages |->
        IF m \notin msgs THEN Absent
        ELSE [v |-> row[m].v, as |-> IF row[m].deleted THEN "absent" ELSE "live"]]

SaveAnswer(page) ==
    cached' = IF page = NoPage THEN cached
              ELSE [page EXCEPT ![answer.m] = [v |-> answer.v, as |-> IF answer.deleted THEN "absent" ELSE "live"]]

(* load(): the newest page as the server has it, or the one in the cache.  *)
LoadMessages ==
    /\ active /\ loads = NoPage
    /\ \/ loads' = [page |-> PageOf(Latest), save |-> TRUE] /\ UNCHANGED roomFaults
       \/ RoomFault /\ loads' = IF cached = NoPage THEN NoPage ELSE [page |-> cached, save |-> FALSE]
    /\ UNCHANGED <<row, broadcasts, net, active, view, hasMore, older, answer, cached, shown, heard, roomChanges>>

(* Mutant: the page is merged into what is shown, what it lacks stays.     *)
ReplacedByKeeping(page) == [m \in RoomMessages |-> IF page[m].as = "live" THEN page[m] ELSE view[m]]

ReplacedBy(page) == page

(* Subscribing, unless the room has its subscription.                      *)
SubscribeRealtime ==
    IF subscribed THEN UNCHANGED net
    ELSE /\ \E s \in FreeSockets : Connect(s)
         /\ disposed' = FALSE /\ subscribed' = TRUE /\ UNCHANGED current

ApplyPage ==
    /\ loads # NoPage
    /\ view' = ReplacedBy(loads.page)
    /\ shown' = [m \in RoomMessages |-> loads.page[m].v]
    /\ cached' = IF loads.save THEN loads.page ELSE cached
    /\ hasMore' = (OldMessages # {})
    /\ loads' = NoPage
    /\ SubscribeRealtime
    /\ UNCHANGED <<row, broadcasts, active, older, answer, heard, roomChanges, roomFaults>>

LoadOlder ==
    /\ active /\ hasMore /\ older = NoPage
    /\ older' = PageOf(OldMessages)
    /\ UNCHANGED <<row, broadcasts, net, active, view, hasMore, loads, answer, cached, shown, heard,
                   roomChanges, roomFaults>>

(* What is shown wins over the older page.                                 *)
MergeOlder ==
    /\ older # NoPage
    /\ LET filled == {m \in OldMessages : view[m].as = "absent"} IN
          /\ view' = [m \in RoomMessages |-> IF m \in filled THEN older[m] ELSE view[m]]
          /\ shown' = [m \in RoomMessages |-> IF m \in filled THEN older[m].v ELSE shown[m]]
    /\ hasMore' = FALSE /\ older' = NoPage
    /\ UNCHANGED <<row, broadcasts, net, active, loads, answer, cached, heard, roomChanges, roomFaults>>

OlderFails ==
    /\ older # NoPage /\ RoomFault
    /\ older' = NoPage
    /\ UNCHANGED <<row, broadcasts, net, active, view, hasMore, loads, answer, cached, shown, heard, roomChanges>>

---------------------------------------------------------------------------
(* The user's own edits and deletions: the server's answer is applied.     *)
OwnRequest ==
    /\ active /\ answer = NoPage
    /\ \E m \in RoomMessages, gone \in BOOLEAN :
          /\ view[m].as = "live"
          /\ Changed(m, gone)
          /\ answer' = [m |-> m, v |-> row[m].v + 1, deleted |-> gone, page |-> cached]
    /\ UNCHANGED <<net, active, view, hasMore, loads, older, cached, shown, heard, roomFaults>>

(* The cached page is read and then written, so it may be the earlier one  *)
(* that is written back.                                                   *)
UpsertLocal ==
    /\ answer # NoPage
    /\ SaveAnswer(cached) \/ SaveAnswer(answer.page)
    /\ view' = [view EXCEPT ![answer.m] = Reduced(answer)]
    /\ shown' = [shown EXCEPT ![answer.m] = answer.v]
    /\ answer' = NoPage
    /\ UNCHANGED <<row, broadcasts, net, active, hasMore, loads, older, heard, roomChanges, roomFaults>>

---------------------------------------------------------------------------
(* Pausing cancels the subscription, which disposes the repository and     *)
(* closes the current socket, but no other; resuming loads.                *)
SuspendRealtime ==
    /\ active /\ active' = FALSE
    /\ IF subscribed
       THEN /\ subscribed' = FALSE /\ disposed' = TRUE /\ current' = NoSocket
            /\ socket' = IF current # NoSocket /\ socket[current].st = "joined"
                         THEN [socket EXCEPT ![current].st = "closing"] ELSE socket
       ELSE UNCHANGED net
    /\ UNCHANGED <<row, broadcasts, roomState, heard, roomChanges, roomFaults>>

Resume ==
    /\ ~active /\ active' = TRUE
    /\ UNCHANGED <<row, broadcasts, net, roomState, heard, roomChanges, roomFaults>>

SocketStep(s) ==
    Connected(s) \/ ScheduleReconnect(s) \/ HandleRealtimeEvent(s)

RoomNext ==
    \/ OthersChange \/ Broadcast \/ OwnRequest \/ UpsertLocal
    \/ LoadMessages \/ ApplyPage \/ LoadOlder \/ MergeOlder \/ OlderFails
    \/ SuspendRealtime \/ Resume
    \/ \E s \in Sockets : SocketStep(s)

(* Sockets, the server and answers go on; the user comes back to the app,  *)
(* and then the room is loaded.                                            *)
RoomFairness ==
    /\ WF_roomVars(Broadcast) /\ WF_roomVars(UpsertLocal) /\ WF_roomVars(ApplyPage) /\ WF_roomVars(MergeOlder)
    /\ WF_roomVars(Resume) /\ SF_roomVars(LoadMessages)
    /\ \A s \in Sockets : WF_roomVars(SocketStep(s))

RoomSpec == RoomInit /\ [][RoomNext]_roomVars /\ RoomFairness

---------------------------------------------------------------------------
RoomTypeOK ==
    /\ row \in [RoomMessages -> [v : 1..MaxVersion, deleted : BOOLEAN]]
    /\ \A m \in RoomMessages : view[m] \in [v : 0..MaxVersion, as : {"absent", "live", "deleted"}]
    /\ \A s \in Sockets : socket[s].st \in {"off", "connecting", "joined", "closing"}
    /\ current \in Sockets \cup {NoSocket}
    /\ {disposed, subscribed, active, hasMore} \subseteq BOOLEAN
    /\ roomChanges \in 0..MaxRoomChanges /\ roomFaults \in 0..MaxRoomFaults

Pending(m) ==
    \/ \E b \in broadcasts : b.m = m
    \/ \E s \in Sockets : \E e \in QueueOf(s) : e.m = m

Right(m) ==
    IF row[m].deleted THEN view[m].as # "live" ELSE view[m] = [v |-> row[m].v, as |-> "live"]

(* Every message that should be on the screen is there as the server has   *)
(* it, and no deleted one is, unless an event is on its way, or what is    *)
(* shown is older than an event that was lost or overtaken.                *)
RoomIsTrue ==
    \A m \in RoomMessages :
        (m \in Latest \/ ~hasMore) /\ ~Pending(m) /\ shown[m] >= heard[m] /\ shown[m] > 0 => Right(m)

(* Whatever was lost, overtaken or cached: when the messages have stopped  *)
(* changing, coming back to the room shows the newest page as it is.       *)
RoomCatchesUp == <>[](\A m \in Latest : Right(m))
=============================================================================
