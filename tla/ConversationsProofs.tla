-------------------------- MODULE ConversationsProofs --------------------------
(***************************************************************************)
(* First Conversations, for any handlers, sockets, managers and bounds:    *)
(* what a handler has read when it goes on (Holds), who is on the way to a *)
(* room, and who is on the list a broadcast goes through.                  *)
(*                                                                         *)
(* Then the tree of departments, for any number of departments, channels   *)
(* and requests.  A check that is still fresh fits, and a deletion knows   *)
(* every child and every channel it has to free, except those written      *)
(* since on a stale check or on none; with that nothing is orphaned.  A    *)
(* circle made by a write would run up the line that the check has found,  *)
(* and that line had no circle.                                            *)
(***************************************************************************)
EXTENDS Conversations, Departments, FiniteSetTheorems, TLAPS

-----------------------------------------------------------------------------
(* What the handlers hold.                                                 *)

Steps    == {"idle", "direct", "lock", "session", "join", "manage", "publish", "deliver"}
Requests == [op    : {"none", "send_request", "contact", "direct", "session", "manage", "join",
                      "message", "typing"},
             by    : Users \cup {Nobody},
             ch    : Channels \cup Users \cup {"none"},
             user  : Users \cup {Nobody},
             to    : {"none", "guide", "add", "active", "muted", "removed"},
             rooms : SUBSET (Channels \cup Users)]

HandlerTypes ==
    /\ pc \in [Handlers -> Steps]
    /\ req \in [Handlers -> Requests]
    /\ left \in [Handlers -> SUBSET Sockets]

(* Whom a handler acts for, and on what.                                   *)
Holds(p) ==
    /\ pc[p] = "direct" => HasAcceptedContact
    /\ pc[p] \in {"lock", "session"} => req[p].by = SessionUser
    /\ pc[p] = "session" /\ req[p].to = "guide" => guides = 0
    /\ pc[p] = "manage" => /\ req[p].ch = "group" /\ req[p].user \in Users
                           /\ req[p].to \in {"add", "active", "muted", "removed"}
                           /\ owner # Nobody /\ req[p].by \in Managers \cup {owner}
    /\ pc[p] = "join" => req[p].ch = "group" /\ req[p].user \in Users
    /\ pc[p] = "deliver" => req[p].ch \in Channels \cup Users

HandlersHold == \A p \in Handlers : Holds(p)

(* The advisory lock is held by one at most.                               *)
OneSession == \A p, q \in Handlers : pc[p] = "session" /\ pc[q] = "session" => p = q

OneLive ==
    /\ \A i \in Cards : cards[i].st # "none" => cards[i].from \in Users /\ cards[i].to \in Users
    /\ \A i, j \in Cards : Live(i) /\ Live(j) => i = j

PrivateRows ==
    /\ directByKey => HasAcceptedContact /\ \A u \in Users : member["direct"][u] = "active"
    /\ \A u \in Users \ {SessionUser} : member["session"][u] = "none"
    /\ guides <= 1

ConvTyped == TypeOK /\ HandlerTypes /\ HandlersHold
PrivInv   == ConvTyped /\ OneSession /\ OneLive /\ PrivateRows

LEMMA BlankIsRequest == Blank \in Requests
  BY DEF Blank, Requests

LEMMA StartTypes ==
    ASSUME HandlerTypes, NEW p \in Handlers, NEW s \in Steps, NEW r \in Requests, Start(p, s, r)
    PROVE  /\ HandlerTypes' /\ left' = left
           /\ pc[p] = "idle" /\ pc'[p] = s /\ req'[p] = r
           /\ \A q \in Handlers \ {p} : pc'[q] = pc[q] /\ req'[q] = req[q]
  BY DEF HandlerTypes, Start

LEMMA FinishTypes ==
    ASSUME HandlerTypes, NEW p \in Handlers, Finish(p)
    PROVE  /\ HandlerTypes' /\ pc'[p] = "idle" /\ req'[p] = Blank /\ left'[p] = {}
           /\ \A q \in Handlers \ {p} : pc'[q] = pc[q] /\ req'[q] = req[q] /\ left'[q] = left[q]
<1>1. /\ pc' = [pc EXCEPT ![p] = "idle"] /\ req' = [req EXCEPT ![p] = Blank]
      /\ left' = [left EXCEPT ![p] = {}]
  BY DEF Finish
<1>2. pc' \in [Handlers -> Steps] /\ req' \in [Handlers -> Requests]
      /\ left' \in [Handlers -> SUBSET Sockets]
  BY <1>1, BlankIsRequest DEF HandlerTypes, Steps
<1> QED
  BY <1>1, <1>2 DEF HandlerTypes
-----------------------------------------------------------------------------
(* What each table goes through in a step.                                 *)

(* A step of a handler, apart from what it does to the history.            *)
HubMove(p) ==
    \/ \E u \in Users, c \in Channels : PublishMessage(p, u, c)
    \/ \E s \in Sockets, c \in Channels : Typing(p, s, c)
    \/ Broadcast(p)
    \/ \E s \in Sockets : Deliver(p, s) \/ DeliverPanics(p, s)
    \/ Delivered(p)

HandlerStep(p) == ContactStep(p) \/ ChannelStep(p) \/ HubMove(p)

SocketStep(s) ==
    \/ Join(s) \/ Disconnect(s)
    \/ \E u \in Users : Connect(s, u)
    \/ \E c \in Channels : AskToJoin(s, c) \/ Leave(s, c)

(* What other modules write: memberships of a public channel.              *)
OutsideStep(u) == AddWorkspaceMember(u) \/ RepairAccess(u)

LEMMA NextIs ==
    ASSUME [Next]_vars
    PROVE  /\ \/ \E p \in Handlers : HandlerStep(p)
              \/ \E s \in Sockets : SocketStep(s)
              \/ \E u \in Users : SetWorkspaceMember(u)
              \/ \E u \in Users : OutsideStep(u)
              \/ UNCHANGED vars
           /\ public' = public
  BY DEF Next, HubStep, HandlerStep, HubMove, SocketStep, OutsideStep, vars

(* Sockets and administrators leave the handlers and the tables alone.     *)
LEMMA ElsewhereKeeps ==
    ASSUME \/ \E s \in Sockets : SocketStep(s)
           \/ \E u \in Users : SetWorkspaceMember(u)
           \/ UNCHANGED vars
    PROVE  UNCHANGED <<pc, req, left, cards, owner, member, guides>>
<1>1. ASSUME NEW s \in Sockets, SocketStep(s)
      PROVE  UNCHANGED <<pc, req, left, cards, owner, member, guides>>
  BY <1>1 DEF SocketStep, Join, Disconnect, Connect, AskToJoin, Leave, data, handler
<1>2. ASSUME NEW u \in Users, SetWorkspaceMember(u)
      PROVE  UNCHANGED <<pc, req, left, cards, owner, member, guides>>
  BY <1>2 DEF SetWorkspaceMember, handler
<1>3. CASE UNCHANGED vars
  BY <1>3 DEF vars, data, handler
<1> QED
  BY <1>1, <1>2, <1>3

(* The rows another module writes are those of the group channel.          *)
LEMMA OutsideWrites ==
    ASSUME TypeOK, NEW u \in Users, OutsideStep(u)
    PROVE  /\ UNCHANGED <<pc, req, left, cards, owner, guides, sock, joining, rooms, heard>>
           /\ wsm' = [wsm EXCEPT ![u] = "active"]
           /\ changes' \in {changes, changes + 1}
           /\ \/ member' = member
              \/ /\ public /\ member' = [member EXCEPT !["group"][u] = "active"]
                 /\ member["group"][u] = "none" \/ changes' = changes + 1
<1>1. CASE AddWorkspaceMember(u)
  BY <1>1 DEF AddWorkspaceMember, EnrolInGroup, handler, hub
<1>2. CASE RepairAccess(u)
  BY <1>2 DEF RepairAccess, EnrolInGroup, NewToGroup, handler, hub, count, TypeOK
<1> QED
  BY <1>1, <1>2 DEF OutsideStep

LEMMA CardsChange ==
    ASSUME NEW p \in Handlers, HandlerStep(p)
    PROVE  \/ cards' = cards
           \/ \E u, v \in Users : CreateRequest(u, v)
           \/ \E u \in Users, i \in Cards : AcceptRequest(i, u) \/ RejectRequest(i, u)
                                            \/ CancelRequest(i, u)
  BY DEF HandlerStep, ContactStep, ChannelStep, HubMove, SendRequest, Accept, Reject, Cancel,
     CreateDirect, OpenPrivateSession, CreateChannel, RequestJoin, AskToAdd, AskToSet, Manage,
     CreateOrGetDirectConversation, LockSession, CreateOrGetPrivateSession, DeleteGuide,
     AddMember, UpdateMemberStatus, InsertRequest, PublishMessage, Typing, Broadcast, Deliver,
     DeliverPanics, Delivered, data

LEMMA OwnerChange ==
    ASSUME NEW p \in Handlers, HandlerStep(p)
    PROVE  \/ owner' = owner
           \/ \E u \in Users : owner = Nobody /\ owner' = u
  BY DEF HandlerStep, ContactStep, ChannelStep, HubMove, SendRequest, Accept, Reject, Cancel,
     Decided, CreateDirect, OpenPrivateSession, CreateChannel, InsertChannel, RequestJoin,
     AskToAdd, AskToSet, Manage, CreateOrGetDirectConversation, LockSession,
     CreateOrGetPrivateSession, DeleteGuide, AddMember, UpdateMemberStatus, InsertRequest,
     PublishMessage, Typing, Broadcast, Deliver, DeliverPanics, Delivered, data

LEMMA GuidesChange ==
    ASSUME NEW p \in Handlers, HandlerStep(p)
    PROVE  \/ guides' = guides
           \/ guides > 0 /\ guides' = guides - 1
           \/ pc[p] = "session" /\ req[p].to = "guide" /\ guides' = guides + 1
  BY DEF HandlerStep, ContactStep, ChannelStep, HubMove, SendRequest, Accept, Reject, Cancel,
     Decided, CreateDirect, OpenPrivateSession, CreateChannel, RequestJoin, AskToAdd, AskToSet,
     Manage, CreateOrGetDirectConversation, LockSession, CreateOrGetPrivateSession, DeleteGuide,
     AddMember, UpdateMemberStatus, InsertRequest, PublishMessage, Typing, Broadcast, Deliver,
     DeliverPanics, Delivered, data

(* Who writes memberships, and which.                                      *)
LEMMA MemberChange ==
    ASSUME ConvTyped, NEW p \in Handlers, HandlerStep(p)
    PROVE  \/ member' = member
           \/ \E u \in Users : /\ owner = Nobody /\ owner' = u
                               /\ member' = [member EXCEPT !["group"][u] = "active"]
           \/ /\ pc[p] = "direct" /\ ~directByKey /\ cards' = cards
              /\ member' = [member EXCEPT !["direct"] = [u \in Users |-> "active"]]
           \/ member' = [member EXCEPT !["session"][SessionUser] = "active"]
           \/ /\ pc[p] = "manage" /\ pc'[p] = "idle" /\ req[p].by \in Managers \cup {owner}
              /\ \E u \in Users, st \in {"active", "muted", "removed"} :
                    member' = [member EXCEPT !["group"][u] = st]
           \/ \E u \in Users : /\ member["group"][u] \in {"none", "left", "removed"}
                               /\ member' = [member EXCEPT !["group"][u] = "invited"]
<1>0. Holds(p) /\ HandlerTypes
  BY DEF ConvTyped, HandlersHold
<1>1. CASE ContactStep(p)
  BY <1>1 DEF ContactStep, SendRequest, Accept, Reject, Cancel, Decided
<1>2. CASE HubMove(p)
  BY <1>2 DEF HubMove, PublishMessage, Typing, Broadcast, Deliver, DeliverPanics, Delivered, data
<1>3. ASSUME NEW u \in Users, CreateChannel(p, u)
      PROVE  owner = Nobody /\ owner' = u /\ member' = [member EXCEPT !["group"][u] = "active"]
  BY <1>3 DEF CreateChannel, InsertChannel
<1>4. CASE CreateOrGetDirectConversation(p)
  BY <1>4 DEF CreateOrGetDirectConversation
<1>5. CASE CreateOrGetPrivateSession(p)
  BY <1>0, <1>5 DEF CreateOrGetPrivateSession, Holds
<1>6. CASE AddMember(p)
  BY <1>0, <1>6, FinishTypes DEF AddMember, Holds
<1>7. CASE UpdateMemberStatus(p)
  BY <1>0, <1>7, FinishTypes DEF UpdateMemberStatus, Holds
<1>8. CASE InsertRequest(p)
  BY <1>0, <1>8 DEF InsertRequest, MayRequest, Holds
<1>9. CASE member' = member
  BY <1>9
<1> QED
  BY <1>1, <1>2, <1>3, <1>4, <1>5, <1>6, <1>7, <1>8, <1>9
     DEF HandlerStep, ChannelStep, CreateDirect, OpenPrivateSession, RequestJoin, AskToAdd,
         AskToSet, Manage, LockSession, DeleteGuide, data
-----------------------------------------------------------------------------
(* The handler that moves, and the others.                                 *)

(* A started or finished request keeps what handlers hold: the new request *)
(* satisfies Holds, and nobody else's is touched.                          *)
Others(p) == \A q \in Handlers \ {p} : pc'[q] = pc[q] /\ req'[q] = req[q]

Moved(p) == HandlerTypes' /\ Others(p) /\ Holds(p)'

LEMMA Started ==
    ASSUME HandlerTypes, NEW p \in Handlers, NEW s \in {"idle", "publish"}, NEW r \in Requests,
           Start(p, s, r)
    PROVE  Moved(p)
<1>1. HandlerTypes' /\ pc'[p] = s /\ Others(p)
  BY StartTypes DEF Steps, Others
<1> QED
  BY <1>1 DEF Moved, Holds

LEMMA Finished ==
    ASSUME HandlerTypes, NEW p \in Handlers, Finish(p)
    PROVE  Moved(p)
<1>1. HandlerTypes' /\ pc'[p] = "idle" /\ Others(p)
  BY FinishTypes DEF Others
<1> QED
  BY <1>1 DEF Moved, Holds

LEMMA ContactMoves ==
    ASSUME ConvTyped, OneLive, NEW p \in Handlers, ContactStep(p)
    PROVE  Moved(p)
<1>0. HandlerTypes
  BY DEF ConvTyped
<1>1. ASSUME NEW u \in Users, NEW v \in Users, SendRequest(p, u, v) PROVE Moved(p)
  <2> DEFINE to == IF \E i \in Cards : Live(i) THEN cards[CHOOSE i \in Cards : Live(i)].to ELSE v
             r  == [Blank EXCEPT !.op = "send_request", !.rooms = {to}]
  <2>1. to \in Users
    BY DEF OneLive, Live
  <2>2. r \in Requests
    BY <2>1 DEF Blank, Requests
  <2>3. Start(p, "publish", r)
    BY <1>1 DEF SendRequest
  <2> HIDE DEF r
  <2> QED
    BY <1>0, <2>2, <2>3, Started
<1>2. ASSUME Decided(p) PROVE Moved(p)
  <2>1. [Blank EXCEPT !.op = "contact", !.rooms = Users] \in Requests
    BY DEF Blank, Requests
  <2> QED
    BY <1>0, <1>2, <2>1, Started DEF Decided
<1> QED
  BY <1>1, <1>2 DEF ContactStep, Accept, Reject, Cancel

LEMMA ChannelMoves ==
    ASSUME ConvTyped, NEW p \in Handlers, ChannelStep(p)
    PROVE  Moved(p)
<1>0. HandlerTypes /\ Holds(p)
  BY DEF ConvTyped, HandlersHold
<1>1. ASSUME NEW u \in Users, CreateDirect(p, u) PROVE Moved(p)
  <2> DEFINE r == [Blank EXCEPT !.op = "direct", !.by = u]
  <2>1. r \in Requests
    BY DEF Blank, Requests
  <2>2. Start(p, "direct", r) /\ HasAcceptedContact /\ cards' = cards
    BY <1>1 DEF CreateDirect, ensureDirectContacts, data
  <2> HIDE DEF r
  <2>3. HandlerTypes' /\ pc'[p] = "direct" /\ Others(p)
    BY <1>0, <2>1, <2>2, StartTypes DEF Steps, Others
  <2> QED
    BY <2>2, <2>3 DEF Moved, Holds, HasAcceptedContact
<1>2. ASSUME NEW u \in Users, OpenPrivateSession(p, u) PROVE Moved(p)
  <2> DEFINE r == [Blank EXCEPT !.op = "session", !.by = u]
  <2>1. r \in Requests /\ r.by = SessionUser
    BY <1>2 DEF Blank, Requests, OpenPrivateSession
  <2>2. Start(p, "lock", r)
    BY <1>2 DEF OpenPrivateSession
  <2> HIDE DEF r
  <2>3. HandlerTypes' /\ pc'[p] = "lock" /\ req'[p] = r /\ Others(p)
    BY <1>0, <2>1, <2>2, StartTypes DEF Steps, Others
  <2> QED
    BY <2>1, <2>3 DEF Moved, Holds
<1>3. ASSUME NEW u \in Users, CreateChannel(p, u) PROVE Moved(p)
  BY <1>0, <1>3, BlankIsRequest, Started DEF CreateChannel
<1>4. CASE DeleteGuide(p)
  BY <1>0, <1>4, BlankIsRequest, Started DEF DeleteGuide
<1>5. ASSUME NEW u \in Users, NEW c \in Channels, RequestJoin(p, u, c) PROVE Moved(p)
  <2> DEFINE r == [Blank EXCEPT !.op = "join", !.by = u, !.ch = c, !.user = u]
  <2>1. r \in Requests /\ r.ch = "group" /\ r.user = u
    BY <1>5 DEF Blank, Requests, RequestJoin, IsDirect
  <2>2. Start(p, "join", r)
    BY <1>5 DEF RequestJoin
  <2> HIDE DEF r
  <2>3. HandlerTypes' /\ pc'[p] = "join" /\ req'[p] = r /\ Others(p)
    BY <1>0, <2>1, <2>2, StartTypes DEF Steps, Others
  <2> QED
    BY <2>1, <2>3 DEF Moved, Holds
<1>6. ASSUME NEW u \in Users, NEW by \in Users, NEW c \in Channels,
             NEW st \in {"add", "active", "muted", "removed"}, Manage(p, by, c, u, st)
      PROVE  Moved(p)
  <2> DEFINE r == [Blank EXCEPT !.op = "manage", !.by = by, !.ch = c, !.user = u, !.to = st]
  <2>1. /\ r \in Requests /\ r.ch = "group" /\ r.user = u /\ r.to = st /\ r.by = by
        /\ owner # Nobody /\ by \in Managers \cup {owner} /\ owner' = owner
    BY <1>6 DEF Blank, Requests, Manage, CanManage, MayManage, IsDirect, data
  <2>2. Start(p, "manage", r)
    BY <1>6 DEF Manage
  <2> HIDE DEF r
  <2>3. HandlerTypes' /\ pc'[p] = "manage" /\ req'[p] = r /\ Others(p)
    BY <1>0, <2>1, <2>2, StartTypes DEF Steps, Others
  <2> QED
    BY <2>1, <2>3 DEF Moved, Holds
<1>7. CASE LockSession(p)
  <2>1. pc' = [pc EXCEPT ![p] = "session"] /\ pc[p] = "lock"
    BY <1>7 DEF LockSession
  <2>2. PICK to \in {"guide", "none"} : /\ req' = [req EXCEPT ![p].to = to]
                                        /\ to = "guide" => guides = 0
    BY <1>7 DEF LockSession
  <2>3. req \in [Handlers -> Requests] /\ pc \in [Handlers -> Steps] /\ left' = left
    BY <1>0, <1>7 DEF HandlerTypes, LockSession
  <2>4. [req[p] EXCEPT !.to = to] \in Requests
    BY <2>3 DEF Requests
  <2>5. req' = [req EXCEPT ![p] = [req[p] EXCEPT !.to = to]]
    BY <2>2, <2>3
  <2>6. HandlerTypes' /\ Others(p)
    BY <1>0, <2>1, <2>3, <2>4, <2>5 DEF HandlerTypes, Others, Steps
  <2>7. pc'[p] = "session" /\ req'[p].to = to /\ req'[p].by = SessionUser
    <3>1. req[p] \in Requests /\ req[p].by = SessionUser
      BY <1>0, <2>1, <2>3 DEF Holds
    <3>2. req'[p] = [req[p] EXCEPT !.to = to]
      BY <2>3, <2>5
    <3> QED
      BY <2>1, <2>3, <3>1, <3>2 DEF Requests
  <2>8. guides' = guides
    BY <1>7 DEF LockSession, data
  <2> QED
    BY <2>2, <2>6, <2>7, <2>8 DEF Moved, Holds
<1>8. CASE \/ CreateOrGetDirectConversation(p) \/ CreateOrGetPrivateSession(p)
           \/ AddMember(p) \/ UpdateMemberStatus(p) \/ InsertRequest(p)
  <2>1. Finish(p)
    BY <1>8 DEF CreateOrGetDirectConversation, CreateOrGetPrivateSession, AddMember,
       UpdateMemberStatus, InsertRequest
  <2> QED
    BY <1>0, <2>1, Finished
<1> QED
  BY <1>1, <1>2, <1>3, <1>4, <1>5, <1>6, <1>7, <1>8 DEF ChannelStep, AskToAdd, AskToSet

LEMMA HubMoves ==
    ASSUME ConvTyped, NEW p \in Handlers, HubMove(p)
    PROVE  Moved(p)
<1>0. HandlerTypes /\ Holds(p)
  BY DEF ConvTyped, HandlersHold
<1>1. ASSUME NEW u \in Users, NEW c \in Channels, PublishMessage(p, u, c) PROVE Moved(p)
  <2>1. [Blank EXCEPT !.op = "message", !.rooms = {c}] \in Requests
    BY DEF Blank, Requests
  <2> QED
    BY <1>0, <1>1, <2>1, Started DEF PublishMessage
<1>2. ASSUME NEW s \in Sockets, NEW c \in Channels, Typing(p, s, c) PROVE Moved(p)
  <2>1. [Blank EXCEPT !.op = "typing", !.rooms = {c}] \in Requests
    BY DEF Blank, Requests
  <2> QED
    BY <1>0, <1>2, <2>1, Started DEF Typing
<1>3. CASE Broadcast(p)
  <2>1. PICK r \in req[p].rooms : /\ left' = [left EXCEPT ![p] = InRoom(r)]
                                  /\ req' = [req EXCEPT ![p].rooms = @ \ {r}, ![p].ch = r]
    BY <1>3 DEF Broadcast
  <2>2. req \in [Handlers -> Requests] /\ req[p] \in Requests
    BY <1>0 DEF HandlerTypes
  <2>3. r \in Channels \cup Users
    BY <2>2 DEF Requests
  <2> DEFINE new == [req[p] EXCEPT !.rooms = @ \ {r}, !.ch = r]
  <2>4. new \in Requests /\ new.ch = r
    BY <2>2, <2>3 DEF Requests
  <2>5. req' = [req EXCEPT ![p] = new]
    BY <2>1, <2>2
  <2> HIDE DEF new
  <2>6. InRoom(r) \subseteq Sockets
    BY DEF InRoom, ConvTyped, TypeOK
  <2>7. pc' = [pc EXCEPT ![p] = "deliver"]
    BY <1>3 DEF Broadcast
  <2>8. HandlerTypes'
    BY <1>0, <2>1, <2>4, <2>5, <2>6, <2>7 DEF HandlerTypes, Steps
  <2>9. Others(p) /\ pc'[p] = "deliver" /\ req'[p] = new
    BY <1>0, <2>1, <2>5, <2>7 DEF HandlerTypes, Others
  <2> QED
    BY <2>3, <2>4, <2>8, <2>9 DEF Moved, Holds
<1>4. ASSUME NEW s \in Sockets, Deliver(p, s) PROVE Moved(p)
  <2>1. UNCHANGED <<pc, req>> /\ pc[p] = "deliver" /\ left' = [left EXCEPT ![p] = @ \ {s}]
    BY <1>4 DEF Deliver
  <2>2. HandlerTypes' /\ Others(p)
    BY <1>0, <2>1 DEF HandlerTypes, Others
  <2> QED
    BY <1>0, <2>1, <2>2 DEF Moved, Holds
<1>5. ASSUME NEW s \in Sockets, DeliverPanics(p, s) PROVE Moved(p)
  BY <1>0, <1>5, Finished DEF DeliverPanics
<1>6. CASE Delivered(p)
  <2>1. CASE Finish(p)
    BY <1>0, <2>1, Finished
  <2>2. CASE pc' = [pc EXCEPT ![p] = "publish"] /\ UNCHANGED <<req, left>>
    <3>1. HandlerTypes' /\ Others(p) /\ pc'[p] = "publish"
      BY <1>0, <2>2 DEF HandlerTypes, Others, Steps
    <3> QED
      BY <3>1 DEF Moved, Holds
  <2> QED
    BY <1>6, <2>1, <2>2 DEF Delivered
<1> QED
  BY <1>1, <1>2, <1>3, <1>4, <1>5, <1>6 DEF HubMove
-----------------------------------------------------------------------------
(* What is private stays so.                                               *)

CardTypes ==
    cards \in [Cards -> [st : {"none", "pending", "accepted", "rejected", "cancelled"},
                         from : Users \cup {Nobody}, to : Users \cup {Nobody}]]

(* A request is made only where none is live, and no answer revives one.   *)
LEMMA CardsStep ==
    ASSUME CardTypes, OneLive,
           \/ cards' = cards
           \/ \E u, v \in Users : CreateRequest(u, v)
           \/ \E u \in Users, i \in Cards : AcceptRequest(i, u) \/ RejectRequest(i, u)
                                            \/ CancelRequest(i, u)
    PROVE  CardTypes' /\ OneLive' /\ (HasAcceptedContact => HasAcceptedContact')
<1>1. CASE cards' = cards
  BY <1>1 DEF CardTypes, OneLive, Live, HasAcceptedContact
<1>2. ASSUME NEW u \in Users, NEW v \in Users, NEW i \in Cards, ~ \E j \in Cards : Live(j),
             cards' = [cards EXCEPT ![i] = [st |-> "pending", from |-> u, to |-> v]]
      PROVE  CardTypes' /\ OneLive' /\ (HasAcceptedContact => HasAcceptedContact')
  <2>1. CardTypes'
    BY <1>2 DEF CardTypes
  <2>2. \A j \in Cards \ {i} : cards'[j] = cards[j]
    BY <1>2 DEF CardTypes
  <2>3. cards'[i] = [st |-> "pending", from |-> u, to |-> v]
    BY <1>2 DEF CardTypes
  <2>4. OneLive'
    BY <1>2, <2>2, <2>3 DEF OneLive, Live
  <2>5. ~ HasAcceptedContact
    BY <1>2 DEF HasAcceptedContact, Live
  <2> QED
    BY <2>1, <2>4, <2>5
<1>3. ASSUME NEW i \in Cards, NEW s \in {"accepted", "rejected", "cancelled"},
             cards[i].st = "pending", cards' = [cards EXCEPT ![i].st = s]
      PROVE  CardTypes' /\ OneLive' /\ (HasAcceptedContact => HasAcceptedContact')
  <2>1. CardTypes'
    BY <1>3 DEF CardTypes
  <2>2. \A j \in Cards \ {i} : cards'[j] = cards[j]
    BY <1>3 DEF CardTypes
  <2>3. cards'[i].st = s /\ cards'[i].from = cards[i].from /\ cards'[i].to = cards[i].to
    BY <1>3 DEF CardTypes
  <2>4. Live(i) /\ \A j \in Cards : Live(j)' => Live(j)
    BY <1>3, <2>2 DEF Live
  <2>5. OneLive'
    BY <1>3, <2>2, <2>3, <2>4 DEF OneLive
  <2>6. HasAcceptedContact => HasAcceptedContact'
    BY <1>3, <2>2, <2>3 DEF HasAcceptedContact
  <2> QED
    BY <2>1, <2>5, <2>6
<1> QED
  BY <1>1, <1>2, <1>3 DEF CreateRequest, AcceptRequest, RejectRequest, CancelRequest, Responds,
     Cancels

MemberTypes == member \in [Channels -> [Users -> Statuses]]

(* One membership is written, or all those of a new direct conversation.   *)
LEMMA MemberStep ==
    ASSUME PrivInv, NEW p \in Handlers, HandlerStep(p), HasAcceptedContact => HasAcceptedContact'
    PROVE  /\ MemberTypes'
           /\ directByKey' => HasAcceptedContact' /\ \A u \in Users : member'["direct"][u] = "active"
           /\ \A u \in Users \ {SessionUser} : member'["session"][u] = "none"
<1> USE DEF MemberTypes
<1>0. MemberTypes /\ SessionUser \in Users
  BY RoleAssumption DEF PrivInv, ConvTyped, TypeOK
<1>1. PrivateRows /\ ConvTyped
  BY DEF PrivInv
<1>2. ASSUME member'["direct"] = member["direct"]
      PROVE  directByKey' => HasAcceptedContact' /\ \A u \in Users : member'["direct"][u] = "active"
  BY <1>1, <1>2 DEF PrivateRows, directByKey
<1>3. ASSUME member'["session"] = member["session"]
      PROVE  \A u \in Users \ {SessionUser} : member'["session"][u] = "none"
  BY <1>1, <1>3 DEF PrivateRows
<1>4. CASE member' = member
  BY <1>0, <1>2, <1>3, <1>4
<1>5. ASSUME NEW u \in Users, NEW st \in {"active", "muted", "removed", "invited"},
             member' = [member EXCEPT !["group"][u] = st]
      PROVE  /\ MemberTypes' /\ member'["direct"] = member["direct"]
             /\ member'["session"] = member["session"]
  BY <1>0, <1>5 DEF Channels, Statuses
<1>6. CASE /\ pc[p] = "direct"
           /\ member' = [member EXCEPT !["direct"] = [u \in Users |-> "active"]]
  <2>1. MemberTypes' /\ member'["session"] = member["session"]
        /\ \A u \in Users : member'["direct"][u] = "active"
    BY <1>0, <1>6 DEF Channels, Statuses
  <2>2. HasAcceptedContact
    BY <1>1, <1>6 DEF ConvTyped, HandlersHold, Holds
  <2> QED
    BY <1>3, <2>1, <2>2
<1>7. CASE member' = [member EXCEPT !["session"][SessionUser] = "active"]
  <2>1. MemberTypes' /\ member'["direct"] = member["direct"]
        /\ \A u \in Users \ {SessionUser} : member'["session"][u] = member["session"][u]
    BY <1>0, <1>7 DEF Channels, Statuses
  <2> QED
    BY <1>1, <1>2, <2>1 DEF PrivateRows
<1> QED
  BY <1>1, <1>2, <1>3, <1>4, <1>5, <1>6, <1>7, MemberChange

(* One handler writes the guide, the one that has the lock.                *)
LEMMA GuidesStep ==
    ASSUME PrivInv, NEW p \in Handlers, HandlerStep(p)
    PROVE  guides' \in Nat /\ guides' <= 1
<1>1. guides \in Nat /\ guides <= 1 /\ Holds(p)
  BY DEF PrivInv, ConvTyped, TypeOK, PrivateRows, HandlersHold
<1>2. pc[p] = "session" /\ req[p].to = "guide" => guides = 0
  BY <1>1 DEF Holds
<1> QED
  BY <1>1, <1>2, GuidesChange

(* The lock is taken when nobody has it, and nobody else is given it.      *)
LEMMA SessionStep ==
    ASSUME PrivInv, NEW p \in Handlers, HandlerStep(p), Moved(p)
    PROVE  OneSession'
<1>1. pc'[p] = "session" => pc[p] = "session" \/ LockFree(p)
  <2>1. HandlerTypes
    BY DEF PrivInv, ConvTyped
  <2>2. ContactStep(p) => pc'[p] = "publish"
    BY <2>1 DEF ContactStep, SendRequest, Accept, Reject, Cancel, Decided, Start, HandlerTypes
  <2>3. HubMove(p) => pc'[p] \in {"publish", "deliver", "idle"}
    BY <2>1 DEF HubMove, PublishMessage, Typing, Broadcast, Deliver, DeliverPanics, Delivered,
       Start, Finish, HandlerTypes
  <2>4. ChannelStep(p) => pc'[p] # "session" \/ LockFree(p)
    BY <2>1 DEF ChannelStep, CreateDirect, OpenPrivateSession, CreateChannel, RequestJoin,
       AskToAdd, AskToSet, Manage, CreateOrGetDirectConversation, LockSession,
       CreateOrGetPrivateSession, DeleteGuide, AddMember, UpdateMemberStatus, InsertRequest,
       Start, Finish, HandlerTypes
  <2> QED
    BY <2>2, <2>3, <2>4 DEF HandlerStep
<1>2. \A q \in Handlers \ {p} : pc'[q] = pc[q]
  BY DEF Moved, Others
<1> QED
  BY <1>1, <1>2 DEF PrivInv, OneSession, LockFree

(* What the others hold still holds.                                       *)
LEMMA HoldsStep ==
    ASSUME PrivInv, NEW p \in Handlers, HandlerStep(p), Moved(p),
           HasAcceptedContact => HasAcceptedContact'
    PROVE  HandlersHold'
<1>1. owner # Nobody => owner' = owner
  BY OwnerChange
<1>2. ASSUME NEW q \in Handlers, q # p PROVE Holds(q)'
  <2>1. Holds(q) /\ pc'[q] = pc[q] /\ req'[q] = req[q]
    BY <1>2 DEF PrivInv, ConvTyped, HandlersHold, Moved, Others
  <2>2. pc[q] = "session" /\ guides = 0 => guides' = 0
    <3>1. pc[q] = "session" => pc[p] # "session"
      BY <1>2 DEF PrivInv, OneSession
    <3> QED
      BY <3>1, GuidesChange
  <2> QED
    BY <1>1, <2>1, <2>2 DEF Holds
<1>3. Holds(p)'
  BY DEF Moved
<1> QED
  BY <1>2, <1>3 DEF HandlersHold
-----------------------------------------------------------------------------
(* The hub: who is in a room, and who has heard what.                      *)

HubTypes ==
    /\ sock \in [Sockets -> [st : {"new", "open", "closed"}, user : Users \cup {Nobody}]]
    /\ joining \in [Sockets -> Channels \cup {"none"}]
    /\ rooms \in [Channels -> SUBSET Sockets]
    /\ heard \in [Sockets -> SUBSET (Channels \cup Users)]
    /\ since \in [Sockets -> SUBSET Channels]

LEMMA HubTypesStep ==
    ASSUME ConvTyped, [Next]_vars
    PROVE  HubTypes'
<1> USE DEF HubTypes
<1>0. HubTypes /\ HandlersHold
  BY DEF ConvTyped, TypeOK
<1>1. since' \in [Sockets -> SUBSET Channels]
  <2>1. CASE UNCHANGED vars
    BY <1>0, <2>1 DEF vars
  <2>2. CASE Observe
    BY <1>0, <2>2 DEF Observe
  <2> QED
    BY <2>1, <2>2 DEF Next
<1>2. ASSUME NEW s \in Sockets, SocketStep(s) PROVE HubTypes'
  <2>1. CASE Join(s)
    BY <1>0, <1>1, <2>1 DEF Join, Channels
  <2>2. CASE Disconnect(s)
    <3>1. sock' \in [Sockets -> [st : {"new", "open", "closed"}, user : Users \cup {Nobody}]]
      BY <1>0, <2>2 DEF Disconnect
    <3>2. rooms' \in [Channels -> SUBSET Sockets] /\ joining' = joining
          /\ heard' \in [Sockets -> SUBSET (Channels \cup Users)]
      BY <1>0, <2>2 DEF Disconnect
    <3> QED
      BY <1>0, <1>1, <3>1, <3>2
  <2>3. ASSUME NEW u \in Users, Connect(s, u) PROVE HubTypes'
    BY <1>0, <1>1, <2>3 DEF Connect
  <2>4. ASSUME NEW c \in Channels, AskToJoin(s, c) \/ Leave(s, c) PROVE HubTypes'
    <3>1. CASE AskToJoin(s, c)
      BY <1>0, <1>1, <3>1 DEF AskToJoin
    <3>2. CASE Leave(s, c)
      BY <1>0, <1>1, <3>2 DEF Leave
    <3> QED
      BY <2>4, <3>1, <3>2
  <2> QED
    BY <1>2, <2>1, <2>2, <2>3, <2>4 DEF SocketStep
<1>3. ASSUME NEW p \in Handlers, HandlerStep(p) PROVE HubTypes'
  <2>1. ASSUME NEW s \in Sockets, Deliver(p, s) PROVE HubTypes'
    <3>1. req[p].ch \in Channels \cup Users
      BY <1>0, <2>1 DEF HandlersHold, Holds, Deliver
    <3>2. heard' \in [Sockets -> SUBSET (Channels \cup Users)]
      BY <1>0, <2>1, <3>1 DEF Deliver
    <3> QED
      BY <1>0, <1>1, <2>1, <3>2 DEF Deliver
  <2>2. CASE UNCHANGED hub
    BY <1>0, <1>1, <2>2 DEF hub
  <2>3. UNCHANGED hub \/ \E s \in Sockets : Deliver(p, s)
    BY <1>3 DEF HandlerStep, ContactStep, ChannelStep, HubMove, SendRequest, Accept, Reject,
       Cancel, Decided, CreateDirect, OpenPrivateSession, CreateChannel, RequestJoin, AskToAdd,
       AskToSet, Manage, CreateOrGetDirectConversation, LockSession, CreateOrGetPrivateSession,
       DeleteGuide, AddMember, UpdateMemberStatus, InsertRequest, PublishMessage, Typing,
       Broadcast, DeliverPanics, Delivered
  <2> QED
    BY <2>1, <2>2, <2>3
<1>4. CASE UNCHANGED hub
  BY <1>0, <1>1, <1>4 DEF hub
<1>5. ASSUME NEW u \in Users, OutsideStep(u) PROVE UNCHANGED hub
  BY <1>5, OutsideWrites DEF ConvTyped, hub
<1> QED
  BY <1>2, <1>3, <1>4, <1>5, NextIs DEF SetWorkspaceMember, vars

(* Only administrators count what they change.                             *)
LEMMA ChangesCount ==
    ASSUME NEW p \in Handlers, HandlerStep(p)
    PROVE  changes' = changes
  BY DEF HandlerStep, ContactStep, ChannelStep, HubMove, SendRequest, Accept, Reject,
     Cancel, Decided, CreateDirect, OpenPrivateSession, CreateChannel, RequestJoin, AskToAdd,
     AskToSet, Manage, CreateOrGetDirectConversation, LockSession, CreateOrGetPrivateSession,
     DeleteGuide, AddMember, UpdateMemberStatus, InsertRequest, PublishMessage, Typing,
     Broadcast, Deliver, DeliverPanics, Delivered, Start, Finish, count

LEMMA WorkspaceTypesStep ==
    ASSUME TypeOK, [Next]_vars
    PROVE  /\ wsm' \in [Users -> {"active", "disabled"}] /\ owner' \in Users \cup {Nobody}
           /\ changes' \in Nat
<1>1. ASSUME NEW u \in Users, SetWorkspaceMember(u)
      PROVE  wsm' \in [Users -> {"active", "disabled"}] /\ changes' = changes + 1
  BY <1>1 DEF SetWorkspaceMember, TypeOK
<1>2. ASSUME NEW u \in Users, OutsideStep(u)
      PROVE  /\ wsm' \in [Users -> {"active", "disabled"}] /\ changes' \in {changes, changes + 1}
             /\ owner' = owner
  BY <1>2, OutsideWrites DEF TypeOK
<1>3. ASSUME NEW p \in Handlers, HandlerStep(p) PROVE wsm' = wsm \/ wsm' = [u \in Users |-> "active"]
  BY <1>3 DEF HandlerStep, ContactStep, ChannelStep, HubMove, SendRequest, Accept, Reject,
     Cancel, Decided, CreateDirect, OpenPrivateSession, CreateChannel, RequestJoin, AskToAdd,
     AskToSet, Manage, CreateOrGetDirectConversation, LockSession, CreateOrGetPrivateSession,
     DeleteGuide, AddMember, UpdateMemberStatus, InsertRequest, PublishMessage, Typing,
     Broadcast, Deliver, DeliverPanics, Delivered, data
<1>4. ASSUME NEW s \in Sockets, SocketStep(s) PROVE wsm' = wsm /\ changes' = changes
  BY <1>4 DEF SocketStep, Join, Disconnect, Connect, AskToJoin, Leave, data, count
<1>5. wsm' \in [Users -> {"active", "disabled"}]
  BY <1>1, <1>2, <1>3, <1>4, NextIs DEF TypeOK, vars, data
<1>6. owner' \in Users \cup {Nobody}
  BY <1>2, NextIs, OwnerChange, ElsewhereKeeps DEF TypeOK
<1>7. changes' \in Nat
  BY <1>1, <1>2, <1>4, NextIs, ChangesCount DEF TypeOK, vars, count
<1> QED
  BY <1>5, <1>6, <1>7

LEMMA PrivStep == ASSUME PrivInv, [Next]_vars PROVE PrivInv'
<1>1. /\ HubTypes' /\ wsm' \in [Users -> {"active", "disabled"}] /\ owner' \in Users \cup {Nobody}
      /\ changes' \in Nat /\ public' \in BOOLEAN
  BY HubTypesStep, WorkspaceTypesStep, NextIs DEF PrivInv, ConvTyped, TypeOK
<1>2. ASSUME NEW p \in Handlers, HandlerStep(p) PROVE PrivInv'
  <2>1. Moved(p)
    BY <1>2, ContactMoves, ChannelMoves, HubMoves DEF HandlerStep, PrivInv
  <2>2. CardTypes' /\ OneLive' /\ (HasAcceptedContact => HasAcceptedContact')
    BY <1>2, CardsChange, CardsStep DEF PrivInv, ConvTyped, TypeOK, CardTypes
  <2>3. HandlersHold' /\ HandlerTypes' /\ OneSession'
    BY <1>2, <2>1, <2>2, HoldsStep, SessionStep DEF Moved
  <2>4. MemberTypes' /\ PrivateRows' /\ guides' \in Nat
    BY <1>2, <2>2, MemberStep, GuidesStep DEF PrivateRows
  <2> QED
    BY <1>1, <2>2, <2>3, <2>4
       DEF PrivInv, ConvTyped, TypeOK, CardTypes, HandlerTypes, Steps, MemberTypes, HubTypes
<1>3. ASSUME UNCHANGED <<pc, req, left, cards, owner, guides>>, MemberTypes',
             member'["direct"] = member["direct"], member'["session"] = member["session"]
      PROVE  PrivInv'
  <2>1. HandlersHold' /\ HandlerTypes' /\ OneSession'
    BY <1>3 DEF PrivInv, ConvTyped, HandlersHold, Holds, HandlerTypes, OneSession,
       HasAcceptedContact
  <2>2. CardTypes' /\ OneLive' /\ PrivateRows' /\ guides' \in Nat
    BY <1>3 DEF PrivInv, ConvTyped, TypeOK, CardTypes, OneLive, Live, PrivateRows,
       directByKey, HasAcceptedContact
  <2> QED
    BY <1>1, <1>3, <2>1, <2>2
       DEF PrivInv, ConvTyped, TypeOK, CardTypes, HandlerTypes, Steps, MemberTypes, HubTypes
<1>4. CASE UNCHANGED <<pc, req, left, cards, owner, member, guides>>
  BY <1>3, <1>4 DEF PrivInv, ConvTyped, TypeOK, MemberTypes
<1>5. ASSUME NEW u \in Users, OutsideStep(u) PROVE PrivInv'
  <2>1. MemberTypes /\ TypeOK
    BY DEF PrivInv, ConvTyped, TypeOK, MemberTypes
  <2>2. /\ UNCHANGED <<pc, req, left, cards, owner, guides>>
        /\ member' = member \/ member' = [member EXCEPT !["group"][u] = "active"]
    BY <1>5, <2>1, OutsideWrites
  <2>3. MemberTypes' /\ member'["direct"] = member["direct"]
        /\ member'["session"] = member["session"]
    BY <2>1, <2>2 DEF MemberTypes, Channels, Statuses
  <2> QED
    BY <1>3, <2>2, <2>3
<1> QED
  BY <1>2, <1>4, <1>5, NextIs, ElsewhereKeeps

LEMMA PrivInit == Init => PrivInv
<1> SUFFICES ASSUME Init PROVE PrivInv
  OBVIOUS
<1>1. TypeOK
  BY DEF Init, TypeOK, NoCard, NoSock, Statuses, Channels
<1>2. HandlerTypes /\ HandlersHold
  BY BlankIsRequest DEF Init, HandlerTypes, HandlersHold, Holds, Steps
<1>3. OneSession /\ OneLive
  BY DEF Init, OneSession, OneLive, Live, NoCard
<1>4. PrivateRows
  BY DEF Init, PrivateRows, directByKey, Channels
<1> QED
  BY <1>1, <1>2, <1>3, <1>4 DEF PrivInv, ConvTyped

LEMMA PrivAlways == Spec => []PrivInv
  BY PrivInit, PrivStep, PTL DEF Spec

(* However requests, answers and openings interleave, two users have at    *)
(* most one live contact request; a direct conversation exists only for    *)
(* accepted contacts and holds both of them, a private session nobody but  *)
(* its user and one guide, although managers may act on any channel id.    *)
THEOREM PrivateStaysPrivateAlways == Spec => []PrivateStaysPrivate
<1>1. PrivInv => PrivateStaysPrivate
  <2> SUFFICES ASSUME PrivInv PROVE PrivateStaysPrivate
    OBVIOUS
  <2>1. Cardinality({i \in Cards : Live(i)}) <= 1
    <3> DEFINE L == {i \in Cards : Live(i)}
    <3>1. CASE L = {}
      BY <3>1, FS_EmptySet
    <3>2. CASE L # {}
      <4>1. PICK i \in L : TRUE
        BY <3>2
      <4>2. L = {i}
        BY <4>1 DEF PrivInv, OneLive
      <4>3. Cardinality(L) = 1
        BY <4>2, FS_Singleton, Zenon
      <4> QED
        BY <4>3
    <3> QED
      BY <3>1, <3>2
  <2> QED
    BY <2>1 DEF PrivInv, ConvTyped, PrivateRows, PrivateStaysPrivate
<1> QED
  BY <1>1, PrivAlways, PTL

(* Between the check and the statement of a request to join, a manager may *)
(* add, mute or remove the user, and log-ins enrol in a public channel at  *)
(* any time.  Nobody becomes a member by asking, or by logging in again    *)
(* after a manager removed him; in a private channel what a manager has    *)
(* decided is undone by a manager only.  In a public one it is undone, and *)
(* the removed or muted are active again, when an administrator adds them  *)
(* to the workspace they may still be in.                                  *)
THEOREM ManagersAlwaysDecide == Spec => ManagersDecide
<1> DEFINE Allowed ==
        \A u \in Users :
          LET was == member["group"][u]
              is  == member'["group"][u]
          IN  was # is =>
              \/ is = "invited" /\ ~Hears(was)
              \/ owner = Nobody /\ owner' = u
              \/ \E p \in Handlers : /\ pc[p] = "manage" /\ pc'[p] = "idle"
                                     /\ req[p].by \in Managers \cup {owner}
              \/ /\ public /\ is = "active" /\ wsm'[u] = "active" /\ UNCHANGED handler
                 /\ was = "none" \/ changes' # changes
<1>1. PrivInv /\ [Next]_vars => Allowed
  <2> SUFFICES ASSUME PrivInv, [Next]_vars PROVE Allowed
    OBVIOUS
  <2>0. MemberTypes /\ ConvTyped
    BY DEF PrivInv, ConvTyped, TypeOK, MemberTypes
  <2>1. ASSUME NEW p \in Handlers, HandlerStep(p) PROVE Allowed
    <3>1. CASE member' = member
      BY <3>1
    <3>2. ASSUME NEW u \in Users, owner = Nobody, owner' = u,
                 member' = [member EXCEPT !["group"][u] = "active"]
          PROVE  Allowed
      <4>1. \A v \in Users \ {u} : member'["group"][v] = member["group"][v]
        BY <2>0, <3>2 DEF MemberTypes, Channels
      <4> QED
        BY <3>2, <4>1
    <3>3. ASSUME NEW u \in Users, member["group"][u] \in {"none", "left", "removed"},
                 member' = [member EXCEPT !["group"][u] = "invited"]
          PROVE  Allowed
      <4>1. /\ \A v \in Users \ {u} : member'["group"][v] = member["group"][v]
            /\ member'["group"][u] = "invited"
        BY <2>0, <3>3 DEF MemberTypes, Channels
      <4> QED
        BY <3>3, <4>1 DEF Hears
    <3>4. ASSUME NEW c \in {"direct", "session"}, NEW row,
                 member' = [member EXCEPT ![c] = row]
          PROVE  Allowed
      <4>1. member'["group"] = member["group"]
        BY <2>0, <3>4 DEF MemberTypes, Channels
      <4> QED
        BY <4>1
    <3> QED
      BY <2>0, <2>1, <3>1, <3>2, <3>3, <3>4, MemberChange
  <2>2. CASE UNCHANGED <<pc, req, left, cards, owner, member, guides>>
    BY <2>2
  <2>3. ASSUME NEW u \in Users, OutsideStep(u) PROVE Allowed
    <3>1. CASE member' = member
      BY <3>1
    <3>2. CASE /\ public /\ member' = [member EXCEPT !["group"][u] = "active"]
               /\ member["group"][u] = "none" \/ changes' = changes + 1
      <4>1. /\ \A v \in Users \ {u} : member'["group"][v] = member["group"][v]
            /\ member'["group"][u] = "active"
        BY <2>0, <3>2 DEF MemberTypes, Channels
      <4>2. wsm'[u] = "active" /\ UNCHANGED handler
        BY <2>0, <2>3, OutsideWrites DEF ConvTyped, TypeOK, handler
      <4>3. member["group"][u] = "none" \/ changes' # changes
        BY <2>0, <3>2 DEF ConvTyped, TypeOK
      <4> QED
        BY <3>2, <4>1, <4>2, <4>3
    <3> QED
      BY <2>0, <2>3, <3>1, <3>2, OutsideWrites DEF ConvTyped
  <2> QED
    BY <2>1, <2>2, <2>3, NextIs, ElsewhereKeeps
<1>2. ManagersDecide <=> [][Allowed]_vars
  BY DEF ManagersDecide
<1> QED
  BY <1>1, <1>2, PrivAlways, PTL DEF Spec
-----------------------------------------------------------------------------
(* Only members hear.                                                      *)

(* Who is in a room, on the way to one, or on the list of a broadcast that *)
(* is under way, has been a member since it connected.                     *)
JoinersAreMembers ==
    \A s \in Sockets : joining[s] # "none" => Open(s) /\ joining[s] \in since[s]

RoomsAreMembers == \A c \in Channels : \A s \in rooms[c] : Open(s) /\ c \in since[s]

HeardAsMembers ==
    \A s \in Sockets : /\ ~ Open(s) => heard[s] = {}
                       /\ heard[s] \subseteq since[s] \cup {sock[s].user}

ListsAreMembers ==
    \A p \in Handlers : pc[p] = "deliver" =>
        \A s \in left[p] : /\ sock[s].st # "new"
                           /\ Open(s) => req[p].ch \in since[s] \cup {sock[s].user}

HearInv == JoinersAreMembers /\ RoomsAreMembers /\ HeardAsMembers /\ ListsAreMembers

LEMMA SinceGrows ==
    ASSUME ConvTyped, [Next]_vars, NEW s \in Sockets, Open(s), sock'[s] = sock[s]
    PROVE  since[s] \subseteq since'[s]
<1>1. CASE UNCHANGED vars
  BY <1>1 DEF vars
<1>2. CASE Observe
  BY <1>2 DEF Observe, Open
<1> QED
  BY <1>1, <1>2 DEF Next

LEMMA HandlerHears ==
    ASSUME ConvTyped, HearInv, [Next]_vars, NEW p \in Handlers, HandlerStep(p), Moved(p)
    PROVE  HearInv'
<1>0. HandlerTypes /\ HandlerTypes' /\ HubTypes
  BY DEF ConvTyped, TypeOK, Moved, HubTypes
<1>1. /\ UNCHANGED <<sock, joining, rooms>>
      /\ heard' = heard \/ \E s \in Sockets : Deliver(p, s)
  BY DEF HandlerStep, ContactStep, ChannelStep, HubMove, SendRequest, Accept, Reject,
     Cancel, Decided, CreateDirect, OpenPrivateSession, CreateChannel, RequestJoin, AskToAdd,
     AskToSet, Manage, CreateOrGetDirectConversation, LockSession, CreateOrGetPrivateSession,
     DeleteGuide, AddMember, UpdateMemberStatus, InsertRequest, PublishMessage, Typing,
     Broadcast, Deliver, DeliverPanics, Delivered, hub
<1>2. \A s \in Sockets : Open(s) => since[s] \subseteq since'[s]
  BY <1>1, SinceGrows
<1>3. JoinersAreMembers' /\ RoomsAreMembers'
  BY <1>0, <1>1, <1>2 DEF HearInv, JoinersAreMembers, RoomsAreMembers, Open, HubTypes
<1>4. HeardAsMembers'
  <2>1. ASSUME NEW s \in Sockets, heard'[s] = heard[s]
        PROVE  /\ ~ Open(s)' => heard'[s] = {}
               /\ heard'[s] \subseteq since'[s] \cup {sock'[s].user}
    BY <1>1, <1>2, <2>1 DEF HearInv, HeardAsMembers, Open
  <2>2. ASSUME NEW s \in Sockets, Deliver(p, s)
        PROVE  HeardAsMembers'
    <3>1. Open(s) /\ req[p].ch \in since[s] \cup {sock[s].user}
      BY <2>2 DEF Deliver, HearInv, ListsAreMembers
    <3>2. \A t \in Sockets \ {s} : heard'[t] = heard[t]
      BY <1>0, <2>2 DEF Deliver, HubTypes
    <3>3. heard'[s] \subseteq heard[s] \cup {req[p].ch}
      BY <1>0, <2>2 DEF Deliver, HubTypes
    <3>4. heard'[s] \subseteq since'[s] \cup {sock'[s].user} /\ Open(s)'
      BY <1>1, <1>2, <3>1, <3>3 DEF HearInv, HeardAsMembers, Open
    <3> QED
      BY <2>1, <3>2, <3>4 DEF HeardAsMembers
  <2>3. CASE heard' = heard
    BY <2>1, <2>3 DEF HeardAsMembers
  <2> QED
    BY <1>1, <2>2, <2>3
<1>5. ListsAreMembers'
  <2>1. ASSUME NEW q \in Handlers, pc'[q] = "deliver", pc[q] = "deliver", req'[q].ch = req[q].ch,
               NEW s \in left'[q], s \in left[q]
        PROVE  sock'[s].st # "new" /\ (Open(s)' => req'[q].ch \in since'[s] \cup {sock'[s].user})
    <3>1. s \in Sockets
      BY <1>0, <2>1 DEF HandlerTypes
    <3> QED
      BY <1>1, <1>2, <2>1, <3>1 DEF HearInv, ListsAreMembers, Open
  <2>2. \A q \in Handlers \ {p} : left'[q] = left[q] /\ pc'[q] = pc[q] /\ req'[q] = req[q]
    <3>1. left' = left \/ \E S : left' = [left EXCEPT ![p] = S]
      BY DEF HandlerStep, ContactStep, ChannelStep, HubMove, SendRequest, Accept, Reject,
         Cancel, Decided, CreateDirect, OpenPrivateSession, CreateChannel, RequestJoin,
         AskToAdd, AskToSet, Manage, CreateOrGetDirectConversation, LockSession,
         CreateOrGetPrivateSession, DeleteGuide, AddMember, UpdateMemberStatus, InsertRequest,
         PublishMessage, Typing, Broadcast, Deliver, DeliverPanics, Delivered, Start, Finish
    <3> QED
      BY <1>0, <3>1 DEF HandlerTypes, Moved, Others
  <2>3. ASSUME NEW s \in Sockets, Deliver(p, s)
        PROVE  pc[p] = "deliver" /\ req'[p] = req[p] /\ left'[p] \subseteq left[p]
    BY <1>0, <2>3 DEF Deliver, HandlerTypes
  <2>4. ASSUME Broadcast(p), NEW s \in left'[p]
        PROVE  sock'[s].st # "new" /\ (Open(s)' => req'[p].ch \in since'[s] \cup {sock'[s].user})
    <3>1. PICK r \in req[p].rooms : /\ left' = [left EXCEPT ![p] = InRoom(r)]
                                    /\ req' = [req EXCEPT ![p].rooms = @ \ {r}, ![p].ch = r]
      BY <2>4 DEF Broadcast
    <3>2. left'[p] = InRoom(r) /\ req'[p].ch = r
      <4>1. req[p] \in Requests
        BY <1>0 DEF HandlerTypes
      <4>2. req'[p] = [req[p] EXCEPT !.rooms = @ \ {r}, !.ch = r]
        BY <1>0, <3>1 DEF HandlerTypes
      <4>3. left'[p] = InRoom(r)
        BY <1>0, <3>1 DEF HandlerTypes
      <4> QED
        BY <4>1, <4>2, <4>3 DEF Requests
    <3>3. s \in Sockets /\ Open(s) /\ r \in since[s] \cup {sock[s].user}
      <4>1. CASE r \in Channels
        BY <1>0, <2>4, <3>2, <4>1 DEF InRoom, HearInv, RoomsAreMembers, HubTypes
      <4>2. CASE r \notin Channels
        BY <2>4, <3>2, <4>2 DEF InRoom
      <4> QED
        BY <4>1, <4>2
    <3> QED
      BY <1>1, <1>2, <3>2, <3>3 DEF Open
  <2>5. pc'[p] = "deliver" => Broadcast(p) \/ \E s \in Sockets : Deliver(p, s)
    <3>1. ContactStep(p) => pc'[p] = "publish"
      BY <1>0 DEF ContactStep, SendRequest, Accept, Reject, Cancel, Decided, Start, HandlerTypes
    <3>2. ChannelStep(p) => pc'[p] # "deliver"
      BY <1>0 DEF ChannelStep, CreateDirect, OpenPrivateSession, CreateChannel, RequestJoin,
         AskToAdd, AskToSet, Manage, CreateOrGetDirectConversation, LockSession,
         CreateOrGetPrivateSession, DeleteGuide, AddMember, UpdateMemberStatus, InsertRequest,
         Start, Finish, HandlerTypes
    <3>3. HubMove(p) => pc'[p] # "deliver" \/ Broadcast(p) \/ \E s \in Sockets : Deliver(p, s)
      BY <1>0 DEF HubMove, PublishMessage, Typing, DeliverPanics, Delivered, Start, Finish,
         HandlerTypes
    <3> QED
      BY <3>1, <3>2, <3>3 DEF HandlerStep
  <2>6. ASSUME NEW q \in Handlers, pc'[q] = "deliver", NEW s \in left'[q]
        PROVE  sock'[s].st # "new" /\ (Open(s)' => req'[q].ch \in since'[s] \cup {sock'[s].user})
    <3>1. CASE q # p
      BY <2>1, <2>2, <2>6, <3>1
    <3>2. CASE q = p
      BY <2>1, <2>3, <2>4, <2>5, <2>6, <3>2
    <3> QED
      BY <3>1, <3>2
  <2> QED
    BY <2>6 DEF ListsAreMembers
<1> QED
  BY <1>3, <1>4, <1>5 DEF HearInv

LEMMA SocketHears ==
    ASSUME ConvTyped, HearInv, [Next]_vars, NEW s \in Sockets, SocketStep(s)
    PROVE  HearInv'
<1>0. HubTypes /\ HandlerTypes /\ UNCHANGED <<pc, req, left>>
  BY ElsewhereKeeps DEF ConvTyped, TypeOK, HubTypes
<1>1. ASSUME NEW t \in Sockets, sock'[t] = sock[t], Open(t) PROVE since[t] \subseteq since'[t]
  BY <1>1, SinceGrows
<1>2. CASE UNCHANGED <<sock, heard>>
  <2>1. HeardAsMembers' /\ ListsAreMembers'
    BY <1>0, <1>1, <1>2 DEF HearInv, HeardAsMembers, ListsAreMembers, Open, HandlerTypes
  <2>2. CASE Join(s)
    <3>1. JoinersAreMembers'
      BY <1>0, <1>1, <1>2, <2>2 DEF HearInv, JoinersAreMembers, Join, Open, HubTypes
    <3>2. RoomsAreMembers'
      BY <1>0, <1>1, <1>2, <2>2
         DEF HearInv, JoinersAreMembers, RoomsAreMembers, Join, Open, HubTypes
    <3> QED
      BY <2>1, <3>1, <3>2 DEF HearInv
  <2>3. ASSUME NEW c \in Channels, AskToJoin(s, c) PROVE HearInv'
    <3>1. Open(s) /\ Hears(member[c][sock[s].user]) /\ member' = member /\ Open(s)'
      BY <1>2, <2>3 DEF AskToJoin, CanJoinRoom, data, Open
    <3>2. c \in since'[s]
      <4>1. Observe
        <5>1. joining'[s] = c /\ joining[s] = "none" /\ c # "none"
          BY <1>0, <2>3 DEF AskToJoin, HubTypes, Channels
        <5> QED
          BY <5>1 DEF Next, vars, hub
      <4> QED
        BY <1>2, <3>1, <4>1 DEF Observe, Open
    <3>3. JoinersAreMembers'
      BY <1>0, <1>1, <1>2, <2>3, <3>1, <3>2 DEF HearInv, JoinersAreMembers, AskToJoin, Open, HubTypes
    <3>4. RoomsAreMembers'
      BY <1>0, <1>1, <1>2, <2>3 DEF HearInv, RoomsAreMembers, AskToJoin, Open, HubTypes
    <3> QED
      BY <2>1, <3>3, <3>4 DEF HearInv
  <2>4. ASSUME NEW c \in Channels, Leave(s, c) PROVE HearInv'
    <3>1. JoinersAreMembers' /\ RoomsAreMembers'
      BY <1>0, <1>1, <1>2, <2>4
         DEF HearInv, JoinersAreMembers, RoomsAreMembers, Leave, Open, HubTypes
    <3> QED
      BY <2>1, <3>1 DEF HearInv
  <2>5. ~ Disconnect(s) /\ \A u \in Users : ~ Connect(s, u)
    <3>1. Disconnect(s) \/ (\E u \in Users : Connect(s, u)) => sock'[s].st # sock[s].st
      BY <1>0 DEF Disconnect, Connect, Open, HubTypes
    <3> QED
      BY <1>2, <3>1
  <2> QED
    BY <2>2, <2>3, <2>4, <2>5 DEF SocketStep
<1>3. CASE Disconnect(s)
  <2>1. /\ sock'[s].st = "closed" /\ heard'[s] = {} /\ joining' = joining /\ joining[s] = "none"
        /\ \A t \in Sockets \ {s} : sock'[t] = sock[t] /\ heard'[t] = heard[t]
        /\ \A c \in Channels : rooms'[c] = rooms[c] \ {s}
    BY <1>0, <1>3 DEF Disconnect, HubTypes
  <2>2. JoinersAreMembers' /\ RoomsAreMembers'
    BY <1>0, <1>1, <2>1 DEF HearInv, JoinersAreMembers, RoomsAreMembers, Open, HubTypes
  <2>3. HeardAsMembers' /\ ListsAreMembers'
    BY <1>0, <1>1, <2>1 DEF HearInv, HeardAsMembers, ListsAreMembers, Open, HandlerTypes
  <2> QED
    BY <2>2, <2>3 DEF HearInv
<1>4. ASSUME NEW u \in Users, Connect(s, u) PROVE HearInv'
  <2>1. /\ ~ Open(s) /\ sock[s].st = "new" /\ sock'[s].st = "open"
        /\ UNCHANGED <<heard, joining, rooms>>
        /\ \A t \in Sockets \ {s} : sock'[t] = sock[t]
    BY <1>0, <1>4 DEF Connect, HubTypes, Open
  <2>2. /\ heard[s] = {} /\ joining[s] = "none" /\ \A c \in Channels : s \notin rooms[c]
    BY <2>1 DEF HearInv, JoinersAreMembers, RoomsAreMembers, HeardAsMembers
  <2>3. JoinersAreMembers'
    BY <1>0, <1>1, <2>1, <2>2 DEF HearInv, JoinersAreMembers, Open, HubTypes
  <2>4. RoomsAreMembers'
    BY <1>0, <1>1, <2>1, <2>2 DEF HearInv, RoomsAreMembers, Open, HubTypes
  <2>5. HeardAsMembers' /\ ListsAreMembers'
    BY <1>0, <1>1, <2>1, <2>2 DEF HearInv, HeardAsMembers, ListsAreMembers, Open, HandlerTypes
  <2> QED
    BY <2>3, <2>4, <2>5 DEF HearInv
<1>5. CASE Join(s) \/ \E c \in Channels : AskToJoin(s, c) \/ Leave(s, c)
  BY <1>2, <1>5 DEF Join, AskToJoin, Leave
<1> QED
  BY <1>3, <1>4, <1>5 DEF SocketStep

(* A socket is in a room, and has heard its events, only if its user was a *)
(* member at some time since it connected; a user's own events reach that  *)
(* user's sockets alone, although a broadcast works on old lists.          *)
THEOREM OnlyMembersAlwaysHear == Spec => []OnlyMembersHear
<1>1. Init => HearInv
  BY DEF Init, HearInv, JoinersAreMembers, RoomsAreMembers, HeardAsMembers, ListsAreMembers,
     Open, NoSock
<1>2. PrivInv /\ HearInv /\ [Next]_vars => HearInv'
  <2> SUFFICES ASSUME PrivInv, HearInv, [Next]_vars PROVE HearInv'
    OBVIOUS
  <2>0. ConvTyped /\ HubTypes /\ HandlerTypes
    BY DEF PrivInv, ConvTyped, TypeOK, HubTypes
  <2>1. ASSUME NEW p \in Handlers, HandlerStep(p) PROVE HearInv'
    <3>1. Moved(p)
      BY <2>1, ContactMoves, ChannelMoves, HubMoves DEF HandlerStep, PrivInv
    <3> QED
      BY <2>0, <2>1, <3>1, HandlerHears
  <2>2. ASSUME NEW s \in Sockets, SocketStep(s) PROVE HearInv'
    BY <2>0, <2>2, SocketHears
  <2>3. CASE UNCHANGED <<pc, req, left, sock, joining, rooms, heard>>
    <3>1. \A s \in Sockets : Open(s) => since[s] \subseteq since'[s]
      BY <2>0, <2>3, SinceGrows
    <3>2. JoinersAreMembers' /\ RoomsAreMembers'
      BY <2>0, <2>3, <3>1 DEF HearInv, JoinersAreMembers, RoomsAreMembers, Open, HubTypes
    <3>3. HeardAsMembers' /\ ListsAreMembers'
      BY <2>0, <2>3, <3>1 DEF HearInv, HeardAsMembers, ListsAreMembers, Open, HandlerTypes
    <3> QED
      BY <3>2, <3>3 DEF HearInv
  <2>4. (\E u \in Users : SetWorkspaceMember(u) \/ OutsideStep(u)) \/ UNCHANGED vars
        => UNCHANGED <<pc, req, left, sock, joining, rooms, heard>>
    BY <2>0, OutsideWrites DEF ConvTyped, SetWorkspaceMember, vars, handler, hub
  <2> QED
    BY <2>1, <2>2, <2>3, <2>4, NextIs
<1>3. HearInv => OnlyMembersHear
  BY DEF HearInv, RoomsAreMembers, HeardAsMembers, OnlyMembersHear
<1> QED
  BY <1>1, <1>2, <1>3, PrivAlways, PTL DEF Spec

-----------------------------------------------------------------------------
(* The tree of departments.                                                *)

FreshFits ==
    \A h \in Editors : fresh[h] =>
        /\ step[h] = "write" /\ Deleting = {}
        /\ CanSetParent(node[h], under[h])

KidsKnown ==
    \A h \in Editors : step[h] \in {"channels", "commit"} =>
        /\ node[h] \notin kids[h]
        /\ \A x \in LiveDepts \ {node[h]} : parent[x] = node[h] => x \in kids[h] \cup bent

ChannelsKnown ==
    \A h \in Editors : step[h] = "commit" =>
        \A c \in Chans : filed[c] = node[h] => c \in chans[h] \cup strays

DeptInv == DeptTypeOK /\ FreshFits /\ KidsKnown /\ ChannelsKnown /\ NothingOrphaned /\ NoCircle

---------------------------------------------------------------------------
LEMMA PutTypes ==
    ASSUME DeptTypeOK, NEW d \in Depts, NEW p \in Depts \cup {Top}, NEW fits, Put(d, p, fits)
    PROVE  /\ life' \in [Depts -> {"none", "live", "gone"}] /\ parent' \in [Depts -> Depts \cup {Top}]
           /\ fresh' \in [Editors -> BOOLEAN] /\ bent' \subseteq Depts
<1>1. bent' = bent \ {d} \/ bent' = bent \cup {d}
  <2>1. CASE fits
    BY <2>1, Zenon DEF Put
  <2>2. CASE ~fits
    BY <2>2, Zenon DEF Put
  <2> QED BY <2>1, <2>2
<1>2. bent' \subseteq Depts
  BY <1>1 DEF DeptTypeOK
<1>3. /\ life' \in [Depts -> {"none", "live", "gone"}] /\ parent' \in [Depts -> Depts \cup {Top}]
      /\ fresh' \in [Editors -> BOOLEAN]
  BY DEF Put, Overtake, DeptTypeOK
<1> QED BY <1>2, <1>3

LEMMA TypeStep == DeptTypeOK /\ [DeptNext]_deptVars => DeptTypeOK'
<1> SUFFICES ASSUME DeptTypeOK, [DeptNext]_deptVars PROVE DeptTypeOK'
  OBVIOUS
<1> USE DeptAssumption DEF DeptTypeOK
<1>1. CASE FileChannel
  BY <1>1 DEF FileChannel, Unused, work, tree
<1>2. ASSUME NEW h \in Editors, Check(h) PROVE DeptTypeOK'
  BY <1>2 DEF Check, Begin, LiveDepts, NewIds, Unused, tree
<1>3. ASSUME NEW h \in Editors, Write(h) PROVE DeptTypeOK'
  <2>1. node[h] \in Depts /\ under[h] \in Depts \cup {Top}
    BY <1>3 DEF Write
  <2>2. bent' \subseteq Depts /\ life' \in [Depts -> {"none", "live", "gone"}]
        /\ parent' \in [Depts -> Depts \cup {Top}] /\ fresh' \in [Editors -> BOOLEAN]
    <3>1. CASE life[node[h]] = "gone"
      BY <1>3, <3>1 DEF Write, tree
    <3>2. CASE life[node[h]] # "gone"
      <4>1. Put(node[h], under[h], fresh[h] \/ Fits(node[h], under[h]))
        BY <1>3, <3>2 DEF Write
      <4> QED BY <2>1, <4>1, PutTypes
    <3> QED BY <3>1, <3>2
  <2> QED BY <1>3, <2>2 DEF Write, Done
<1>4. ASSUME NEW h \in Editors, WriteTop(h) PROVE DeptTypeOK'
  BY <1>4 DEF WriteTop, Put, Overtake, LiveDepts, NewIds, Unused
<1>5. ASSUME NEW h \in Editors, Delete(h) PROVE DeptTypeOK'
  BY <1>5 DEF Delete, Begin, Overtake, LiveDepts, tree
<1>6. ASSUME NEW h \in Editors, FreeChildren(h) PROVE DeptTypeOK'
  BY <1>6 DEF FreeChildren, Children, LiveDepts, tree
<1>7. ASSUME NEW h \in Editors, FreeChannels(h) PROVE DeptTypeOK'
  BY <1>7 DEF FreeChannels, tree
<1>8. ASSUME NEW h \in Editors, Commit(h) PROVE DeptTypeOK'
  BY <1>8 DEF Commit, Done, Overtake
<1>9. ASSUME NEW h \in Editors, Rollback(h) PROVE DeptTypeOK'
  BY <1>9 DEF Rollback, Done, tree
<1>10. CASE UNCHANGED deptVars
  BY <1>10 DEF deptVars, tree, work
<1> QED
  BY <1>1, <1>2, <1>3, <1>4, <1>5, <1>6, <1>7, <1>8, <1>9, <1>10 DEF DeptNext

(* The rows and the requests keep their types.                             *)
THEOREM DeptTypeAlways == DeptSpec => []DeptTypeOK
<1>1. DeptInit => DeptTypeOK
  BY DEF DeptInit, DeptTypeOK
<1> QED
  BY <1>1, TypeStep, PTL DEF DeptSpec

---------------------------------------------------------------------------
(* The effect of a row that is written, by Write or WriteTop.  It fits when *)
(* it is at the top, or the check found its line.                           *)
Written(d, p, ok) ==
    /\ d \in Depts
    /\ life' = [life EXCEPT ![d] = "live"] /\ parent' = [parent EXCEPT ![d] = p]
    /\ Overtake
    /\ ok => bent' = bent \ {d} /\ (p = Top \/ (CanSetParent(d, p) /\ p \notin Doomed))
    /\ ~ok => bent' = bent \cup {d}

LEMMA WriteEffect ==
    ASSUME DeptInv, NEW h \in Editors, Write(h)
    PROVE  \/ UNCHANGED tree
           \/ \E d \in Depts, p \in Depts \cup {Top}, ok \in BOOLEAN : Written(d, p, ok)
<1> DEFINE d == node[h]
           p == under[h]
<1>1. d \in Depts /\ p \in Depts \cup {Top}
  BY DEF DeptInv, DeptTypeOK, Write
<1>2. CASE life[d] = "gone"
  BY <1>2 DEF Write
<1>3. CASE life[d] # "gone"
  <2>1. Put(d, p, fresh[h] \/ Fits(d, p))
    BY <1>3 DEF Write
  <2>2. CASE fresh[h] \/ Fits(d, p)
    <3>1. CanSetParent(d, p) /\ p \notin Doomed
      <4>1. CASE fresh[h]
        <5>1. CanSetParent(d, p) /\ Deleting = {}
          BY <4>1 DEF DeptInv, FreshFits
        <5> QED BY <5>1 DEF Doomed
      <4>2. CASE Fits(d, p)
        BY <4>2 DEF Fits
      <4> QED BY <2>2, <4>1, <4>2
    <3>2. bent' = bent \ {d}
      BY <2>1, <2>2, Zenon DEF Put
    <3>3. Written(d, p, TRUE)
      BY <1>1, <2>1, <3>1, <3>2 DEF Put, Written
    <3> QED BY <1>1, <3>3
  <2>3. CASE ~(fresh[h] \/ Fits(d, p))
    <3>1. bent' = bent \cup {d}
      BY <2>1, <2>3, Zenon DEF Put
    <3>2. Written(d, p, FALSE)
      BY <1>1, <2>1, <3>1 DEF Put, Written
    <3> QED BY <1>1, <3>2
  <2> QED BY <2>2, <2>3
<1> QED BY <1>2, <1>3

LEMMA WriteTopEffect ==
    ASSUME DeptInv, NEW h \in Editors, WriteTop(h)
    PROVE  \E d \in Depts : Written(d, Top, TRUE)
<1>1. PICK d \in NewIds \cup LiveDepts : Put(d, Top, TRUE)
  BY DEF WriteTop
<1>2. d \in Depts
  BY DEF NewIds, Unused, LiveDepts
<1>3. Written(d, Top, TRUE)
  BY <1>1, <1>2 DEF Put, Written
<1> QED BY <1>2, <1>3

---------------------------------------------------------------------------
(* A check stays fresh only while no row is written and nothing is deleted. *)
LEMMA FreshStep == DeptInv /\ [DeptNext]_deptVars => FreshFits'
<1> SUFFICES ASSUME DeptInv, [DeptNext]_deptVars, NEW g \in Editors, fresh'[g]
             PROVE  /\ step'[g] = "write" /\ Deleting' = {}
                    /\ CanSetParent(node[g], under[g])'
  BY DEF FreshFits
<1> USE DEF DeptInv, DeptTypeOK
<1>1. CASE FileChannel \/ UNCHANGED deptVars
  <2>1. UNCHANGED <<tree, work>>
    BY <1>1 DEF FileChannel, deptVars
  <2> QED BY <2>1 DEF FreshFits, CanSetParent, LiveDepts, Deleting, tree, work
<1>2. ASSUME NEW h \in Editors, Check(h)
      PROVE  step'[g] = "write" /\ Deleting' = {} /\ CanSetParent(node[g], under[g])'
  <2>1. PICK d \in NewIds \cup LiveDepts, p \in Depts : CanSetParent(d, p) /\ Begin(h, "write", d, p)
    BY <1>2 DEF Check
  <2>2. UNCHANGED tree /\ fresh' = [fresh EXCEPT ![h] = (Deleting = {})]
    BY <1>2 DEF Check
  <2>3. Deleting' = Deleting
    BY <2>1 DEF Begin, Deleting
  <2>4. CASE g = h
    <3>1. Deleting = {}
      BY <2>2, <2>4, Zenon
    <3>2. step'[g] = "write" /\ node'[g] = d /\ under'[g] = p
      BY <2>1, <2>4 DEF Begin
    <3> QED BY <2>1, <2>2, <2>3, <3>1, <3>2 DEF CanSetParent, LiveDepts, tree
  <2>5. CASE g # h
    <3>1. fresh[g] /\ step'[g] = step[g] /\ node'[g] = node[g] /\ under'[g] = under[g]
      BY <2>1, <2>2, <2>5 DEF Begin
    <3> QED BY <2>2, <2>3, <3>1 DEF FreshFits, CanSetParent, LiveDepts, tree
  <2> QED BY <2>4, <2>5
<1>3. ASSUME NEW h \in Editors, Write(h) \/ Rollback(h)
      PROVE  step'[g] = "write" /\ Deleting' = {} /\ CanSetParent(node[g], under[g])'
  <2>1. ~Overtake
    BY DEF Overtake
  <2>2. UNCHANGED tree /\ Done(h)
    BY <1>3, <2>1 DEF Write, Put, Rollback
  <2>3. g # h
    <3>1. CASE Write(h)
      BY <2>1, <3>1 DEF Write, Put
    <3>2. CASE Rollback(h)
      BY <3>2 DEF Rollback, Deleting, FreshFits
    <3> QED BY <1>3, <3>1, <3>2
  <2>4. fresh[g]
    BY <1>3, <2>1, <2>3 DEF Write, Put, Rollback
  <2>5. step'[g] = step[g] /\ node'[g] = node[g] /\ under'[g] = under[g] /\ Deleting' \subseteq Deleting
    BY <2>2, <2>3 DEF Done, Deleting
  <2> QED BY <2>2, <2>4, <2>5 DEF FreshFits, CanSetParent, LiveDepts, tree
<1>4. ASSUME NEW h \in Editors, FreeChildren(h) \/ FreeChannels(h) PROVE FALSE
  <2>1. h \in Deleting /\ fresh' = fresh
    BY <1>4 DEF FreeChildren, FreeChannels, Deleting
  <2> QED BY <2>1 DEF FreshFits
<1>5. ASSUME NEW h \in Editors, WriteTop(h) \/ Delete(h) \/ Commit(h) PROVE FALSE
  <2>1. Overtake
    BY <1>5 DEF WriteTop, Put, Delete, Commit
  <2> QED BY <2>1 DEF Overtake
<1> QED
  BY <1>1, <1>2, <1>3, <1>4, <1>5 DEF DeptNext

(* A deletion that has freed the children knows all that are under it,      *)
(* for what is put there afterwards does not fit.                           *)
LEMMA KidsWritten ==
    ASSUME DeptInv, NEW d \in Depts, NEW p \in Depts \cup {Top}, NEW ok \in BOOLEAN, Written(d, p, ok),
           NEW g \in Editors, step[g] \in {"channels", "commit"}
    PROVE  \A x \in LiveDepts' \ {node[g]} : parent'[x] = node[g] => x \in kids[g] \cup bent'
<1> USE DEF DeptInv, DeptTypeOK
<1>1. SUFFICES ASSUME NEW x \in LiveDepts', x # node[g], parent'[x] = node[g]
               PROVE  x \in kids[g] \cup bent'
  OBVIOUS
<1>2. x \in Depts /\ node[g] \in Doomed /\ node[g] \in Depts
  BY <1>1 DEF LiveDepts, Doomed, Deleting
<1>3. CASE x = d
  <2>1. p = node[g]
    BY <1>1, <1>2, <1>3 DEF Written
  <2>2. ~ok
    BY <1>2, <2>1, DeptAssumption DEF Written
  <2> QED BY <1>3, <2>2 DEF Written
<1>4. CASE x # d
  <2>1. x \in LiveDepts /\ parent[x] = node[g]
    BY <1>1, <1>2, <1>4 DEF Written, LiveDepts
  <2>2. x \in kids[g] \cup bent
    BY <1>1, <2>1 DEF KidsKnown
  <2> QED BY <1>4, <2>2 DEF Written
<1> QED BY <1>2, <1>3, <1>4

LEMMA KidsStep == DeptInv /\ [DeptNext]_deptVars => KidsKnown'
<1> SUFFICES ASSUME DeptInv, [DeptNext]_deptVars, NEW g \in Editors, step'[g] \in {"channels", "commit"}
             PROVE  /\ node'[g] \notin kids'[g]
                    /\ \A x \in LiveDepts' \ {node'[g]} : parent'[x] = node'[g] => x \in kids'[g] \cup bent'
  BY DEF KidsKnown
<1> DEFINE Goal == /\ node'[g] \notin kids'[g]
                   /\ \A x \in LiveDepts' \ {node'[g]} : parent'[x] = node'[g] => x \in kids'[g] \cup bent'
           Same == step[g] \in {"channels", "commit"} /\ node'[g] = node[g] /\ kids'[g] = kids[g]
<1> USE DEF DeptInv, DeptTypeOK
<1>1. ASSUME Same, UNCHANGED tree PROVE Goal
  BY <1>1 DEF KidsKnown, LiveDepts, tree
<1>2. CASE FileChannel \/ UNCHANGED deptVars
  BY <1>1, <1>2 DEF FileChannel, deptVars, work
<1>3. ASSUME NEW h \in Editors, Check(h) \/ Delete(h) \/ Rollback(h) \/ FreeChannels(h) PROVE Goal
  <2>1. UNCHANGED tree
    BY <1>3 DEF Check, Delete, Rollback, FreeChannels
  <2>2. Same
    <3>1. CASE Check(h) \/ Delete(h)
      BY <3>1 DEF Check, Delete, Begin
    <3>2. CASE Rollback(h)
      BY <3>2 DEF Rollback, Done
    <3>3. CASE FreeChannels(h)
      BY <3>3 DEF FreeChannels
    <3> QED BY <1>3, <3>1, <3>2, <3>3
  <2> QED BY <1>1, <2>1, <2>2
<1>4. ASSUME NEW h \in Editors, Write(h) PROVE Goal
  <2>1. Same
    BY <1>4 DEF Write, Done
  <2>2. CASE UNCHANGED tree
    BY <1>1, <2>1, <2>2
  <2>3. CASE \E d \in Depts, p \in Depts \cup {Top}, ok \in BOOLEAN : Written(d, p, ok)
    <3>1. ASSUME NEW d \in Depts, NEW p \in Depts \cup {Top}, NEW ok \in BOOLEAN, Written(d, p, ok)
          PROVE  Goal
      <4>1. \A x \in LiveDepts' \ {node[g]} : parent'[x] = node[g] => x \in kids[g] \cup bent'
        <5>1. CASE ok
          <6>1. Written(d, p, TRUE)
            BY <3>1, <5>1 DEF Written
          <6> QED BY <2>1, <6>1, KidsWritten
        <5>2. CASE ~ok
          <6>1. Written(d, p, FALSE)
            BY <3>1, <5>2 DEF Written
          <6> QED BY <2>1, <6>1, KidsWritten
        <5> QED BY <5>1, <5>2
      <4> QED BY <2>1, <4>1 DEF KidsKnown
    <3> HIDE DEF Goal
    <3> QED BY <2>3, <3>1
  <2> QED BY <1>4, <2>2, <2>3, WriteEffect
<1>5. ASSUME NEW h \in Editors, WriteTop(h) PROVE Goal
  <2>1. Same
    BY <1>5 DEF WriteTop
  <2>2. PICK d \in Depts : Written(d, Top, TRUE)
    BY <1>5, WriteTopEffect
  <2>3. \A x \in LiveDepts' \ {node[g]} : parent'[x] = node[g] => x \in kids[g] \cup bent'
    BY <2>1, <2>2, KidsWritten
  <2> QED BY <2>1, <2>3 DEF KidsKnown
<1>6. ASSUME NEW h \in Editors, FreeChildren(h) PROVE Goal
  <2>1. CASE g = h
    BY <1>6, <2>1 DEF FreeChildren, Children, LiveDepts, tree
  <2>2. CASE g # h
    BY <1>1, <1>6, <2>2 DEF FreeChildren
  <2> QED BY <2>1, <2>2
<1>7. ASSUME NEW h \in Editors, Commit(h) PROVE Goal
  <2>1. g # h /\ Same
    BY <1>7 DEF Commit, Done
  <2>2. ASSUME NEW x \in LiveDepts', x # node[g], parent'[x] = node[g] PROVE x \in kids[g] \cup bent'
    <3>1. x \in Depts /\ node[g] \in Depts /\ node[h] \in Depts
      BY <1>7, <2>1, <2>2 DEF LiveDepts, Commit
    <3>2. x \notin kids[h] /\ parent[x] = node[g]
      BY <1>7, <2>2, <3>1, DeptAssumption DEF Commit
    <3>3. x \in LiveDepts
      BY <1>7, <2>2, <3>1 DEF Commit, LiveDepts
    <3>4. x \in kids[g] \cup bent
      BY <2>1, <2>2, <3>2, <3>3 DEF KidsKnown
    <3> QED BY <1>7, <3>2, <3>4 DEF Commit
  <2> QED BY <2>1, <2>2 DEF KidsKnown
<1> QED
  BY <1>2, <1>3, <1>4, <1>5, <1>6, <1>7 DEF DeptNext

(* It knows the channels too, but for those that were filed there without a *)
(* look.                                                                    *)
LEMMA ChannelsStep == DeptInv /\ [DeptNext]_deptVars => ChannelsKnown'
<1> SUFFICES ASSUME DeptInv, [DeptNext]_deptVars, NEW g \in Editors, step'[g] = "commit",
                    NEW c \in Chans, filed'[c] = node'[g]
             PROVE  c \in chans'[g] \cup strays'
  BY DEF ChannelsKnown
<1> DEFINE Goal == c \in chans'[g] \cup strays'
           Same == step[g] = "commit" /\ node'[g] = node[g] /\ chans'[g] = chans[g]
<1> USE DEF DeptInv, DeptTypeOK
<1>1. ASSUME Same, UNCHANGED <<filed, strays>> PROVE Goal
  BY <1>1 DEF ChannelsKnown
<1>2. CASE UNCHANGED deptVars
  BY <1>1, <1>2 DEF deptVars, work
<1>3. ASSUME NEW h \in Editors,
             \/ Check(h) \/ Write(h) \/ WriteTop(h) \/ Delete(h) \/ FreeChildren(h) \/ Rollback(h)
      PROVE  Goal
  <2>1. Same
    <3>1. CASE Check(h) \/ Delete(h)
      BY <3>1 DEF Check, Delete, Begin
    <3>2. CASE Write(h) \/ Rollback(h)
      BY <3>2 DEF Write, Rollback, Done
    <3>3. CASE WriteTop(h) \/ FreeChildren(h)
      BY <3>3 DEF WriteTop, FreeChildren
    <3> QED BY <1>3, <3>1, <3>2, <3>3
  <2>2. UNCHANGED <<filed, strays>>
    BY <1>3 DEF Check, Write, WriteTop, Delete, FreeChildren, Rollback
  <2> QED BY <1>1, <2>1, <2>2
<1>4. ASSUME NEW h \in Editors, FreeChannels(h) PROVE Goal
  <2>1. CASE g = h
    BY <1>4, <2>1 DEF FreeChannels
  <2>2. CASE g # h
    BY <1>1, <1>4, <2>2 DEF FreeChannels
  <2> QED BY <2>1, <2>2
<1>5. ASSUME NEW h \in Editors, Commit(h) PROVE Goal
  <2>1. Same /\ node[g] \in Depts
    BY <1>5 DEF Commit, Done
  <2>2. filed[c] = node[g]
    BY <1>5, <2>1, DeptAssumption DEF Commit
  <2> QED BY <1>5, <2>1, <2>2 DEF ChannelsKnown, Commit
<1>6. CASE FileChannel
  <2>1. PICK x \in Chans \ Filing, d \in (Depts \ Unused) \cup {Top} :
           /\ filed' = [filed EXCEPT ![x] = d]
           /\ strays' = IF d \in LiveDepts \ Doomed \/ d = Top THEN strays \ {x} ELSE strays \cup {x}
    BY <1>6 DEF FileChannel
  <2>2. Same /\ node[g] \in Doomed /\ node[g] # Top
    BY <1>6, DeptAssumption DEF FileChannel, work, Doomed, Deleting
  <2>3. CASE x = c
    BY <2>1, <2>2, <2>3
  <2>4. CASE x # c
    BY <2>1, <2>2, <2>4 DEF ChannelsKnown
  <2> QED BY <2>3, <2>4
<1> QED
  BY <1>2, <1>3, <1>4, <1>5, <1>6 DEF DeptNext

(* Where a row is written, what is not bent has a live parent.              *)
LEMMA OrphanWritten ==
    ASSUME DeptInv, NEW d \in Depts, NEW p \in Depts \cup {Top}, NEW ok \in BOOLEAN, Written(d, p, ok),
           NEW x \in LiveDepts' \ bent'
    PROVE  parent'[x] = Top \/ parent'[x] \in LiveDepts'
<1> USE DEF DeptInv, DeptTypeOK
<1>1. x \in Depts /\ LiveDepts \subseteq LiveDepts'
  BY DEF LiveDepts, Written
<1>2. CASE x = d
  <2>1. ok
    BY <1>2 DEF Written
  <2>2. p = Top \/ p \in LiveDepts
    BY <2>1 DEF Written, CanSetParent
  <2> QED BY <1>1, <1>2, <2>2 DEF Written
<1>3. CASE x # d
  <2>1. x \in LiveDepts \ bent /\ parent'[x] = parent[x]
    BY <1>1, <1>3 DEF LiveDepts, Written
  <2> QED BY <1>1, <2>1 DEF NothingOrphaned
<1> QED BY <1>2, <1>3

LEMMA OrphanStep == DeptInv /\ [DeptNext]_deptVars => NothingOrphaned'
<1> SUFFICES ASSUME DeptInv, [DeptNext]_deptVars PROVE NothingOrphaned'
  OBVIOUS
<1> USE DEF DeptInv, DeptTypeOK
<1>1. ASSUME UNCHANGED <<tree, filed, strays>> PROVE NothingOrphaned'
  BY <1>1 DEF NothingOrphaned, LiveDepts, tree
<1>2. ASSUME NEW d \in Depts, NEW p \in Depts \cup {Top}, NEW ok \in BOOLEAN, Written(d, p, ok),
             UNCHANGED <<filed, strays>>
      PROVE  NothingOrphaned'
  <2>1. \A x \in LiveDepts' \ bent' : parent'[x] = Top \/ parent'[x] \in LiveDepts'
    <3> HIDE DEF DeptInv, DeptTypeOK
    <3> QED BY <1>2, OrphanWritten
  <2>2. LiveDepts \subseteq LiveDepts'
    BY <1>2 DEF LiveDepts, Written
  <2> QED BY <1>2, <2>1, <2>2 DEF NothingOrphaned
<1>3. CASE FileChannel
  <2>1. LiveDepts' = LiveDepts /\ UNCHANGED tree
    BY <1>3 DEF FileChannel, LiveDepts, tree
  <2>2. PICK x \in Chans \ Filing, d \in (Depts \ Unused) \cup {Top} :
           /\ filed' = [filed EXCEPT ![x] = d]
           /\ strays' = IF d \in LiveDepts \ Doomed \/ d = Top THEN strays \ {x} ELSE strays \cup {x}
    BY <1>3 DEF FileChannel
  <2>3. \A c \in Chans \ strays' : filed'[c] = Top \/ filed'[c] \in LiveDepts
    BY <2>2 DEF NothingOrphaned
  <2> QED BY <2>1, <2>3 DEF NothingOrphaned, tree
<1>4. ASSUME NEW h \in Editors,
             \/ Check(h) \/ Delete(h) \/ FreeChildren(h) \/ FreeChannels(h) \/ Rollback(h)
      PROVE  NothingOrphaned'
  BY <1>1, <1>4 DEF Check, Delete, FreeChildren, FreeChannels, Rollback
<1>5. ASSUME NEW h \in Editors, Write(h) PROVE NothingOrphaned'
  <2>1. UNCHANGED <<filed, strays>>
    BY <1>5 DEF Write
  <2>2. CASE UNCHANGED tree
    BY <1>1, <2>1, <2>2
  <2>3. CASE \E d \in Depts, p \in Depts \cup {Top}, ok \in BOOLEAN : Written(d, p, ok)
    BY <1>2, <2>1, <2>3
  <2> QED BY <1>5, <2>2, <2>3, WriteEffect
<1>6. ASSUME NEW h \in Editors, WriteTop(h) PROVE NothingOrphaned'
  <2>1. UNCHANGED <<filed, strays>>
    BY <1>6 DEF WriteTop
  <2>2. PICK d \in Depts : Written(d, Top, TRUE)
    BY <1>6, WriteTopEffect
  <2> QED BY <1>2, <2>1, <2>2
<1>7. ASSUME NEW h \in Editors, Commit(h) PROVE NothingOrphaned'
  <2>1. LiveDepts' = LiveDepts \ {node[h]} /\ node[h] \in Depts
    BY <1>7 DEF Commit, LiveDepts
  <2>2. ASSUME NEW x \in LiveDepts' \ bent' PROVE parent'[x] = Top \/ parent'[x] \in LiveDepts'
    <3>1. CASE x \in kids[h]
      BY <1>7, <2>1, <2>2, <3>1 DEF Commit, LiveDepts
    <3>2. CASE x \notin kids[h]
      <4>1. x \in LiveDepts \ bent /\ x # node[h] /\ parent'[x] = parent[x]
        BY <1>7, <2>1, <2>2, <3>2 DEF Commit, LiveDepts
      <4>2. parent[x] # node[h]
        BY <1>7, <3>2, <4>1 DEF Commit, KidsKnown
      <4> QED BY <2>1, <4>1, <4>2 DEF NothingOrphaned
    <3> QED BY <3>1, <3>2
  <2>3. ASSUME NEW c \in Chans \ strays' PROVE filed'[c] = Top \/ filed'[c] \in LiveDepts'
    <3>1. c \notin strays
      BY <1>7 DEF Commit
    <3>2. CASE c \in chans[h]
      BY <1>7, <3>2 DEF Commit
    <3>3. CASE c \notin chans[h]
      <4>1. filed[c] # node[h] /\ filed'[c] = filed[c]
        BY <1>7, <3>1, <3>3 DEF Commit, ChannelsKnown
      <4> QED BY <2>1, <3>1, <4>1 DEF NothingOrphaned
    <3> QED BY <3>2, <3>3
  <2> QED BY <2>2, <2>3 DEF NothingOrphaned
<1>8. CASE UNCHANGED deptVars
  BY <1>1, <1>8 DEF deptVars
<1> QED
  BY <1>3, <1>4, <1>5, <1>6, <1>7, <1>8 DEF DeptNext

---------------------------------------------------------------------------
(* A ring through a department that was put where it fits would run along   *)
(* the line the check has found, and be a ring there before.                *)
LEMMA CircleWritten ==
    ASSUME DeptInv, NEW d \in Depts, NEW p \in Depts \cup {Top}, NEW ok \in BOOLEAN, Written(d, p, ok),
           NEW ring \in SUBSET Depts, ring # {}, \A x \in ring : parent'[x] \in ring
    PROVE  ring \cap bent' # {}
<1> USE DEF DeptInv, DeptTypeOK
<1>1. \A x \in ring \ {d} : parent'[x] = parent[x]
  BY DEF Written
<1>2. bent \ {d} \subseteq bent'
  BY DEF Written
<1>3. CASE d \notin ring
  <2>1. ring \cap bent # {}
    BY <1>1, <1>3 DEF NoCircle
  <2> QED BY <1>2, <1>3, <2>1
<1>4. CASE d \in ring /\ ~ok
  BY <1>4 DEF Written
<1>5. CASE d \in ring /\ ok
  <2>1. p \in ring
    BY <1>5 DEF Written
  <2>2. CanSetParent(d, p)
    BY <1>5, <2>1, DeptAssumption DEF Written
  <2>3. PICK line \in SUBSET (LiveDepts \ {d}) :
           /\ p \in line
           /\ \A x \in line : parent[x] = Top \/ parent[x] \in line \/ parent[x] \notin LiveDepts \cup {d}
    BY <2>2 DEF CanSetParent
  <2>4. SUFFICES ASSUME ring \cap bent' = {} PROVE FALSE
    OBVIOUS
  <2>5. ASSUME NEW x \in ring \cap line PROVE parent[x] \in ring \cap line
    <3>1. x # d /\ x \in LiveDepts \ bent
      BY <1>2, <2>3, <2>4
    <3>2. parent[x] \in ring
      BY <1>1, <3>1
    <3>3. parent[x] \in LiveDepts
      BY <3>1, <3>2, DeptAssumption DEF NothingOrphaned
    <3> QED BY <2>3, <3>2, <3>3, DeptAssumption
  <2>6. (ring \cap line) \cap bent # {}
    BY <2>1, <2>3, <2>5 DEF NoCircle
  <2> QED BY <1>2, <2>3, <2>4, <2>6
<1> QED BY <1>3, <1>4, <1>5

LEMMA CircleStep == DeptInv /\ [DeptNext]_deptVars => NoCircle'
<1> SUFFICES ASSUME DeptInv, [DeptNext]_deptVars,
                    NEW ring \in SUBSET Depts, ring # {}, \A x \in ring : parent'[x] \in ring
             PROVE  ring \cap bent' # {}
  BY DEF NoCircle
<1> USE DEF DeptInv, DeptTypeOK
<1>1. ASSUME UNCHANGED tree PROVE ring \cap bent' # {}
  BY <1>1 DEF NoCircle, tree
<1>2. CASE FileChannel \/ UNCHANGED deptVars
  BY <1>1, <1>2 DEF FileChannel, deptVars
<1>3. ASSUME NEW h \in Editors,
             \/ Check(h) \/ Delete(h) \/ FreeChildren(h) \/ FreeChannels(h) \/ Rollback(h)
      PROVE  ring \cap bent' # {}
  BY <1>1, <1>3 DEF Check, Delete, FreeChildren, FreeChannels, Rollback
<1>4. ASSUME NEW h \in Editors, Write(h) PROVE ring \cap bent' # {}
  <2>1. CASE \E d \in Depts, p \in Depts \cup {Top}, ok \in BOOLEAN : Written(d, p, ok)
    BY <2>1, CircleWritten
  <2> QED BY <1>1, <1>4, <2>1, WriteEffect
<1>5. ASSUME NEW h \in Editors, WriteTop(h) PROVE ring \cap bent' # {}
  BY <1>5, WriteTopEffect, CircleWritten
<1>6. ASSUME NEW h \in Editors, Commit(h) PROVE ring \cap bent' # {}
  <2>1. \A x \in ring : x \notin kids[h] /\ parent'[x] = parent[x]
    BY <1>6, DeptAssumption DEF Commit
  <2>2. ring \cap bent # {}
    BY <2>1 DEF NoCircle
  <2> QED BY <1>6, <2>1, <2>2 DEF Commit
<1> QED
  BY <1>2, <1>3, <1>4, <1>5, <1>6 DEF DeptNext

---------------------------------------------------------------------------
(* However many requests create, move and delete departments at once, the   *)
(* invariant holds: ...                                                     *)
THEOREM DeptInvAlways == DeptSpec => []DeptInv
<1>1. DeptInit => DeptInv
  <2> SUFFICES ASSUME DeptInit PROVE DeptInv
    OBVIOUS
  <2>1. DeptTypeOK
    BY DEF DeptInit, DeptTypeOK
  <2>2. FreshFits /\ KidsKnown /\ ChannelsKnown
    BY DEF DeptInit, FreshFits, KidsKnown, ChannelsKnown
  <2>3. NothingOrphaned
    BY DEF DeptInit, NothingOrphaned, LiveDepts
  <2>4. NoCircle
    BY DeptAssumption DEF DeptInit, NoCircle
  <2> QED BY <2>1, <2>2, <2>3, <2>4 DEF DeptInv
<1>2. DeptInv /\ [DeptNext]_deptVars => DeptInv'
  BY TypeStep, FreshStep, KidsStep, ChannelsStep, OrphanStep, CircleStep DEF DeptInv
<1> QED
  BY <1>1, <1>2, PTL DEF DeptSpec

(* ... a deletion leaves nothing behind, and only a department put under    *)
(* its own descendant on a stale check makes a circle.                      *)
THEOREM TreeIsWholeAlways == DeptSpec => []TreeIsWhole
<1>1. DeptInv => TreeIsWhole
  BY DEF DeptInv, TreeIsWhole
<1> QED
  BY <1>1, DeptInvAlways, PTL
=============================================================================
