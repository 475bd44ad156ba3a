----------------------------- MODULE Conversations -----------------------------
(* Who may talk to whom and who hears it: contact requests, direct          *)
(* conversations, channel memberships, private bot sessions and the hub that *)
(* carries events to sockets (modules contacts and channels,                 *)
(* platform/websocket/manager.go and its handler).                           *)
(*                                                                           *)
(* A statement or transaction of the database is one action; what a request  *)
(* has read before it, and the sockets a broadcast has collected, are held   *)
(* by the handler and may be out of date when used.  One workspace, one      *)
(* channel of type public or private ("group"), the direct conversation of   *)
(* the two users and one user's private session with the bot.  The rows of   *)
(* a public channel are written by log-ins (modules/auth) and by additions   *)
(* to the workspace (modules/workspaces) too.                                *)
EXTENDS Naturals, FiniteSets

CONSTANTS
    Users,        \* two users of the zone
    Managers,     \* those with channel.create and channel.manage
    SessionUser,  \* the user whose private session is modelled
    Handlers,     \* goroutines that serve requests
    Sockets,      \* connections, each used once
    MaxCards,     \* contact requests ever made
    MaxCalls,     \* requests ever served
    MaxChanges    \* changes of a workspace membership

ASSUME TwoUsers == Cardinality(Users) = 2
ASSUME RoleAssumption == SessionUser \in Users /\ Managers \subseteq Users

VARIABLES
    cards,    \* contact_requests in the order of their creation
    wsm,      \* workspace_members: status of each user
    owner,    \* created_by of the group channel, Nobody before it exists
    public,   \* whether it is, or will be created, of type public; kept for ever
    member,   \* channel_members: status of each user in each channel
    guides,   \* guide messages pinned in the private session
    pc, req,  \* where each handler is, and with what
    left,     \* clients a broadcast has still to send to
    sock,     \* [st, user] of each socket
    joining,  \* the room a socket's goroutine has been admitted to, not joined
    rooms,    \* hub: sockets in each channel's room
    heard,    \* rooms whose events a socket has received
    since,    \* channels the socket's user was a member of since it connected
    calls, changes

data    == <<cards, wsm, owner, member, guides>>   \* all but public
handler == <<pc, req, left>>
hub     == <<sock, joining, rooms, heard>>
count   == <<calls, changes>>
vars    == <<data, public, handler, hub, since, count>>

Nobody   == "nobody"
Channels == {"group", "direct", "session"}
Statuses == {"none", "invited", "active", "muted", "left", "removed"}
NoSock   == [st |-> "new", user |-> Nobody]
Blank    == [op |-> "none", by |-> Nobody, ch |-> "none", user |-> Nobody, to |-> "none", rooms |-> {}]
Cards    == 1..MaxCards
NoCard   == [st |-> "none", from |-> Nobody, to |-> Nobody]

Hears(st) == st \in {"active", "muted"}
Joined(u) == {c \in Channels : Hears(member[c][u])}

TypeOK ==
    /\ cards \in [Cards -> [st : {"none", "pending", "accepted", "rejected", "cancelled"},
                            from : Users \cup {Nobody}, to : Users \cup {Nobody}]]
    /\ wsm \in [Users -> {"active", "disabled"}]
    /\ owner \in Users \cup {Nobody} /\ public \in BOOLEAN
    /\ member \in [Channels -> [Users -> Statuses]]
    /\ pc \in [Handlers -> {"idle", "direct", "lock", "session", "join", "manage", "publish", "deliver"}]
    /\ guides \in Nat /\ changes \in Nat
    /\ left \in [Handlers -> SUBSET Sockets]
    /\ sock \in [Sockets -> [st : {"new", "open", "closed"}, user : Users \cup {Nobody}]]
    /\ joining \in [Sockets -> Channels \cup {"none"}]
    /\ rooms \in [Channels -> SUBSET Sockets]
    /\ heard \in [Sockets -> SUBSET (Channels \cup Users)]
    /\ since \in [Sockets -> SUBSET Channels]

Init ==
    /\ cards = [i \in Cards |-> NoCard]
    /\ wsm = [u \in Users |-> "active"]
    /\ owner = Nobody /\ public \in BOOLEAN
    /\ member = [c \in Channels |-> [u \in Users |-> "none"]]
    /\ guides = 0
    /\ pc = [p \in Handlers |-> "idle"]
    /\ req = [p \in Handlers |-> Blank]
    /\ left = [p \in Handlers |-> {}]
    /\ sock = [s \in Sockets |-> NoSock]
    /\ joining = [s \in Sockets |-> "none"]
    /\ rooms = [c \in Channels |-> {}]
    /\ heard = [s \in Sockets |-> {}]
    /\ since = [s \in Sockets |-> {}]
    /\ calls = 0
    /\ changes = 0

(* A request arrives: the handler goes on at step to with what it holds.   *)
Start(p, step, r) ==
    /\ pc[p] = "idle" /\ calls < MaxCalls
    /\ calls' = calls + 1
    /\ pc' = [pc EXCEPT ![p] = step]
    /\ req' = [req EXCEPT ![p] = r]
    /\ UNCHANGED <<left, changes>>

Finish(p) ==
    /\ pc' = [pc EXCEPT ![p] = "idle"]
    /\ req' = [req EXCEPT ![p] = Blank]
    /\ left' = [left EXCEPT ![p] = {}]
    /\ UNCHANGED count

(* HasWorkspacePermission looks for an active workspace member.            *)
MaySend(u)   == wsm[u] = "active"
MayManage(u) == wsm[u] = "active" /\ u \in Managers

-----------------------------------------------------------------------------
(* Contact requests: each call is one statement, then its events.          *)

Live(i)  == cards[i].st \in {"pending", "accepted"}
Fresh(i) == cards[i].st = "none" /\ \A j \in Cards : j < i => cards[j].st # "none"

(* INSERT; the unique index over LEAST and GREATEST of the pair turns a    *)
(* second request into the first (byPair).  The receiver is told anyway.   *)
CreateRequest(u, v) ==
    /\ u # v
    /\ \/ (\E i \in Cards : Live(i)) /\ UNCHANGED cards
       \/ /\ ~\E i \in Cards : Live(i)
          /\ \E i \in Cards : Fresh(i) /\ cards' = [cards EXCEPT ![i] = [st |-> "pending", from |-> u, to |-> v]]

SendRequest(p, u, v) ==
    /\ CreateRequest(u, v)
    /\ Start(p, "publish", [Blank EXCEPT !.op = "send_request", !.rooms =
                 {IF \E i \in Cards : Live(i) THEN cards[CHOOSE i \in Cards : Live(i)].to ELSE v}])
    /\ UNCHANGED <<wsm, owner, member, guides, hub>>

(* Mutant: WHERE has lost AND status = 'pending'.                          *)
CancelsAnyway(i, u) == cards[i].from = u /\ cards[i].st # "none"
Cancels(i, u)  == cards[i].from = u /\ cards[i].st = "pending"
Responds(i, u) == cards[i].to = u /\ cards[i].st = "pending"

AcceptRequest(i, u) == Responds(i, u) /\ cards' = [cards EXCEPT ![i].st = "accepted"]
RejectRequest(i, u) == Responds(i, u) /\ cards' = [cards EXCEPT ![i].st = "rejected"]
CancelRequest(i, u) == Cancels(i, u) /\ cards' = [cards EXCEPT ![i].st = "cancelled"]

(* A decision is told to both.                                             *)
Decided(p) ==
    /\ Start(p, "publish", [Blank EXCEPT !.op = "contact", !.rooms = Users])
    /\ UNCHANGED <<wsm, owner, member, guides, hub>>

Accept(p, u) == (\E i \in Cards : AcceptRequest(i, u)) /\ Decided(p)
Reject(p, u) == (\E i \in Cards : RejectRequest(i, u)) /\ Decided(p)
Cancel(p, u) == (\E i \in Cards : CancelRequest(i, u)) /\ Decided(p)

-----------------------------------------------------------------------------
(* Direct conversations and private sessions.                              *)

HasAcceptedContact == \E i \in Cards : cards[i].st = "accepted"
ensureDirectContacts(u) == HasAcceptedContact
directByKey == \E u \in Users : member["direct"][u] # "none"

CreateDirect(p, u) ==
    /\ MaySend(u) /\ ensureDirectContacts(u)
    /\ Start(p, "direct", [Blank EXCEPT !.op = "direct", !.by = u])
    /\ UNCHANGED <<data, hub>>

(* directByKey finds the conversation, or one transaction creates channel, *)
(* conversation and members; a loser of the unique key rolls back.  The     *)
(* participants become active in the workspace, whatever they were.         *)
CreateOrGetDirectConversation(p) ==
    /\ pc[p] = "direct"
    /\ \/ /\ directByKey
          /\ UNCHANGED <<wsm, member>>
       \/ /\ ~directByKey
          /\ wsm' = [u \in Users |-> "active"]
          /\ member' = [member EXCEPT !["direct"] = [u \in Users |-> "active"]]
    /\ Finish(p)
    /\ UNCHANGED <<cards, owner, guides, hub>>

OpenPrivateSession(p, u) ==
    /\ u = SessionUser /\ MaySend(u)
    /\ Start(p, "lock", [Blank EXCEPT !.op = "session", !.by = u])
    /\ UNCHANGED <<data, hub>>

(* Mutant: the transaction takes no lock.                                  *)
NoLock(p) == TRUE
(* pg_advisory_xact_lock, held until the transaction ends.                 *)
LockFree(p) == \A q \in Handlers : pc[q] # "session"

(* CreateOrGetPrivateSession: what is there is read after the lock ...     *)
LockSession(p) ==
    /\ pc[p] = "lock" /\ LockFree(p)
    /\ pc' = [pc EXCEPT ![p] = "session"]
    /\ req' = [req EXCEPT ![p].to = IF guides = 0 THEN "guide" ELSE "none"]
    /\ UNCHANGED <<data, left, hub, count>>

(* ... and what is missing becomes visible at commit: channel and member   *)
(* (for an active member of the workspace, or if the session exists), then *)
(* the guide message with its pin, unless one was found.                   *)
CreateOrGetPrivateSession(p) ==
    /\ pc[p] = "session"
    /\ LET u == req[p].by
       IN  IF MaySend(u) \/ member["session"][u] # "none"
           THEN /\ member' = [member EXCEPT !["session"][u] = "active"]
                /\ guides' = IF req[p].to = "guide" THEN guides + 1 ELSE guides
           ELSE UNCHANGED <<member, guides>>
    /\ Finish(p)
    /\ UNCHANGED <<cards, wsm, owner, hub>>

(* The user deletes the guide like any message.                            *)
DeleteGuide(p) ==
    /\ guides > 0
    /\ Start(p, "idle", Blank)
    /\ guides' = guides - 1
    /\ UNCHANGED <<cards, wsm, owner, member, hub>>

-----------------------------------------------------------------------------
(* Channel memberships.                                                    *)

IsDirect(c) == c # "group"

(* The channel and its creator's membership, in one transaction; its slug  *)
(* is unique.                                                              *)
InsertChannel(u) ==
    /\ owner = Nobody
    /\ owner' = u
    /\ member' = [member EXCEPT !["group"][u] = "active"]

CreateChannel(p, u) ==
    /\ MayManage(u)
    /\ InsertChannel(u)
    /\ Start(p, "idle", Blank)
    /\ UNCHANGED <<cards, wsm, guides, hub>>

(* Mutant: the type of the channel is not looked at.                       *)
CanManageAny(u, c) == u = owner \/ MayManage(u)

(* ensureCanManageChannel: the creator needs no permission any more.       *)
CanManage(u, c) == ~IsDirect(c) /\ owner # Nobody /\ (u = owner \/ MayManage(u))

Manage(p, by, c, u, st) ==
    /\ CanManage(by, c)
    /\ Start(p, "manage", [Blank EXCEPT !.op = "manage", !.by = by, !.ch = c, !.user = u, !.to = st])
    /\ UNCHANGED <<data, hub>>

AskToAdd(p, by, c, u)     == Manage(p, by, c, u, "add")
AskToSet(p, by, c, u, st) == st # "add" /\ Manage(p, by, c, u, st)

(* AddMember takes an active member of the workspace, UpdateMemberStatus   *)
(* anyone with a row.                                                      *)
AddMember(p) ==
    /\ pc[p] = "manage" /\ req[p].to = "add"
    /\ member' = IF MaySend(req[p].user) THEN [member EXCEPT ![req[p].ch][req[p].user] = "active"] ELSE member
    /\ Finish(p)
    /\ UNCHANGED <<cards, wsm, owner, guides, hub>>

UpdateMemberStatus(p) ==
    /\ pc[p] = "manage" /\ req[p].to # "add"
    /\ member' = IF member[req[p].ch][req[p].user] = "none" THEN member
                 ELSE [member EXCEPT ![req[p].ch][req[p].user] = req[p].to]
    /\ Finish(p)
    /\ UNCHANGED <<cards, wsm, owner, guides, hub>>

(* RequestJoin answers from what it has read, unless there is something to *)
(* write.                                                                  *)
RequestJoin(p, u, c) ==
    /\ MaySend(u) /\ ~IsDirect(c) /\ owner # Nobody
    /\ member[c][u] \in {"none", "left", "removed"}
    /\ Start(p, "join", [Blank EXCEPT !.op = "join", !.by = u, !.ch = c, !.user = u])
    /\ UNCHANGED <<data, hub>>

(* Mutant: ON CONFLICT ... DO UPDATE without its WHERE.                    *)
MayRequestAlways(c, u) == MaySend(u)
MayRequest(c, u) == MaySend(u) /\ member[c][u] \in {"none", "left", "removed"}

InsertRequest(p) ==
    /\ pc[p] = "join"
    /\ LET c == req[p].ch  u == req[p].user
       IN  member' = IF MayRequest(c, u) THEN [member EXCEPT ![c][u] = "invited"] ELSE member
    /\ Finish(p)
    /\ UNCHANGED <<cards, wsm, owner, guides, hub>>

(* An administrator disables or enables a member of the workspace; the     *)
(* channels and the sockets do not notice.                                 *)
SetWorkspaceMember(u) ==
    /\ changes < MaxChanges
    /\ changes' = changes + 1
    /\ wsm' = [wsm EXCEPT ![u] = IF @ = "active" THEN "disabled" ELSE "active"]
    /\ UNCHANGED <<cards, owner, member, guides, handler, hub, calls>>

-----------------------------------------------------------------------------
(* What other modules write into channel_members.                          *)

EnrolInGroup(u) == member' = [member EXCEPT !["group"][u] = "active"]

(* Mutant: the conflict is resolved as in AddWorkspaceMember.              *)
NewOrOld(u) == TRUE

(* ON CONFLICT (channel_id, user_id) DO NOTHING.                           *)
NewToGroup(u) == member["group"][u] = "none"

(* auth: repairWorkspaceAccess, when a member of the workspace registers,  *)
(* logs in, refreshes or asks who he is: the public channels he has no row *)
(* in.                                                                     *)
RepairAccess(u) ==
    /\ wsm[u] = "active" /\ owner # Nobody /\ public
    /\ NewToGroup(u) /\ EnrolInGroup(u)
    /\ UNCHANGED <<cards, wsm, owner, guides, handler, hub, count>>

(* workspaces: AddMember, for somebody new or not: a member again, of the  *)
(* workspace and of its public channels, whatever the rows say.            *)
AddWorkspaceMember(u) ==
    /\ changes < MaxChanges /\ changes' = changes + 1
    /\ wsm' = [wsm EXCEPT ![u] = "active"]
    /\ IF public /\ owner # Nobody THEN EnrolInGroup(u) ELSE UNCHANGED member
    /\ UNCHANGED <<cards, owner, guides, handler, hub, calls>>

-----------------------------------------------------------------------------
(* The hub.                                                                *)

Open(s) == sock[s].st = "open"

(* Register, with the user's own room; a socket of nobody's is first.      *)
Connect(s, u) ==
    /\ sock[s].st = "new"
    /\ sock' = [sock EXCEPT ![s] = [st |-> "open", user |-> u]]
    /\ UNCHANGED <<data, handler, joining, rooms, heard, count>>

(* Unregister runs when the socket's goroutine has left its loop.          *)
Disconnect(s) ==
    /\ Open(s) /\ joining[s] = "none"
    /\ sock' = [sock EXCEPT ![s].st = "closed"]
    /\ rooms' = [c \in Channels |-> rooms[c] \ {s}]
    /\ heard' = [heard EXCEPT ![s] = {}]
    /\ UNCHANGED <<data, handler, joining, count>>

(* Mutant: no authorizer is configured.                                    *)
CanJoinAnyRoom(u, c) == TRUE
CanJoinRoom(u, c) == Hears(member[c][u])

AskToJoin(s, c) ==
    /\ Open(s) /\ joining[s] = "none" /\ s \notin rooms[c]
    /\ CanJoinRoom(sock[s].user, c)
    /\ joining' = [joining EXCEPT ![s] = c]
    /\ UNCHANGED <<data, handler, sock, rooms, heard, count>>

Join(s) ==
    /\ joining[s] # "none"
    /\ rooms' = [rooms EXCEPT ![joining[s]] = @ \cup {s}]
    /\ joining' = [joining EXCEPT ![s] = "none"]
    /\ UNCHANGED <<data, handler, sock, heard, count>>

Leave(s, c) ==
    /\ Open(s) /\ joining[s] = "none" /\ s \in rooms[c]
    /\ rooms' = [rooms EXCEPT ![c] = @ \ {s}]
    /\ UNCHANGED <<data, handler, sock, joining, heard, count>>

(* A member has sent a message, or a socket in the room is typing.         *)
PublishMessage(p, u, c) ==
    /\ MaySend(u) /\ Hears(member[c][u])
    /\ Start(p, "publish", [Blank EXCEPT !.op = "message", !.rooms = {c}])
    /\ UNCHANGED <<data, hub>>

Typing(p, s, c) ==
    /\ Open(s) /\ joining[s] = "none" /\ s \in rooms[c]
    /\ Start(p, "publish", [Blank EXCEPT !.op = "typing", !.rooms = {c}])
    /\ UNCHANGED <<data, hub>>

(* Broadcast, under the read lock: the clients of one room.                *)
InRoom(r) == IF r \in Channels THEN rooms[r] ELSE {s \in Sockets : Open(s) /\ sock[s].user = r}

Broadcast(p) ==
    /\ pc[p] = "publish"
    /\ \E r \in req[p].rooms :
          /\ left' = [left EXCEPT ![p] = InRoom(r)]
          /\ req' = [req EXCEPT ![p].rooms = @ \ {r}, ![p].ch = r]
    /\ pc' = [pc EXCEPT ![p] = "deliver"]
    /\ UNCHANGED <<data, hub, count>>

(* Without the lock, one client after the other: a full buffer drops the   *)
(* event.                                                                  *)
Deliver(p, s) ==
    /\ pc[p] = "deliver" /\ s \in left[p] /\ Open(s)
    /\ left' = [left EXCEPT ![p] = @ \ {s}]
    /\ heard' \in {heard, [heard EXCEPT ![s] = @ \cup {req[p].ch}]}
    /\ UNCHANGED <<data, pc, req, sock, joining, rooms, count>>

(* Unregister has closed the channel meanwhile: the send panics, and with  *)
(* it the rest of the request.                                             *)
DeliverPanics(p, s) ==
    /\ pc[p] = "deliver" /\ s \in left[p] /\ ~Open(s)
    /\ Finish(p)
    /\ UNCHANGED <<data, hub>>

Delivered(p) ==
    /\ pc[p] = "deliver" /\ left[p] = {}
    /\ IF req[p].rooms = {} THEN Finish(p)
       ELSE pc' = [pc EXCEPT ![p] = "publish"] /\ UNCHANGED <<req, left, count>>
    /\ UNCHANGED <<data, hub>>

-----------------------------------------------------------------------------
(* The history of the memberships of a connected user.                     *)
Observe ==
    since' = [s \in Sockets |->
                 IF sock'[s].st # "open" THEN {}
                 ELSE since[s] \cup {c \in Channels : Hears(member'[c][sock'[s].user])}]

ContactStep(p) == \E u \in Users : \/ \E v \in Users : SendRequest(p, u, v)
                                   \/ Accept(p, u)
                                   \/ Reject(p, u)
                                   \/ Cancel(p, u)

ChannelStep(p) ==
    \/ \E u \in Users : \/ CreateDirect(p, u)
                        \/ OpenPrivateSession(p, u)
                        \/ CreateChannel(p, u)
                        \/ \E c \in Channels : RequestJoin(p, u, c)
                        \/ \E by \in Users, c \in Channels :
                              \/ AskToAdd(p, by, c, u)
                              \/ \E st \in {"active", "muted", "removed"} : AskToSet(p, by, c, u, st)
    \/ CreateOrGetDirectConversation(p)
    \/ LockSession(p)
    \/ CreateOrGetPrivateSession(p)
    \/ DeleteGuide(p)
    \/ AddMember(p)
    \/ UpdateMemberStatus(p)
    \/ InsertRequest(p)

HubStep ==
    \/ \E s \in Sockets : \/ Join(s)
                          \/ Disconnect(s)
                          \/ \E u \in Users : Connect(s, u)
                          \/ \E c \in Channels : AskToJoin(s, c) \/ Leave(s, c)
    \/ \E p \in Handlers : \/ \E u \in Users, c \in Channels : PublishMessage(p, u, c)
                           \/ \E s \in Sockets, c \in Channels : Typing(p, s, c)
                           \/ Broadcast(p)
                           \/ \E s \in Sockets : Deliver(p, s) \/ DeliverPanics(p, s)
                           \/ Delivered(p)

Next ==
    /\ \/ \E p \in Handlers : ContactStep(p) \/ ChannelStep(p)
       \/ HubStep
       \/ \E u \in Users : SetWorkspaceMember(u) \/ AddWorkspaceMember(u) \/ RepairAccess(u)
    /\ UNCHANGED public
    /\ Observe

Spec == Init /\ [][Next]_vars

-----------------------------------------------------------------------------
(* Properties.                                                             *)

(* However requests, answers and openings interleave, two users have at    *)
(* most one live contact request; a direct conversation exists only for    *)
(* accepted contacts and holds both of them, a private session nobody but  *)
(* its user and one guide, although managers may act on any channel id.    *)
PrivateStaysPrivate ==
    /\ TypeOK
    /\ Cardinality({i \in Cards : Live(i)}) <= 1
    /\ directByKey =>
          HasAcceptedContact /\ \A u \in Users : member["direct"][u] = "active"
    /\ \A u \in Users \ {SessionUser} : member["session"][u] = "none"
    /\ guides <= 1

(* Between the check and the statement of a request to join, a manager may *)
(* add, mute or remove the user, and log-ins enrol in a public channel at  *)
(* any time.  Nobody becomes a member by asking, or by logging in again    *)
(* after a manager removed him; in a private channel what a manager has    *)
(* decided is undone by a manager only.  In a public one it is undone, and *)
(* the removed or muted are active again, when an administrator adds them  *)
(* to the workspace they may still be in.                                  *)
ManagersDecide ==
    [][\A u \in Users :
          LET was == member["group"][u]
              is  == member'["group"][u]
          IN  was # is =>
              \/ is = "invited" /\ ~Hears(was)
              \/ owner = Nobody /\ owner' = u
              \/ \E p \in Handlers : /\ pc[p] = "manage" /\ pc'[p] = "idle"
                                     /\ req[p].by \in Managers \cup {owner}
              \/ /\ public /\ is = "active" /\ wsm'[u] = "active" /\ UNCHANGED handler
                 /\ was = "none" \/ changes' # changes]_vars

(* A socket is in a room, and has heard its events, only if its user was a *)
(* member at some time since it connected; a user's own events reach that  *)
(* user's sockets alone, although a broadcast works on old lists.          *)
OnlyMembersHear ==
    /\ \A c \in Channels : \A s \in rooms[c] : c \in since[s]
    /\ \A s \in Sockets : heard[s] \subseteq since[s] \cup {sock[s].user}
=============================================================================
