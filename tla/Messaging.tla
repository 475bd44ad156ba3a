------------------------------- MODULE Messaging -------------------------------
(***************************************************************************)
(* Messages of two channels (modules/messages) and the order bot that      *)
(* answers in one of them (modules/order).                                 *)
(*                                                                         *)
(* A request is a chain of steps, each committed on its own: what it has   *)
(* read may be gone when it writes.  A client that gets no answer sends    *)
(* again with the same client message id, perhaps while the first send is  *)
(* still under way.  The tables are messages, search_documents, pins and   *)
(* reactions; told is what a consumer knows that applies the outbox events *)
(* of a message in the order of their commits.  Publishing to the sockets  *)
(* leaves the module and is left out.                                      *)
(***************************************************************************)
EXTENDS Integers, FiniteSets

CONSTANTS
    Requests,      \* handlers that may run at the same time
    Users,
    Managers,      \* users with message.manage
    Viewers, Payers, Billers, \* with order.view, order.payment_request, order.billing
    ClientIds,     \* client message ids; with NoKey, sends without one as well
    Acts,          \* bound: what each user does
    MaxIds,        \* bound: messages
    MaxVer,        \* bound: edits of a message
    MaxMoves       \* bound: changes of members and of the bot

ASSUME UserAssumption == Managers \cup Viewers \cup Payers \cup Billers \subseteq Users
ASSUME ActsAssumption == Acts \in [Users -> SUBSET
    {"send", "update", "delete", "pin", "unpin", "react", "unreact", "forward", "move"}]
ASSUME BoundAssumption == MaxIds \in Nat \ {0} /\ MaxVer \in Nat /\ MaxMoves \in Nat

NoKey == "no key"
Bot == "bot"
Group == "group"
Direct == "direct"
Channels == {Group, Direct}  \* a group channel with the bot, a direct conversation
Slugs == {"renewal", "payment", "support", "alert"}
Ids == 1..MaxIds

VARIABLES
    msgs,         \* messages: state, channel, sender, client id, version of the body
    docs,         \* search_documents: version of the body, or -1
    pins,         \* message_pins
    reacts,       \* message_reactions of one emoji: <<message, user>>
    told,         \* what the committed outbox events say of each message
    member,       \* channel_members that are active: <<user, channel>>
    slug,         \* the bot channel's source slug
    installed,    \* the order bot is installed in the channel
    open,         \* the zone is vpsttt_internal and active
    charges,      \* external: what the Order API charged, per message
    keys,         \* external: the idempotency keys it has seen
    pc, req,      \* per request: next step, and what it has in hand
    moves

rows  == <<msgs, docs, pins, reacts, told>>
order == <<charges, keys>>
conf  == <<member, slug, installed, open, moves>>
vars  == <<rows, order, conf, pc, req>>

NoMsg   == [st |-> "none", ch |-> "none", by |-> "none", cm |-> NoKey, ver |-> 0]
Unheard == [st |-> "none", ver |-> 0, pinned |-> FALSE, reacts |-> {}]
Blank   == [op |-> "none", by |-> "none", ch |-> "none", cm |-> NoKey, id |-> 0,
            text |-> "chat", out |-> "none"]

Steps == {"idle", "find", "insert", "refind", "answer", "write", "ask", "renew", "post"}

States == {"none", "live", "deleted"}
Message == [st : States, ch : Channels \cup {"none"}, by : Users \cup {Bot, "none"},
            cm : ClientIds \cup {NoKey}, ver : 0..MaxVer]
Heard   == [st : States \cup {"confused"}, ver : Nat, pinned : BOOLEAN, reacts : SUBSET Users]
Request == [op : {"none", "send", "update", "delete", "pin", "react", "unreact"},
            by : Users \cup {"none"}, ch : Channels \cup {"none"},
            cm : ClientIds \cup {NoKey}, id : 0..MaxIds,
            text : {"chat", "help", "expiring", "renew", "pay", "deposit", "wallet",
                    "ticket", "alert"},
            out : {"none", "text", "result", "error"}]

TypeOK ==
    /\ msgs \in [Ids -> Message] /\ docs \in [Ids -> -1..MaxVer]
    /\ told \in [Ids -> Heard]
    /\ pins \subseteq Ids /\ reacts \subseteq Ids \X Users
    /\ member \subseteq Users \X Channels
    /\ slug \in Slugs /\ installed \in BOOLEAN /\ open \in BOOLEAN
    /\ charges \in [Ids -> Nat]
    /\ pc \in [Requests -> Steps] /\ req \in [Requests -> Request]
    /\ moves \in 0..MaxMoves

Init ==
    /\ msgs = [i \in Ids |-> NoMsg] /\ docs = [i \in Ids |-> -1]
    /\ pins = {} /\ reacts = {} /\ told = [i \in Ids |-> Unheard]
    /\ member = Users \X Channels /\ slug \in Slugs
    /\ installed \in BOOLEAN /\ open = TRUE
    /\ charges = [i \in Ids |-> 0] /\ keys = {}
    /\ pc = [p \in Requests |-> "idle"] /\ req = [p \in Requests |-> Blank]
    /\ moves = 0

-----------------------------------------------------------------------------
(* The outbox: what a consumer makes of an event, in commit order.         *)
Told(e, u, s) ==
    CASE e = "MessageCreated" /\ s.st = "none" -> [s EXCEPT !.st = "live"]
      [] e = "MessageUpdated" /\ s.st = "live" -> [s EXCEPT !.ver = @ + 1]
      [] e = "MessageDeleted" /\ s.st = "live" -> [s EXCEPT !.st = "deleted"]
      [] e = "MessagePinned"                   -> [s EXCEPT !.pinned = TRUE]
      [] e = "MessageUnpinned" /\ s.pinned     -> [s EXCEPT !.pinned = FALSE]
      [] e = "ReactionAdded" /\ u \notin s.reacts  -> [s EXCEPT !.reacts = @ \cup {u}]
      [] e = "ReactionRemoved" /\ u \in s.reacts   -> [s EXCEPT !.reacts = @ \ {u}]
      [] OTHER                                 -> [s EXCEPT !.st = "confused"]

insertOutbox(e, i, u) == told' = [told EXCEPT ![i] = Told(e, u, @)]

(* The condition on the member rows every statement joins.                 *)
IsMember(u, c) == <<u, c>> \in member

(* Repository.Get: a live message, for a member of its channel.            *)
CanGet(u, i) == msgs[i].st = "live" /\ IsMember(u, msgs[i].ch)

FreeIds == {i \in Ids : msgs[i].st = "none"}
NewId   == CHOOSE i \in FreeIds : TRUE

upsertSearchDocument(i, ver) == docs' = [docs EXCEPT ![i] = ver]

(* The rows a new message adds.                                            *)
Create(by, ch, cm) ==
    LET i == NewId
    IN  /\ msgs' = [msgs EXCEPT ![i] = [st |-> "live", ch |-> ch, by |-> by, cm |-> cm,
                                        ver |-> 0]]
        /\ upsertSearchDocument(i, 0)
        /\ insertOutbox("MessageCreated", i, by)

(* messages_client_message_id_idx: live rows of this key.                  *)
Holders(by, ch, cm) ==
    {i \in Ids : msgs[i].st = "live" /\ msgs[i].by = by /\ msgs[i].ch = ch
                 /\ msgs[i].cm = cm /\ cm # NoKey}

(* Mutant: no unique index.                                                *)
NeverConflicts(by, ch, cm) == FALSE

(* An INSERT that violates the index.                                      *)
Conflicts(by, ch, cm) == Holders(by, ch, cm) # {}

GoTo(p, step, r) == pc' = [pc EXCEPT ![p] = step] /\ req' = [req EXCEPT ![p] = r]
Finish(p)        == GoTo(p, "idle", Blank)

-----------------------------------------------------------------------------
(* Service.Send.                                                           *)

(* A client sends, or sends again what it sent before.                     *)
Send(p) ==
    /\ pc[p] = "idle" /\ FreeIds # {}
    /\ \E u \in Users, c \in Channels, k \in ClientIds :
          /\ "send" \in Acts[u]
          /\ GoTo(p, "find", [Blank EXCEPT !.op = "send", !.by = u, !.ch = c, !.cm = k])
    /\ UNCHANGED <<rows, order, conf>>

(* findByClientMessageID, then Get on another connection: a message that   *)
(* exists is the answer for a member, an error for anyone else.            *)
Answered(p) ==
    IF IsMember(req[p].by, req[p].ch)
    THEN \E i \in Holders(req[p].by, req[p].ch, req[p].cm) :
            GoTo(p, "answer", [req[p] EXCEPT !.id = i])
    ELSE Finish(p)

FindExisting(p) ==
    /\ pc[p] = "find"
    /\ IF Holders(req[p].by, req[p].ch, req[p].cm) # {}
       THEN Answered(p) ELSE GoTo(p, "insert", req[p])
    /\ UNCHANGED <<rows, order, conf>>

(* ensureDirectChannelMember: both members of a direct conversation.       *)
Repaired(c) == IF c = Direct THEN member \cup (Users \X {Direct}) ELSE member

(* The INSERT, the search document, the event and the COMMIT.              *)
Insert(p) ==
    LET r == req[p]
    IN  /\ pc[p] = "insert" /\ FreeIds # {}
        /\ \/ /\ <<r.by, r.ch>> \in Repaired(r.ch) /\ ~Conflicts(r.by, r.ch, r.cm)
              /\ Create(r.by, r.ch, r.cm) /\ member' = Repaired(r.ch)
              /\ GoTo(p, "answer", [r EXCEPT !.id = NewId])
           \/ /\ <<r.by, r.ch>> \in Repaired(r.ch) /\ Conflicts(r.by, r.ch, r.cm)
              /\ GoTo(p, "refind", r) /\ UNCHANGED <<rows, member>>
           \/ /\ <<r.by, r.ch>> \notin Repaired(r.ch)
              /\ Finish(p) /\ UNCHANGED <<rows, member>>
    /\ UNCHANGED <<pins, reacts, order, slug, installed, open, moves>>

(* After the violation: the other send's message, unless it is gone again. *)
Refind(p) ==
    /\ pc[p] = "refind"
    /\ IF Holders(req[p].by, req[p].ch, req[p].cm) # {} THEN Answered(p) ELSE Finish(p)
    /\ UNCHANGED <<rows, order, conf>>

(* isDuplicateRetry compares the database's created_at with the clock of   *)
(* this process: for overlapping sends, or clocks that differ, either way. *)
MayBeTakenForRetry(p) == req[p].cm # NoKey

-----------------------------------------------------------------------------
(* Other requests about a message.                                         *)

(* A request that reads the message first: Service.Update and Delete ask   *)
(* for the owner too, Pin and the reactions for a member.                  *)
May(op, u, i) ==
    /\ CanGet(u, i)
    /\ op = "update" => msgs[i].by = u
    /\ op = "delete" => msgs[i].by = u \/ u \in Managers

Begin(p) ==
    /\ pc[p] = "idle"
    /\ \E u \in Users, i \in Ids :
       \E op \in Acts[u] \cap {"update", "delete", "pin", "react", "unreact"} :
          /\ May(op, u, i)
          /\ GoTo(p, "write", [Blank EXCEPT !.op = op, !.by = u, !.id = i])
    /\ UNCHANGED <<rows, order, conf>>

Writes(p, op) == pc[p] = "write" /\ req[p].op = op /\ Finish(p)

(* Mutant: the UPDATE does not ask for deleted_at IS NULL.                 *)
UpdatableAnyway(u, i) == IsMember(u, msgs[i].ch)

(* The condition of Repository.Update.                                     *)
Updatable(u, i) == msgs[i].st = "live" /\ IsMember(u, msgs[i].ch)

Update(p) ==
    LET i == req[p].id
    IN  /\ Writes(p, "update")
        /\ IF Updatable(req[p].by, i) /\ msgs[i].ver < MaxVer
           THEN /\ msgs' = [msgs EXCEPT ![i].ver = @ + 1]
                /\ upsertSearchDocument(i, msgs[i].ver + 1)
                /\ insertOutbox("MessageUpdated", i, req[p].by)
           ELSE UNCHANGED <<msgs, docs, told>>
        /\ UNCHANGED <<pins, reacts, order, conf>>

(* Mutant: a message that is deleted already is deleted again.             *)
DeletableAgain(i) == msgs[i].st # "none"

(* The condition of Repository.Delete.                                     *)
Deletable(i) == msgs[i].st = "live"

Delete(p) ==
    LET i == req[p].id
    IN  /\ Writes(p, "delete")
        /\ IF Deletable(i)
           THEN /\ msgs' = [msgs EXCEPT ![i].st = "deleted"]
                /\ docs' = [docs EXCEPT ![i] = -1]
                /\ insertOutbox("MessageDeleted", i, req[p].by)
           ELSE UNCHANGED <<msgs, docs, told>>
        /\ UNCHANGED <<pins, reacts, order, conf>>

(* Repository.Pin: the message may be deleted by now.                      *)
Pin(p) ==
    /\ Writes(p, "pin")
    /\ pins' = pins \cup {req[p].id}
    /\ insertOutbox("MessagePinned", req[p].id, req[p].by)
    /\ UNCHANGED <<msgs, docs, reacts, order, conf>>

Unpin(u, i) ==
    /\ "unpin" \in Acts[u] /\ i \in pins /\ IsMember(u, msgs[i].ch)
    /\ pins' = pins \ {i}
    /\ insertOutbox("MessageUnpinned", i, u)
    /\ UNCHANGED <<msgs, docs, reacts, order, conf, pc, req>>

(* ON CONFLICT DO NOTHING, and an event only for a row that is new.        *)
AddReaction(p) ==
    LET x == <<req[p].id, req[p].by>>
    IN  /\ Writes(p, "react")
        /\ IF x \notin reacts
           THEN reacts' = reacts \cup {x} /\ insertOutbox("ReactionAdded", x[1], x[2])
           ELSE UNCHANGED <<reacts, told>>
        /\ UNCHANGED <<msgs, docs, pins, order, conf>>

(* Mutant: the event is written whether a row was deleted or not.          *)
RemoveReactionAlways(p) ==
    LET x == <<req[p].id, req[p].by>>
    IN  /\ Writes(p, "unreact")
        /\ reacts' = reacts \ {x} /\ insertOutbox("ReactionRemoved", x[1], x[2])
        /\ UNCHANGED <<msgs, docs, pins, order, conf>>

RemoveReaction(p) ==
    LET x == <<req[p].id, req[p].by>>
    IN  /\ Writes(p, "unreact")
        /\ IF x \in reacts
           THEN reacts' = reacts \ {x} /\ insertOutbox("ReactionRemoved", x[1], x[2])
           ELSE UNCHANGED <<reacts, told>>
        /\ UNCHANGED <<msgs, docs, pins, order, conf>>

(* Repository.Forward: the copy keeps the metadata, and with it the client *)
(* message id; the same id twice in the target is an error.                *)
Forward(u, i, c) ==
    /\ "forward" \in Acts[u] /\ CanGet(u, i) /\ IsMember(u, c) /\ FreeIds # {}
    /\ ~Conflicts(u, c, msgs[i].cm)
    /\ Create(u, c, msgs[i].cm)
    /\ UNCHANGED <<pins, reacts, order, conf, pc, req>>

-----------------------------------------------------------------------------
(* The order bot, order/application.  A reply is what it does next for the *)
(* request it has in hand: a text to post, a question, a renewal.          *)

Post(p, out) == GoTo(p, "post", [Blank EXCEPT !.op = "send", !.out = out])

(* What the body of a message asks of the bot of the channel.              *)
Texts ==
    CASE slug = "renewal" -> {"chat", "expiring", "renew"}
      [] slug = "payment" -> {"chat", "help", "pay", "deposit"}
      [] slug = "support" -> {"chat", "help", "wallet", "ticket"}
      [] slug = "alert"   -> {"chat", "help", "alert"}

Ask(p, t) == GoTo(p, "ask", [req[p] EXCEPT !.text = t])

(* handleRenewalAutoMessage, handlePaymentAutoMessage,                     *)
(* handleTicketAutoMessage, handleAlertAutoMessage.                        *)
handleRenewal(p, t) ==
    CASE t = "renew"    -> GoTo(p, "renew", req[p])
      [] t = "expiring" -> Ask(p, t)
      [] OTHER          -> Post(p, "text")

handlePayment(p, t) ==
    CASE t \in {"pay", "deposit"} -> Ask(p, t)
      [] t = "help"               -> Post(p, "text")
      [] OTHER                    -> Finish(p)

handleTicket(p, t) ==
    CASE t = "wallet"             -> Ask(p, t)
      [] t \in {"help", "ticket"} -> Post(p, "text")
      [] OTHER                    -> Finish(p)

handleAlert(p, t) == IF t = "chat" THEN Finish(p) ELSE Post(p, "text")

(* HandleMessage: the channel's source slug decides.                       *)
HandleMessage(p) ==
    \E t \in Texts :
        CASE req[p].ch = Direct -> Finish(p)
          [] slug = "renewal"   -> handleRenewal(p, t)
          [] slug = "payment"   -> handlePayment(p, t)
          [] slug = "support"   -> handleTicket(p, t)
          [] slug = "alert"     -> handleAlert(p, t)

(* After repo.Send: publishRealtime, runAutoResponders.                    *)
Answer(p) ==
    /\ pc[p] = "answer"
    /\ \/ MayBeTakenForRetry(p) /\ Finish(p)
       \/ HandleMessage(p)
    /\ UNCHANGED <<rows, order, conf>>

(* ensurePermission of the zone and the person.                            *)
ensurePermission(u, allowed) == open /\ u \in allowed

(* A question to the Order API; an answer or an error is posted.           *)
Question(p, text, allowed) ==
    /\ pc[p] = "ask" /\ req[p].text = text
    /\ \/ ensurePermission(req[p].by, allowed) /\ Post(p, "result")
       \/ Post(p, "error")
    /\ UNCHANGED <<rows, order, conf>>

WalletBalance(p)        == Question(p, "wallet", Viewers)
CreateDepositQR(p)      == Question(p, "deposit", Payers)
CreateOrderPaymentQR(p) == Question(p, "pay", Payers)
ServicesExpiring(p)     == Question(p, "expiring", Viewers)

(* ensureRenewalPermission: billing, or a renewal with one's own address.  *)
ensureRenewalPermission(u, own) ==
    open /\ (u \in Billers \/ (u \in Payers /\ own))

(* Mutant: a key of its own for every attempt.                             *)
KeyOfAttempt(p) == <<p, req[p].id>>

(* RenewService: the key the Order API tells repetitions by.               *)
IdempotencyKey(p) == req[p].id

(* External, by its contract: one charge for a key, however often asked.   *)
Charge(p) ==
    LET k == IdempotencyKey(p)
    IN  IF k \in keys THEN UNCHANGED order
        ELSE keys' = keys \cup {k} /\ charges' = [charges EXCEPT ![req[p].id] = @ + 1]

(* RenewService: the call is refused, or it charges; the answer may be     *)
(* lost either way, and what is lost is posted as an error.                *)
RenewService(p) ==
    /\ pc[p] = "renew"
    /\ \/ \E own \in BOOLEAN : ensureRenewalPermission(req[p].by, own)
          /\ Charge(p) /\ (Post(p, "result") \/ Post(p, "error"))
       \/ Post(p, "error") /\ UNCHANGED order
    /\ UNCHANGED <<rows, conf>>

(* SendBotMessage: the bot must be installed, its zone active.             *)
SendBotMessage == installed /\ open /\ Create(Bot, Group, NoKey)

(* postBotMessage: a result that cannot be posted is posted as an error,   *)
(* renewals that have been charged included; a text or an error that       *)
(* cannot be posted is dropped.                                            *)
postBotMessage(p) ==
    /\ pc[p] = "post" /\ FreeIds # {}
    /\ \/ SendBotMessage /\ Finish(p)
       \/ /\ IF req[p].out = "result" THEN Post(p, "error") ELSE Finish(p)
          /\ UNCHANGED <<msgs, docs, told>>
    /\ UNCHANGED <<pins, reacts, order, conf>>

-----------------------------------------------------------------------------
(* A statement or its connection fails, or the process stops: the rest of  *)
(* the request does not happen.                                            *)
Abandon(p) ==
    /\ pc[p] # "idle" /\ Finish(p)
    /\ UNCHANGED <<rows, order, conf>>

(* channels: a member leaves, is removed, comes back.                      *)
MemberMoves ==
    /\ moves < MaxMoves /\ moves' = moves + 1
    /\ \E x \in Users \X Channels :
          /\ "move" \in Acts[x[1]]
          /\ member' = IF x \in member THEN member \ {x} ELSE member \cup {x}
    /\ UNCHANGED <<rows, order, slug, installed, open, pc, req>>

(* bots: InstallBot; nothing takes an installation back.                   *)
InstallBot ==
    /\ moves < MaxMoves /\ moves' = moves + 1
    /\ ~installed /\ installed' = TRUE
    /\ UNCHANGED <<rows, order, member, slug, open, pc, req>>

(* tenancy: SetZoneLifecycle suspends and resumes the zone.                *)
ZoneChanges ==
    /\ moves < MaxMoves /\ moves' = moves + 1
    /\ open' = ~open
    /\ UNCHANGED <<rows, order, member, slug, installed, pc, req>>

Orders(p) ==
    \/ WalletBalance(p) \/ CreateDepositQR(p) \/ CreateOrderPaymentQR(p)
    \/ ServicesExpiring(p) \/ RenewService(p) \/ postBotMessage(p)

Next ==
    \/ \E p \in Requests :
          \/ Send(p) \/ FindExisting(p) \/ Insert(p) \/ Refind(p) \/ Answer(p)
          \/ Begin(p) \/ Update(p) \/ Delete(p) \/ Pin(p)
          \/ AddReaction(p) \/ RemoveReaction(p)
          \/ Orders(p) \/ Abandon(p)
    \/ \E u \in Users, i \in Ids : Unpin(u, i) \/ \E c \in Channels : Forward(u, i, c)
    \/ MemberMoves \/ InstallBot \/ ZoneChanges

Spec == Init /\ [][Next]_vars

-----------------------------------------------------------------------------
(* The search index holds the live messages with their present text and    *)
(* nothing else: an edit that races with a deletion does not bring the     *)
(* text of a deleted message back into it.                                 *)
SearchMatchesMessages ==
    /\ TypeOK
    /\ \A i \in Ids : docs[i] = IF msgs[i].st = "live" THEN msgs[i].ver ELSE -1

(* However sends with one client message id overlap, are repeated or are   *)
(* taken for repetitions, the channel shows one message for it, and the    *)
(* wallet is charged once for each message, so a second time for a client  *)
(* id only when the message was deleted and sent again.                    *)
SendsAreIdempotent ==
    /\ \A u \in Users, c \in Channels, k \in ClientIds :
          \A i, j \in Holders(u, c, k) : i = j
    /\ \A i \in Ids : charges[i] <= 1

(* A consumer that applies a message's events in commit order knows what   *)
(* the tables say: never an edit before the creation or after the          *)
(* deletion, no second creation or deletion, reactions that come and go in *)
(* turn.                                                                   *)
EventsTellTheRows ==
    \A i \in Ids :
        /\ told[i].st = msgs[i].st /\ told[i].ver = msgs[i].ver
        /\ told[i].pinned = (i \in pins)
        /\ told[i].reacts = {u \in Users : <<i, u>> \in reacts}
=============================================================================
