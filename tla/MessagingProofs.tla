--------------------------- MODULE MessagingProofs ---------------------------
(***************************************************************************)
(* What holds of messages, their search documents and events, and of the   *)
(* charges the order bot asks for, for every set of requests, users and    *)
(* client message ids, every number of messages, edits and changes of      *)
(* members; and of the files a message carries and the flows and posts of  *)
(* a bot, for every set of requests, keys, files and flows.                *)
(***************************************************************************)
EXTENDS MCMessaging, FiniteSetTheorems, WellFoundedInduction, TLAPS

-----------------------------------------------------------------------------
(* The inductive invariant, by the tables it is about.                     *)

(* What a request has in hand when it comes to a step.                     *)
Ready(step, r) ==
    /\ step \in Steps /\ r \in Request
    /\ step \in {"find", "insert", "refind"} => r.by \in Users /\ r.ch \in Channels
    /\ step \in {"answer", "ask", "renew", "write"} => r.id \in Ids
    /\ step = "write" => r.by \in Users

RequestsOK ==
    /\ pc \in [Requests -> Steps] /\ req \in [Requests -> Request]
    /\ \A p \in Requests : Ready(pc[p], req[p])

RowTypes ==
    /\ msgs \in [Ids -> Message] /\ docs \in [Ids -> -1..MaxVer]
    /\ told \in [Ids -> Heard]
    /\ pins \subseteq Ids /\ reacts \subseteq Ids \X Users

Indexed ==
    \A i \in Ids : docs[i] = IF msgs[i].st = "live" THEN msgs[i].ver ELSE -1

OneForAKey ==
    \A u \in Users, c \in Channels, k \in ClientIds : \A i, j \in Holders(u, c, k) : i = j

(* A row not yet written has never been edited: its first event finds a    *)
(* consumer that has heard nothing.                                        *)
FreshRows == \A i \in Ids : msgs[i].st = "none" => msgs[i].ver = 0

RowsOK == RowTypes /\ FreshRows /\ Indexed /\ OneForAKey /\ EventsTellTheRows

(* A message is charged only under its own key, which is seen from then on. *)
ChargesOK ==
    /\ charges \in [Ids -> Nat]
    /\ \A i \in Ids : charges[i] <= 1 /\ (i \notin keys => charges[i] = 0)

ConfOK ==
    /\ member \subseteq Users \X Channels
    /\ slug \in Slugs /\ installed \in BOOLEAN /\ open \in BOOLEAN
    /\ moves \in 0..MaxMoves

Inv == RowsOK /\ RequestsOK /\ ChargesOK /\ ConfOK

-----------------------------------------------------------------------------
(* Requests: every step leaves a request that is ready for its next one.   *)

LEMMA BlankType == Blank \in Request
  BY BoundAssumption DEF Blank, Request

LEMMA GoToReady ==
    ASSUME RequestsOK, NEW p \in Requests, NEW step, NEW r, Ready(step, r), GoTo(p, step, r)
    PROVE  RequestsOK'
<1>1. step \in Steps /\ r \in Request
  BY DEF Ready
<1>2. pc' \in [Requests -> Steps] /\ req' \in [Requests -> Request]
  BY <1>1 DEF GoTo, RequestsOK
<1>3. \A q \in Requests : /\ pc'[q] = IF q = p THEN step ELSE pc[q]
                          /\ req'[q] = IF q = p THEN r ELSE req[q]
  BY DEF GoTo, RequestsOK
<1>4. \A q \in Requests : Ready(pc'[q], req'[q])
  BY <1>3 DEF RequestsOK
<1> QED
  BY <1>2, <1>4 DEF RequestsOK, Ready

LEMMA FinishReady ==
    ASSUME RequestsOK, NEW p \in Requests, Finish(p) PROVE RequestsOK'
<1>1. Ready("idle", Blank)
  BY BlankType DEF Ready, Steps
<1> QED
  BY <1>1, GoToReady DEF Finish

LEMMA PostReady ==
    ASSUME RequestsOK, NEW p \in Requests, NEW out \in {"text", "result", "error"}, Post(p, out)
    PROVE  RequestsOK'
<1> DEFINE r == [Blank EXCEPT !.op = "send", !.out = out]
<1>1. r \in Request
  BY BlankType DEF Request, Blank
<1>2. Ready("post", r)
  BY <1>1 DEF Ready, Steps
<1> QED
  BY <1>2, GoToReady DEF Post

LEMMA AskReady ==
    ASSUME RequestsOK, NEW p \in Requests, pc[p] = "answer", NEW t, Ask(p, t),
           t \in {"help", "expiring", "renew", "pay", "deposit", "wallet"}
    PROVE  RequestsOK'
<1> DEFINE r == [req[p] EXCEPT !.text = t]
<1>1. req[p] \in Request /\ req[p].id \in Ids
  BY DEF RequestsOK, Ready
<1>2. r \in Request /\ r.id \in Ids
  BY <1>1 DEF Request
<1>3. Ready("ask", r)
  BY <1>2 DEF Ready, Steps
<1> QED
  BY <1>3, GoToReady DEF Ask

LEMMA KeepReady ==
    ASSUME RequestsOK, NEW p \in Requests, NEW step,
           \/ pc[p] = "find" /\ step = "insert"
           \/ pc[p] = "insert" /\ step = "refind"
           \/ pc[p] = "answer" /\ step = "renew",
           GoTo(p, step, req[p])
    PROVE  RequestsOK'
<1>1. Ready(step, req[p])
  BY DEF RequestsOK, Ready, Steps
<1> QED
  BY <1>1, GoToReady

LEMMA FoundReady ==
    ASSUME RequestsOK, NEW p \in Requests, NEW i \in Ids,
           GoTo(p, "answer", [req[p] EXCEPT !.id = i])
    PROVE  RequestsOK'
<1> DEFINE r == [req[p] EXCEPT !.id = i]
<1>1. req[p] \in Request /\ i \in 0..MaxIds
  BY BoundAssumption DEF RequestsOK, Ids
<1>2. r \in Request /\ r.id = i
  BY <1>1 DEF Request
<1>3. Ready("answer", r)
  BY <1>2 DEF Ready, Steps
<1> QED
  BY <1>3, GoToReady

LEMMA AnsweredReady ==
    ASSUME RequestsOK, NEW p \in Requests, Answered(p) PROVE RequestsOK'
<1>1. CASE IsMember(req[p].by, req[p].ch)
  <2>1. PICK i \in Holders(req[p].by, req[p].ch, req[p].cm) :
            GoTo(p, "answer", [req[p] EXCEPT !.id = i])
    BY <1>1 DEF Answered
  <2>2. i \in Ids
    BY DEF Holders
  <2> QED
    BY <2>1, <2>2, FoundReady
<1>2. CASE ~IsMember(req[p].by, req[p].ch)
  BY <1>2, FinishReady DEF Answered
<1> QED
  BY <1>1, <1>2

LEMMA NewIdIsFree == FreeIds # {} => NewId \in Ids /\ msgs[NewId].st = "none"
  BY DEF NewId, FreeIds

LEMMA SendReady == ASSUME RequestsOK, NEW p \in Requests, Send(p) PROVE RequestsOK'
<1>1. PICK u \in Users, c \in Channels, k \in ClientIds :
          GoTo(p, "find", [Blank EXCEPT !.op = "send", !.by = u, !.ch = c, !.cm = k])
  BY DEF Send
<1> DEFINE r == [Blank EXCEPT !.op = "send", !.by = u, !.ch = c, !.cm = k]
<1>2. r \in Request /\ r.by \in Users /\ r.ch \in Channels
  BY BlankType DEF Blank, Request
<1>3. Ready("find", r)
  BY <1>2 DEF Ready, Steps
<1> QED
  BY <1>1, <1>3, GoToReady

LEMMA BeginReady == ASSUME RequestsOK, NEW p \in Requests, Begin(p) PROVE RequestsOK'
<1>1. PICK u \in Users, i \in Ids :
         \E op \in Acts[u] \cap {"update", "delete", "pin", "react", "unreact"} :
            GoTo(p, "write", [Blank EXCEPT !.op = op, !.by = u, !.id = i])
  BY DEF Begin
<1>2. PICK op \in {"update", "delete", "pin", "react", "unreact"} :
            GoTo(p, "write", [Blank EXCEPT !.op = op, !.by = u, !.id = i])
  BY <1>1
<1> DEFINE r == [Blank EXCEPT !.op = op, !.by = u, !.id = i]
<1>3. i \in 0..MaxIds
  BY BoundAssumption DEF Ids
<1>4. r \in Request /\ r.by \in Users /\ r.id \in Ids
  BY <1>3, BlankType DEF Blank, Request
<1>5. Ready("write", r)
  BY <1>4 DEF Ready, Steps
<1> QED
  BY <1>2, <1>5, GoToReady

LEMMA InsertReady == ASSUME RequestsOK, NEW p \in Requests, Insert(p) PROVE RequestsOK'
<1>1. CASE GoTo(p, "answer", [req[p] EXCEPT !.id = NewId])
  BY <1>1, NewIdIsFree, FoundReady DEF Insert
<1>2. CASE GoTo(p, "refind", req[p])
  BY <1>2, KeepReady DEF Insert
<1>3. CASE Finish(p)
  BY <1>3, FinishReady
<1> QED
  BY <1>1, <1>2, <1>3 DEF Insert

(* Whatever the bot makes of a message.                                    *)
LEMMA AnswerReady ==
    ASSUME RequestsOK, slug \in Slugs, NEW p \in Requests, Answer(p) PROVE RequestsOK'
<1>1. pc[p] = "answer" /\ (Finish(p) \/ HandleMessage(p))
  BY DEF Answer
<1>2. ASSUME NEW t, handleRenewal(p, t) PROVE RequestsOK'
  <2>1. CASE GoTo(p, "renew", req[p])
    BY <1>1, <2>1, KeepReady
  <2>2. CASE t = "expiring" /\ Ask(p, t)
    BY <1>1, <2>2, AskReady
  <2>3. CASE Post(p, "text")
    BY <2>3, PostReady
  <2> QED
    BY <1>2, <2>1, <2>2, <2>3 DEF handleRenewal
<1>3. ASSUME NEW t, handlePayment(p, t) PROVE RequestsOK'
  <2>1. CASE t \in {"pay", "deposit"} /\ Ask(p, t)
    BY <1>1, <2>1, AskReady
  <2>2. CASE Post(p, "text")
    BY <2>2, PostReady
  <2>3. CASE Finish(p)
    BY <2>3, FinishReady
  <2> QED
    BY <1>3, <2>1, <2>2, <2>3 DEF handlePayment
<1>4. ASSUME NEW t, handleTicket(p, t) PROVE RequestsOK'
  <2>1. CASE t = "wallet" /\ Ask(p, t)
    BY <1>1, <2>1, AskReady
  <2>2. CASE Post(p, "text")
    BY <2>2, PostReady
  <2>3. CASE Finish(p)
    BY <2>3, FinishReady
  <2> QED
    BY <1>4, <2>1, <2>2, <2>3 DEF handleTicket
<1>5. ASSUME NEW t, handleAlert(p, t) PROVE RequestsOK'
  BY <1>5, PostReady, FinishReady DEF handleAlert
<1>6. CASE HandleMessage(p)
  <2>1. PICK t \in Texts :
           CASE req[p].ch = Direct -> Finish(p)
             [] slug = "renewal"   -> handleRenewal(p, t)
             [] slug = "payment"   -> handlePayment(p, t)
             [] slug = "support"   -> handleTicket(p, t)
             [] slug = "alert"     -> handleAlert(p, t)
    BY <1>6 DEF HandleMessage
  <2>2. \/ Finish(p) \/ handleRenewal(p, t) \/ handlePayment(p, t)
        \/ handleTicket(p, t) \/ handleAlert(p, t)
    BY <2>1 DEF Slugs
  <2> QED
    BY <2>2, <1>2, <1>3, <1>4, <1>5, FinishReady
<1> QED
  BY <1>1, <1>6, FinishReady

LEMMA OrdersReady == ASSUME RequestsOK, NEW p \in Requests, Orders(p) PROVE RequestsOK'
<1>1. ASSUME NEW text, NEW allowed, Question(p, text, allowed) PROVE RequestsOK'
  BY <1>1, PostReady DEF Question
<1>2. CASE RenewService(p)
  BY <1>2, PostReady DEF RenewService
<1>3. CASE postBotMessage(p)
  BY <1>3, PostReady, FinishReady DEF postBotMessage
<1> QED
  BY <1>1, <1>2, <1>3
     DEF Orders, WalletBalance, CreateDepositQR, CreateOrderPaymentQR, ServicesExpiring

LEMMA RequestStep == ASSUME RequestsOK, slug \in Slugs, [Next]_vars PROVE RequestsOK'
<1>1. ASSUME UNCHANGED <<pc, req>> PROVE RequestsOK'
  BY <1>1 DEF RequestsOK
<1>2. ASSUME NEW p \in Requests,
             \/ Send(p) \/ FindExisting(p) \/ Insert(p) \/ Refind(p) \/ Answer(p)
             \/ Begin(p) \/ Orders(p)
      PROVE  RequestsOK'
  <2>1. CASE FindExisting(p)
    BY <2>1, AnsweredReady, KeepReady DEF FindExisting
  <2>2. CASE Refind(p)
    BY <2>2, AnsweredReady, FinishReady DEF Refind
  <2> QED
    BY <1>2, <2>1, <2>2, SendReady, InsertReady, AnswerReady, BeginReady, OrdersReady
<1>3. ASSUME NEW p \in Requests,
             \/ Update(p) \/ Delete(p) \/ Pin(p) \/ AddReaction(p) \/ RemoveReaction(p)
             \/ Abandon(p)
      PROVE  RequestsOK'
  BY <1>3, FinishReady
     DEF Update, Delete, Pin, AddReaction, RemoveReaction, Abandon, Writes
<1>4. ASSUME NEW u \in Users, NEW i \in Ids, Unpin(u, i) \/ \E c \in Channels : Forward(u, i, c)
      PROVE  UNCHANGED <<pc, req>>
  BY <1>4 DEF Unpin, Forward
<1>5. ASSUME MemberMoves \/ InstallBot \/ ZoneChanges PROVE UNCHANGED <<pc, req>>
  BY <1>5 DEF MemberMoves, InstallBot, ZoneChanges
<1>6. ASSUME UNCHANGED vars PROVE UNCHANGED <<pc, req>>
  BY <1>6 DEF vars
<1> QED
  BY <1>1, <1>2, <1>3, <1>4, <1>5, <1>6 DEF Next

-----------------------------------------------------------------------------
(* The rows: what each kind of write keeps.                                *)

LEMMA RowsUnchanged == ASSUME RowsOK, UNCHANGED rows PROVE RowsOK'
  BY DEF RowsOK, RowTypes, FreshRows, Indexed, OneForAKey, Holders, EventsTellTheRows, rows

(* One row is written, with its search document and the events of it: the  *)
(* others keep what they had, this one must agree with itself, and be the  *)
(* first of its key or have had the key before.                            *)
LEMMA WriteKeeps ==
    ASSUME RowsOK, NEW i \in Ids, NEW m \in Message, NEW d, NEW t \in Heard,
           msgs' = [msgs EXCEPT ![i] = m], docs' = [docs EXCEPT ![i] = d],
           told' = [told EXCEPT ![i] = t],
           pins' \subseteq Ids, reacts' \subseteq Ids \X Users,
           \A j \in Ids \ {i} : /\ j \in pins' <=> j \in pins
                                /\ \A u \in Users : <<j, u>> \in reacts' <=> <<j, u>> \in reacts,
           m.st = "none" => m.ver = 0,
           d = IF m.st = "live" THEN m.ver ELSE -1,
           t.st = m.st, t.ver = m.ver, t.pinned = (i \in pins'),
           t.reacts = {u \in Users : <<i, u>> \in reacts'},
           m.st = "live" =>
               \/ ~Conflicts(m.by, m.ch, m.cm)
               \/ /\ msgs[i].st = "live" /\ m.by = msgs[i].by
                  /\ m.ch = msgs[i].ch /\ m.cm = msgs[i].cm
    PROVE  RowsOK'
<1>1. \A j \in Ids : /\ msgs'[j] = IF j = i THEN m ELSE msgs[j]
                     /\ docs'[j] = IF j = i THEN d ELSE docs[j]
                     /\ told'[j] = IF j = i THEN t ELSE told[j]
  BY DEF RowsOK, RowTypes
<1>2. RowTypes'
  <2>1. d \in -1..MaxVer
    BY BoundAssumption DEF Message
  <2> QED
    BY <2>1 DEF RowsOK, RowTypes
<1>3. FreshRows' /\ Indexed'
  BY <1>1 DEF RowsOK, FreshRows, Indexed
<1>4. OneForAKey'
  <2> SUFFICES ASSUME NEW u \in Users, NEW c \in Channels, NEW k \in ClientIds,
                      NEW x \in Holders(u, c, k)', NEW y \in Holders(u, c, k)'
               PROVE  x = y
    BY DEF OneForAKey
  <2>1. ASSUME NEW z \in Holders(u, c, k)', z # i PROVE z \in Holders(u, c, k)
    BY <2>1, <1>1 DEF Holders
  <2>2. ASSUME i \in Holders(u, c, k)' PROVE i \in Holders(u, c, k) \/ Holders(u, c, k) = {}
    <3>1. m.st = "live" /\ m.by = u /\ m.ch = c /\ m.cm = k /\ k # NoKey
      BY <2>2, <1>1 DEF Holders
    <3> QED
      BY <3>1 DEF Holders, Conflicts
  <2>3. \A v, w \in Holders(u, c, k) : v = w
    BY DEF RowsOK, OneForAKey
  <2> QED
    BY <2>1, <2>2, <2>3
<1>5. EventsTellTheRows'
  <2>1. \A j \in Ids : /\ told[j].st = msgs[j].st /\ told[j].ver = msgs[j].ver
                       /\ told[j].pinned = (j \in pins)
                       /\ told[j].reacts = {u \in Users : <<j, u>> \in reacts}
    BY DEF RowsOK, EventsTellTheRows
  <2>2. \A j \in Ids : told'[j].st = msgs'[j].st /\ told'[j].ver = msgs'[j].ver
    BY <1>1, <2>1
  <2>3. \A j \in Ids : told'[j].pinned = (j \in pins')
    BY <1>1, <2>1
  <2>4. \A j \in Ids : told'[j].reacts = {u \in Users : <<j, u>> \in reacts'}
    BY <1>1, <2>1
  <2> QED
    BY <2>2, <2>3, <2>4 DEF EventsTellTheRows
<1> QED
  BY <1>2, <1>3, <1>4, <1>5 DEF RowsOK

(* What is known of a message, as the consumer and the tables have it.     *)
LEMMA RowFacts ==
    ASSUME RowsOK, NEW i \in Ids
    PROVE  /\ msgs[i] \in Message /\ told[i] \in Heard
           /\ told[i].st = msgs[i].st /\ told[i].ver = msgs[i].ver
           /\ told[i].pinned = (i \in pins)
           /\ told[i].reacts = {u \in Users : <<i, u>> \in reacts}
           /\ docs[i] = IF msgs[i].st = "live" THEN msgs[i].ver ELSE -1
           /\ msgs[i].st = "none" => msgs[i].ver = 0
  BY DEF RowsOK, RowTypes, EventsTellTheRows, Indexed, FreshRows

LEMMA CreateKeeps ==
    ASSUME RowsOK, FreeIds # {}, UNCHANGED <<pins, reacts>>,
           NEW by \in Users \cup {Bot}, NEW ch \in Channels, NEW cm \in ClientIds \cup {NoKey},
           ~Conflicts(by, ch, cm), Create(by, ch, cm)
    PROVE  RowsOK'
<1> DEFINE i == NewId
           m == [st |-> "live", ch |-> ch, by |-> by, cm |-> cm, ver |-> 0]
           t == [told[i] EXCEPT !.st = "live"]
<1>1. i \in Ids /\ msgs[i].st = "none"
  BY NewIdIsFree
<1>2. told[i] \in Heard /\ told[i].st = "none" /\ told[i].ver = 0
  BY <1>1, RowFacts
<1>3. msgs' = [msgs EXCEPT ![i] = m] /\ docs' = [docs EXCEPT ![i] = 0]
  BY DEF Create, upsertSearchDocument
<1>4. told' = [told EXCEPT ![i] = t]
  BY <1>2 DEF Create, insertOutbox, Told
<1>5. m \in Message /\ m.st = "live" /\ m.ver = 0 /\ m.by = by /\ m.ch = ch /\ m.cm = cm
  BY BoundAssumption DEF Message, States
<1>6. t \in Heard /\ t.st = "live" /\ t.ver = 0 /\ t.pinned = told[i].pinned
      /\ t.reacts = told[i].reacts
  BY <1>2 DEF Heard, States
<1> HIDE DEF i, m, t
<1>7. pins' \subseteq Ids /\ reacts' \subseteq Ids \X Users
  BY DEF RowsOK, RowTypes
<1>8. t.pinned = (i \in pins') /\ t.reacts = {u \in Users : <<i, u>> \in reacts'}
  BY <1>1, <1>6, RowFacts
<1> QED
  BY <1>1, <1>3, <1>4, <1>5, <1>6, <1>7, <1>8, WriteKeeps

LEMMA UpdateKeeps ==
    ASSUME RowsOK, NEW p \in Requests, req[p].id \in Ids, Update(p) PROVE RowsOK'
<1> DEFINE i == req[p].id
           m == [msgs[i] EXCEPT !.ver = @ + 1]
           t == [told[i] EXCEPT !.ver = @ + 1]
<1>1. CASE Updatable(req[p].by, i) /\ msgs[i].ver < MaxVer
  <2>1. msgs[i].st = "live" /\ told[i].st = "live" /\ told[i].ver = msgs[i].ver
        /\ msgs[i] \in Message /\ told[i] \in Heard
    BY <1>1, RowFacts DEF Updatable
  <2>2. msgs' = [msgs EXCEPT ![i] = m] /\ docs' = [docs EXCEPT ![i] = msgs[i].ver + 1]
    BY <1>1 DEF Update, upsertSearchDocument
  <2>3. told' = [told EXCEPT ![i] = t]
    BY <1>1, <2>1 DEF Update, insertOutbox, Told
  <2>4. UNCHANGED <<pins, reacts>>
    BY DEF Update
  <2>5. msgs[i].ver + 1 \in 0..MaxVer /\ told[i].ver + 1 \in Nat
    BY <1>1, <2>1, BoundAssumption DEF Message, Heard
  <2>6. /\ m \in Message /\ m.st = "live" /\ m.ver = msgs[i].ver + 1
        /\ m.by = msgs[i].by /\ m.ch = msgs[i].ch /\ m.cm = msgs[i].cm
    BY <2>1, <2>5 DEF Message, States
  <2>7. /\ t \in Heard /\ t.st = "live" /\ t.ver = told[i].ver + 1
        /\ t.pinned = told[i].pinned /\ t.reacts = told[i].reacts
    BY <2>1, <2>5 DEF Heard, States
  <2> HIDE DEF m, t
  <2>8. pins' \subseteq Ids /\ reacts' \subseteq Ids \X Users
    BY <2>4 DEF RowsOK, RowTypes
  <2>9. t.pinned = (i \in pins') /\ t.reacts = {u \in Users : <<i, u>> \in reacts'}
    BY <2>4, <2>7, RowFacts
  <2>10. docs' = [docs EXCEPT ![i] = m.ver]
    BY <2>2, <2>6
  <2>11. i \in Ids /\ t.st = m.st /\ t.ver = m.ver
    BY <2>1, <2>6, <2>7
  <2> HIDE DEF i
  <2> QED
    BY <2>1, <2>2, <2>3, <2>4, <2>6, <2>7, <2>8, <2>9, <2>10, <2>11, WriteKeeps
<1>2. CASE ~(Updatable(req[p].by, i) /\ msgs[i].ver < MaxVer)
  BY <1>2, RowsUnchanged DEF Update, rows
<1> QED
  BY <1>1, <1>2

LEMMA DeleteKeeps ==
    ASSUME RowsOK, NEW p \in Requests, req[p].id \in Ids, Delete(p) PROVE RowsOK'
<1> DEFINE i == req[p].id
           m == [msgs[i] EXCEPT !.st = "deleted"]
           t == [told[i] EXCEPT !.st = "deleted"]
<1>1. CASE Deletable(i)
  <2>1. msgs[i].st = "live" /\ told[i].st = "live" /\ told[i].ver = msgs[i].ver
        /\ msgs[i] \in Message /\ told[i] \in Heard
    BY <1>1, RowFacts DEF Deletable
  <2>2. msgs' = [msgs EXCEPT ![i] = m] /\ docs' = [docs EXCEPT ![i] = -1]
    BY <1>1 DEF Delete
  <2>3. told' = [told EXCEPT ![i] = t]
    BY <1>1, <2>1 DEF Delete, insertOutbox, Told
  <2>4. UNCHANGED <<pins, reacts>>
    BY DEF Delete
  <2>5. m \in Message /\ m.st = "deleted" /\ m.ver = msgs[i].ver
    BY <2>1 DEF Message, States
  <2>6. /\ t \in Heard /\ t.st = "deleted" /\ t.ver = told[i].ver
        /\ t.pinned = told[i].pinned /\ t.reacts = told[i].reacts
    BY <2>1 DEF Heard, States
  <2> HIDE DEF m, t
  <2>7. pins' \subseteq Ids /\ reacts' \subseteq Ids \X Users
    BY <2>4 DEF RowsOK, RowTypes
  <2>8. t.pinned = (i \in pins') /\ t.reacts = {u \in Users : <<i, u>> \in reacts'}
    BY <2>4, <2>6, RowFacts
  <2>9. i \in Ids /\ t.st = m.st /\ t.ver = m.ver
    BY <2>1, <2>5, <2>6
  <2> HIDE DEF i
  <2> QED
    BY <2>2, <2>3, <2>4, <2>5, <2>6, <2>7, <2>8, <2>9, WriteKeeps
<1>2. CASE ~Deletable(i)
  BY <1>2, RowsUnchanged DEF Delete, rows
<1> QED
  BY <1>1, <1>2

(* Pins and reactions leave the messages and their search documents.       *)
LEMMA MarkKeeps ==
    ASSUME RowsOK, NEW i \in Ids, UNCHANGED <<msgs, docs>>, NEW t \in Heard,
           told' = [told EXCEPT ![i] = t], t.st = told[i].st, t.ver = told[i].ver,
           pins' \subseteq Ids, reacts' \subseteq Ids \X Users,
           \A j \in Ids \ {i} : /\ j \in pins' <=> j \in pins
                                /\ \A u \in Users : <<j, u>> \in reacts' <=> <<j, u>> \in reacts,
           t.pinned = (i \in pins'), t.reacts = {u \in Users : <<i, u>> \in reacts'}
    PROVE  RowsOK'
<1>1. RowTypes'
  BY DEF RowsOK, RowTypes
<1>2. FreshRows' /\ Indexed' /\ OneForAKey'
  BY DEF RowsOK, FreshRows, Indexed, OneForAKey, Holders
<1>3. \A j \in Ids : told'[j] = IF j = i THEN t ELSE told[j]
  BY DEF RowsOK, RowTypes
<1>4. \A j \in Ids : told'[j].st = msgs'[j].st /\ told'[j].ver = msgs'[j].ver
  BY <1>3, RowFacts
<1>5. \A j \in Ids : told'[j].pinned = (j \in pins')
  BY <1>3, RowFacts
<1>6. \A j \in Ids : told'[j].reacts = {u \in Users : <<j, u>> \in reacts'}
  BY <1>3, RowFacts
<1> QED
  BY <1>1, <1>2, <1>4, <1>5, <1>6 DEF RowsOK, EventsTellTheRows

LEMMA PinKeeps ==
    ASSUME RowsOK, NEW p \in Requests, req[p].id \in Ids, Pin(p) PROVE RowsOK'
<1> DEFINE i == req[p].id
           t == [told[i] EXCEPT !.pinned = TRUE]
<1>1. told' = [told EXCEPT ![i] = t] /\ pins' = pins \cup {i} /\ UNCHANGED <<msgs, docs, reacts>>
  BY DEF Pin, insertOutbox, Told
<1>2. /\ t \in Heard /\ t.st = told[i].st /\ t.ver = told[i].ver
      /\ t.pinned = TRUE /\ t.reacts = told[i].reacts
  BY RowFacts DEF Heard
<1> HIDE DEF t
<1>3. pins' \subseteq Ids /\ reacts' \subseteq Ids \X Users
  BY <1>1 DEF RowsOK, RowTypes
<1>4. t.pinned = (i \in pins') /\ t.reacts = {u \in Users : <<i, u>> \in reacts'}
  BY <1>1, <1>2, RowFacts
<1> QED
  BY <1>1, <1>2, <1>3, <1>4, MarkKeeps

LEMMA UnpinKeeps ==
    ASSUME RowsOK, NEW u \in Users, NEW i \in Ids, Unpin(u, i) PROVE RowsOK'
<1> DEFINE t == [told[i] EXCEPT !.pinned = FALSE]
<1>1. told[i].pinned = TRUE
  BY RowFacts DEF Unpin
<1>2. told' = [told EXCEPT ![i] = t] /\ pins' = pins \ {i} /\ UNCHANGED <<msgs, docs, reacts>>
  BY <1>1 DEF Unpin, insertOutbox, Told
<1>3. /\ t \in Heard /\ t.st = told[i].st /\ t.ver = told[i].ver
      /\ t.pinned = FALSE /\ t.reacts = told[i].reacts
  BY RowFacts DEF Heard
<1> HIDE DEF t
<1>4. pins' \subseteq Ids /\ reacts' \subseteq Ids \X Users
  BY <1>2 DEF RowsOK, RowTypes
<1>5. t.reacts = {v \in Users : <<i, v>> \in reacts'} /\ i \notin pins'
  BY <1>2, <1>3, RowFacts
<1>6. t.pinned = (i \in pins')
  <2>1. FALSE = (i \in pins')
    BY <1>5
  <2>2. t.pinned = FALSE
    BY <1>3
  <2> QED
    BY <2>1, <2>2, Zenon
<1> QED
  BY <1>2, <1>3, <1>4, <1>5, <1>6, MarkKeeps

(* A reaction that is added or taken away is the only one of its message   *)
(* that changes.                                                           *)
LEMMA ReactionKeeps ==
    ASSUME RowsOK, NEW i \in Ids, NEW u \in Users, UNCHANGED <<msgs, docs, pins>>,
           \/ /\ reacts' = reacts \cup {<<i, u>>} /\ <<i, u>> \notin reacts
              /\ insertOutbox("ReactionAdded", i, u)
           \/ /\ reacts' = reacts \ {<<i, u>>} /\ <<i, u>> \in reacts
              /\ insertOutbox("ReactionRemoved", i, u)
    PROVE  RowsOK'
<1> DEFINE those == {v \in Users : <<i, v>> \in reacts'}
           t == [told[i] EXCEPT !.reacts = those]
<1>1. told[i].reacts = {v \in Users : <<i, v>> \in reacts} /\ told[i] \in Heard
  BY RowFacts
<1>2. told' = [told EXCEPT ![i] = t]
  <2>1. CASE reacts' = reacts \cup {<<i, u>>} /\ <<i, u>> \notin reacts
             /\ insertOutbox("ReactionAdded", i, u)
    <3>1. those = told[i].reacts \cup {u} /\ u \notin told[i].reacts
      BY <1>1, <2>1
    <3> HIDE DEF those
    <3> QED
      BY <2>1, <3>1 DEF insertOutbox, Told
  <2>2. CASE reacts' = reacts \ {<<i, u>>} /\ <<i, u>> \in reacts
             /\ insertOutbox("ReactionRemoved", i, u)
    <3>1. those = told[i].reacts \ {u} /\ u \in told[i].reacts
      BY <1>1, <2>2
    <3> HIDE DEF those
    <3> QED
      BY <2>2, <3>1 DEF insertOutbox, Told
  <2> QED
    BY <2>1, <2>2
<1>3. those \subseteq Users
  OBVIOUS
<1>4. t.reacts = those /\ t.st = told[i].st /\ t.ver = told[i].ver
      /\ t.pinned = told[i].pinned
  <2> HIDE DEF those
  <2> QED
    BY <1>1 DEF Heard
<1>5. t \in Heard
  <2> HIDE DEF those
  <2> QED
    BY <1>1, <1>3 DEF Heard
<1>6. pins' \subseteq Ids /\ reacts' \subseteq Ids \X Users
  BY DEF RowsOK, RowTypes
<1>7. t.reacts = {v \in Users : <<i, v>> \in reacts'}
  BY <1>4
<1> HIDE DEF t, those
<1>8. t.pinned = (i \in pins')
  BY <1>4, RowFacts
<1>9. \A j \in Ids \ {i} : /\ j \in pins' <=> j \in pins
                           /\ \A v \in Users : <<j, v>> \in reacts' <=> <<j, v>> \in reacts
  OBVIOUS
<1> QED
  BY <1>2, <1>4, <1>5, <1>6, <1>7, <1>8, <1>9, MarkKeeps

LEMMA ReactionsKeep ==
    ASSUME RowsOK, NEW p \in Requests, req[p].id \in Ids, req[p].by \in Users,
           AddReaction(p) \/ RemoveReaction(p)
    PROVE  RowsOK'
<1>1. CASE UNCHANGED rows
  BY <1>1, RowsUnchanged
<1>2. CASE ~UNCHANGED rows
  BY <1>2, ReactionKeeps DEF AddReaction, RemoveReaction, rows
<1> QED
  BY <1>1, <1>2

LEMMA InsertKeeps ==
    ASSUME RowsOK, RequestsOK, NEW p \in Requests, Insert(p) PROVE RowsOK'
<1>1. CASE UNCHANGED rows
  BY <1>1, RowsUnchanged
<1>2. CASE /\ ~Conflicts(req[p].by, req[p].ch, req[p].cm)
           /\ Create(req[p].by, req[p].ch, req[p].cm)
  <2>1. pc[p] = "insert" /\ FreeIds # {} /\ UNCHANGED <<pins, reacts>>
    BY DEF Insert
  <2>2. req[p].by \in Users /\ req[p].ch \in Channels /\ req[p].cm \in ClientIds \cup {NoKey}
    BY <2>1 DEF RequestsOK, Ready, Request
  <2> QED
    BY <1>2, <2>1, <2>2, CreateKeeps
<1> QED
  BY <1>1, <1>2 DEF Insert, rows

LEMMA ForwardKeeps ==
    ASSUME RowsOK, NEW u \in Users, NEW i \in Ids, NEW c \in Channels, Forward(u, i, c)
    PROVE  RowsOK'
<1>1. msgs[i].cm \in ClientIds \cup {NoKey}
  BY RowFacts DEF Message
<1> QED
  BY <1>1, CreateKeeps DEF Forward

LEMMA BotKeeps ==
    ASSUME RowsOK, NEW p \in Requests, postBotMessage(p) PROVE RowsOK'
<1>1. CASE SendBotMessage
  <2>1. ~Conflicts(Bot, Group, NoKey)
    BY DEF Conflicts, Holders
  <2>2. FreeIds # {} /\ UNCHANGED <<pins, reacts>> /\ Create(Bot, Group, NoKey)
    BY <1>1 DEF postBotMessage, SendBotMessage
  <2> QED
    BY <2>1, <2>2, CreateKeeps DEF Channels
<1>2. CASE ~SendBotMessage
  BY <1>2, RowsUnchanged DEF postBotMessage, rows
<1> QED
  BY <1>1, <1>2

LEMMA RowStep == ASSUME RowsOK, RequestsOK, [Next]_vars PROVE RowsOK'
<1>1. ASSUME NEW p \in Requests,
             Send(p) \/ FindExisting(p) \/ Refind(p) \/ Answer(p) \/ Begin(p) \/ Abandon(p)
      PROVE  RowsOK'
  BY <1>1, RowsUnchanged DEF Send, FindExisting, Refind, Answer, Begin, Abandon
<1>2. ASSUME NEW p \in Requests,
             Update(p) \/ Delete(p) \/ Pin(p) \/ AddReaction(p) \/ RemoveReaction(p)
      PROVE  RowsOK'
  <2>1. pc[p] = "write"
    BY <1>2 DEF Update, Delete, Pin, AddReaction, RemoveReaction, Writes
  <2>2. req[p].id \in Ids /\ req[p].by \in Users
    BY <2>1 DEF RequestsOK, Ready
  <2> QED
    BY <1>2, <2>2, UpdateKeeps, DeleteKeeps, PinKeeps, ReactionsKeep
<1>3. ASSUME NEW p \in Requests, Orders(p) PROVE RowsOK'
  <2>1. CASE postBotMessage(p)
    BY <2>1, BotKeeps
  <2>2. CASE ~postBotMessage(p)
    BY <1>3, <2>2, RowsUnchanged
       DEF Orders, WalletBalance, CreateDepositQR, CreateOrderPaymentQR, ServicesExpiring,
           Question, RenewService
  <2> QED
    BY <2>1, <2>2
<1>4. ASSUME NEW u \in Users, NEW i \in Ids, Unpin(u, i) \/ \E c \in Channels : Forward(u, i, c)
      PROVE  RowsOK'
  BY <1>4, UnpinKeeps, ForwardKeeps
<1>5. ASSUME MemberMoves \/ InstallBot \/ ZoneChanges PROVE RowsOK'
  BY <1>5, RowsUnchanged DEF MemberMoves, InstallBot, ZoneChanges
<1>6. ASSUME UNCHANGED vars PROVE RowsOK'
  BY <1>6, RowsUnchanged DEF vars
<1> QED
  BY <1>1, <1>2, <1>3, <1>4, <1>5, <1>6, InsertKeeps DEF Next

-----------------------------------------------------------------------------
(* Charges and the rest.                                                   *)

LEMMA ChargeStep == ASSUME ChargesOK, RequestsOK, [Next]_vars PROVE ChargesOK'
<1>1. ASSUME UNCHANGED order PROVE ChargesOK'
  BY <1>1 DEF ChargesOK, order
<1>2. ASSUME NEW p \in Requests, pc[p] = "renew", Charge(p) PROVE ChargesOK'
  <2>1. req[p].id \in Ids
    BY <1>2 DEF RequestsOK, Ready
  <2>2. CASE req[p].id \in keys
    BY <1>1, <1>2, <2>2 DEF Charge, IdempotencyKey
  <2>3. CASE req[p].id \notin keys
    <3>1. charges[req[p].id] = 0
      BY <2>1, <2>3 DEF ChargesOK
    <3>2. /\ keys' = keys \cup {req[p].id}
          /\ charges' = [charges EXCEPT ![req[p].id] = 1]
      BY <1>2, <2>3, <3>1 DEF Charge, IdempotencyKey
    <3> QED
      BY <2>1, <3>2 DEF ChargesOK
  <2> QED
    BY <2>2, <2>3
<1>3. ASSUME NEW p \in Requests,
             \/ Send(p) \/ FindExisting(p) \/ Insert(p) \/ Refind(p) \/ Answer(p)
             \/ Begin(p) \/ Abandon(p)
      PROVE  UNCHANGED order
  BY <1>3 DEF Send, FindExisting, Insert, Refind, Answer, Begin, Abandon
<1>4. ASSUME NEW p \in Requests,
             Update(p) \/ Delete(p) \/ Pin(p) \/ AddReaction(p) \/ RemoveReaction(p)
      PROVE  UNCHANGED order
  BY <1>4 DEF Update, Delete, Pin, AddReaction, RemoveReaction
<1>5. ASSUME NEW p \in Requests, Orders(p) PROVE ChargesOK'
  <2>1. CASE RenewService(p)
    BY <1>1, <1>2, <2>1 DEF RenewService
  <2>2. CASE ~RenewService(p)
    BY <1>1, <1>5, <2>2
       DEF Orders, WalletBalance, CreateDepositQR, CreateOrderPaymentQR, ServicesExpiring,
           Question, postBotMessage
  <2> QED
    BY <2>1, <2>2
<1>6. ASSUME NEW u \in Users, NEW i \in Ids, Unpin(u, i) \/ \E c \in Channels : Forward(u, i, c)
      PROVE  UNCHANGED order
  BY <1>6 DEF Unpin, Forward
<1>7. ASSUME MemberMoves \/ InstallBot \/ ZoneChanges PROVE UNCHANGED order
  BY <1>7 DEF MemberMoves, InstallBot, ZoneChanges
<1>8. ASSUME UNCHANGED vars PROVE UNCHANGED order
  BY <1>8 DEF vars
<1> QED
  BY <1>1, <1>3, <1>4, <1>5, <1>6, <1>7, <1>8 DEF Next

LEMMA ConfStep == ASSUME ConfOK, RequestsOK, [Next]_vars PROVE ConfOK'
<1>1. ASSUME UNCHANGED conf PROVE ConfOK'
  BY <1>1 DEF ConfOK, conf
<1>2. ASSUME NEW p \in Requests, Insert(p) PROVE ConfOK'
  <2>1. Repaired(req[p].ch) \subseteq Users \X Channels
    BY DEF ConfOK, Repaired, Channels
  <2> QED
    BY <1>2, <2>1 DEF ConfOK, Insert
<1>3. ASSUME MemberMoves \/ InstallBot \/ ZoneChanges PROVE ConfOK'
  <2>1. moves' \in 0..MaxMoves
    <3>1. moves < MaxMoves /\ moves' = moves + 1
      BY <1>3 DEF MemberMoves, InstallBot, ZoneChanges
    <3> QED
      BY <3>1, BoundAssumption DEF ConfOK
  <2>2. member' \subseteq Users \X Channels
    BY <1>3 DEF ConfOK, MemberMoves, InstallBot, ZoneChanges
  <2>3. slug' \in Slugs /\ installed' \in BOOLEAN /\ open' \in BOOLEAN
    BY <1>3 DEF ConfOK, MemberMoves, InstallBot, ZoneChanges
  <2> QED
    BY <2>1, <2>2, <2>3 DEF ConfOK
<1>4. ASSUME NEW p \in Requests,
             \/ Send(p) \/ FindExisting(p) \/ Refind(p) \/ Answer(p) \/ Begin(p) \/ Abandon(p)
             \/ Update(p) \/ Delete(p) \/ Pin(p) \/ AddReaction(p) \/ RemoveReaction(p)
      PROVE  UNCHANGED conf
  BY <1>4 DEF Send, FindExisting, Refind, Answer, Begin, Abandon, Update, Delete, Pin,
              AddReaction, RemoveReaction
<1>5. ASSUME NEW p \in Requests, Orders(p) PROVE UNCHANGED conf
  BY <1>5 DEF Orders, WalletBalance, CreateDepositQR, CreateOrderPaymentQR, ServicesExpiring,
              Question, RenewService, postBotMessage
<1>6. ASSUME NEW u \in Users, NEW i \in Ids, Unpin(u, i) \/ \E c \in Channels : Forward(u, i, c)
      PROVE  UNCHANGED conf
  BY <1>6 DEF Unpin, Forward
<1>7. ASSUME UNCHANGED vars PROVE UNCHANGED conf
  BY <1>7 DEF vars
<1> QED
  BY <1>1, <1>2, <1>3, <1>4, <1>5, <1>6, <1>7 DEF Next

LEMMA InitInv == Init => Inv
<1> SUFFICES ASSUME Init PROVE Inv
  OBVIOUS
<1>1. NoMsg \in Message /\ Unheard \in Heard /\ 0 \in 0..MaxMoves /\ -1 \in -1..MaxVer
  BY BoundAssumption DEF NoMsg, Unheard, Message, Heard, States
<1>2. Ready("idle", Blank)
  BY BlankType DEF Ready, Steps
<1>3. \A i \in Ids : /\ msgs[i] = NoMsg /\ docs[i] = -1 /\ told[i] = Unheard /\ charges[i] = 0
  BY DEF Init
<1>4. \A p \in Requests : pc[p] = "idle" /\ req[p] = Blank
  BY DEF Init
<1>5. RowTypes
  BY <1>1 DEF Init, RowTypes
<1>6. FreshRows /\ Indexed /\ OneForAKey
  BY <1>3 DEF FreshRows, Indexed, OneForAKey, Holders, NoMsg
<1>7. EventsTellTheRows
  <2>1. \A i \in Ids : told[i].st = msgs[i].st /\ told[i].ver = msgs[i].ver
    BY <1>3 DEF NoMsg, Unheard
  <2>2. \A i \in Ids : told[i].pinned = FALSE /\ told[i].reacts = {}
    BY <1>3 DEF Unheard
  <2>3. \A i \in Ids : FALSE = (i \in pins) /\ {} = {u \in Users : <<i, u>> \in reacts}
    BY DEF Init
  <2> QED
    BY <2>1, <2>2, <2>3, Zenon DEF EventsTellTheRows
<1>8. RequestsOK
  BY <1>2, <1>4 DEF RequestsOK, Init, Ready
<1>9. ChargesOK
  BY <1>3 DEF ChargesOK, Init
<1>10. ConfOK
  BY <1>1 DEF ConfOK, Init
<1> QED
  BY <1>5, <1>6, <1>7, <1>8, <1>9, <1>10 DEF Inv, RowsOK

LEMMA InvStep == Inv /\ [Next]_vars => Inv'
  BY RowStep, RequestStep, ChargeStep, ConfStep DEF Inv, ConfOK

LEMMA Invariance == Spec => []Inv
  BY InitInv, InvStep, PTL DEF Spec

-----------------------------------------------------------------------------
(* Results about messages.                                                 *)

(* Every table, request and counter of the messages has its type.          *)
THEOREM TypeCorrect == Spec => []TypeOK
<1>1. Inv => TypeOK
  BY DEF Inv, RowsOK, RowTypes, RequestsOK, ChargesOK, ConfOK, TypeOK
<1> QED
  BY <1>1, Invariance, PTL

(* The search index holds the live messages with their present text and    *)
(* nothing else, however edits, deletions and new messages race.           *)
THEOREM SearchFollowsMessages == Spec => []SearchMatchesMessages
<1>1. Inv => SearchMatchesMessages
  BY DEF Inv, RowsOK, RowTypes, RequestsOK, ChargesOK, ConfOK, TypeOK, Indexed,
         SearchMatchesMessages
<1> QED
  BY <1>1, Invariance, PTL

(* Sends with one client id show one message, and a message is charged     *)
(* once, whatever is repeated or taken for a repetition.                   *)
THEOREM SendsStayIdempotent == Spec => []SendsAreIdempotent
<1>1. Inv => SendsAreIdempotent
  BY DEF Inv, RowsOK, OneForAKey, ChargesOK, SendsAreIdempotent
<1> QED
  BY <1>1, Invariance, PTL

(* A consumer that applies the events of a message in the order of their   *)
(* commits always knows what the tables say.                               *)
THEOREM EventsAlwaysTellTheRows == Spec => []EventsTellTheRows
<1>1. Inv => EventsTellTheRows
  BY DEF Inv, RowsOK
<1> QED
  BY <1>1, Invariance, PTL

-----------------------------------------------------------------------------
(* Sets of naturals: their least element, and the greatest of bounded ones. *)
LEMMA LeastOf ==
    ASSUME NEW S \in SUBSET Nat, S # {}
    PROVE  \E m \in S : \A n \in S : m <= n
<1>1. PICK m \in S : \A n \in S : ~ (<<n, m>> \in OpToRel(<, Nat))
  BY NatLessThanWellFounded, WFMin
<1>2. \A n \in S : ~ (n < m)
  BY <1>1 DEF OpToRel
<1> QED
  BY <1>2

LEMMA GreatestOf ==
    ASSUME NEW S \in SUBSET Nat, S # {}, NEW b \in Nat, \A n \in S : n <= b
    PROVE  Max(S) \in S /\ \A n \in S : n <= Max(S)
<1> DEFINE Bounds == {k \in Nat : \A n \in S : n <= k}
<1>1. PICK k \in Bounds : \A l \in Bounds : k <= l
  BY LeastOf
<1>2. k \in S
  <2> SUFFICES ASSUME k \notin S PROVE FALSE
    OBVIOUS
  <2>1. \A n \in S : n < k
    OBVIOUS
  <2>2. k > 0
    <3>1. PICK n \in S : TRUE
      OBVIOUS
    <3>2. n \in Nat /\ n < k
      BY <2>1
    <3> QED
      BY <3>2
  <2>3. \A n \in S : n <= k - 1
    BY <2>1
  <2>4. k - 1 \in Bounds
    BY <2>2, <2>3
  <2> QED
    BY <2>4, <1>1
<1>3. \E m \in S : \A n \in S : m >= n
  BY <1>2
<1> QED
  BY <1>3 DEF Max

-----------------------------------------------------------------------------
(***************************************************************************)
(* A bot: flows of which one is published, and messages posted as a whole. *)

BotPlaces == {"free", "create", "archive", "publish", "commit", "index", "announce", "commitMessage"}
Parts     == {"message", "document", "event"}

BotRequests ==
    [pc : BotPlaces, target : FlowIds \cup BotChannels \cup {NoFlow}, number : Nat,
     seen : SUBSET FlowIds, archived : SUBSET FlowIds, wrote : SUBSET Parts]

(* What a request has in hand.  One that comes to its commit publishes a   *)
(* flow that exists, and has archived whatever else is published.          *)
InHandOfBot(r) ==
    /\ r \in BotRequests /\ r.archived \subseteq Flows
    /\ r.pc = "create" => r.number \in 1..(Cardinality(Flows) + 1)
    /\ r.pc = "commit" => r.target \in Flows /\ Published \subseteq r.archived \cup {r.target}
    /\ r.pc = "index" => r.wrote = {"message"}
    /\ r.pc = "announce" => r.wrote = {"message", "document"}
    /\ r.pc = "commitMessage" => r.wrote = Parts

HandsOfBots ==
    /\ botRequest \in [BotHandlers -> BotRequests]
    /\ \A h \in BotHandlers : InHandOfBot(botRequest[h])

OneCommits == \A h, g \in BotHandlers : BotAt(h, "commit") /\ BotAt(g, "commit") => h = g

FlowRowsOK ==
    /\ flow \in [FlowIds -> FlowRows \cup {NoFlow}]
    /\ \A f \in Flows : flow[f].version <= Cardinality(Flows)
    /\ \A f, g \in Flows : flow[f].version = flow[g].version => f = g
    /\ \A f, g \in Published : f = g

PlacesOfBots ==
    /\ installations \subseteq BotChannels \cup {Everywhere} /\ openChannels \subseteq BotChannels
    /\ flowEdits \in 0..MaxFlowEdits /\ botFaults \in 0..MaxBotFaults

BotsInv == FlowRowsOK /\ HandsOfBots /\ OneCommits /\ PlacesOfBots /\ PostedWhole

LEMMA IdleBotType == InHandOfBot(IdleBot)
  BY DEF InHandOfBot, IdleBot, BotRequests, BotPlaces

(* A step writes the flows in one of three ways, or leaves them.           *)
LEMMA FlowWrites ==
    ASSUME [BotsNext]_botVars
    PROVE  \/ flow' = flow
           \/ UpdateFlow
           \/ \E h \in BotHandlers : CreateFlow(h) \/ PublishFlow(h)
  BY DEF BotsNext, FlowsNext, PostsNext, botVars, CreateStarts, PublishStarts,
         ArchivePublished, PublishRow, BotStatementFails, Install, ChannelArchived, PostMessage,
         UpsertSearchDocument, InsertBotEvent, CommitMessage

LEMMA FlowsAreFinite ==
    /\ IsFiniteSet(Flows) /\ Cardinality(Flows) \in Nat
    /\ Cardinality(Flows) <= Cardinality(FlowIds) /\ Cardinality(FlowIds) \in Nat
    /\ Published \subseteq Flows /\ Flows \subseteq FlowIds
<1>1. Published \subseteq Flows /\ Flows \subseteq FlowIds
  BY DEF Flows, Published
<1> QED
  BY <1>1, FlowAssumption, FS_Subset, FS_CardinalityType

LEMMA FlowsAreFiniteNext ==
    /\ IsFiniteSet(Flows') /\ Cardinality(Flows') \in Nat
    /\ Cardinality(Flows') <= Cardinality(FlowIds)
    /\ Published' \subseteq Flows' /\ Flows' \subseteq FlowIds
<1>1. Published' \subseteq Flows' /\ Flows' \subseteq FlowIds
  BY DEF Flows, Published
<1> QED
  BY <1>1, FlowAssumption, FS_Subset, FS_CardinalityType

LEMMA CreateFlowKeeps ==
    ASSUME FlowRowsOK, HandsOfBots, NEW h \in BotHandlers, CreateFlow(h)
    PROVE  FlowRowsOK' /\ Flows \subseteq Flows' /\ Published' = Published
<1> DEFINE n == botRequest[h].number
<1>1. CASE flow' = flow
  BY <1>1 DEF FlowRowsOK, Flows, Published
<1>2. CASE VersionUnused(n) /\ \E f \in FlowIds \ Flows :
               flow' = [flow EXCEPT ![f] = [version |-> n, status |-> "draft", text |-> 0]]
  <2>1. PICK f \in FlowIds \ Flows :
            flow' = [flow EXCEPT ![f] = [version |-> n, status |-> "draft", text |-> 0]]
    BY <1>2
  <2>2. n \in 1..(Cardinality(Flows) + 1)
    BY DEF CreateFlow, HandsOfBots, InHandOfBot, BotAt
  <2>4. /\ flow[f] = NoFlow /\ \A g \in FlowIds \ {f} : flow'[g] = flow[g]
        /\ flow'[f] = [version |-> n, status |-> "draft", text |-> 0]
    BY <2>1 DEF FlowRowsOK, Flows
  <2>5. Cardinality(Flows) + 1 <= Cardinality(FlowIds)
    <3>1. IsFiniteSet(Flows \cup {f}) /\ Cardinality(Flows \cup {f}) = Cardinality(Flows) + 1
      BY FlowsAreFinite, FS_AddElement
    <3>2. Flows \cup {f} \in SUBSET FlowIds
      BY FlowsAreFinite
    <3> QED
      BY <3>1, <3>2, FlowAssumption, FS_Subset
  <2>6. flow'[f] \in FlowRows
    BY <2>2, <2>4, <2>5, FlowsAreFinite, FlowAssumption DEF FlowRows
  <2>7. Flows' = Flows \cup {f}
    BY <2>4, <2>6, FlowAssumption DEF Flows
  <2>8. Cardinality(Flows') = Cardinality(Flows) + 1
    BY <2>7, FlowsAreFinite, FS_AddElement
  <2>9. Published' = Published
    BY <2>4, <2>7 DEF Published, Flows
  <2>10. flow' \in [FlowIds -> FlowRows \cup {NoFlow}]
    BY <2>1, <2>6, <2>4 DEF FlowRowsOK
  <2>11. \A g \in Flows' : flow'[g].version <= Cardinality(Flows')
    <3> SUFFICES ASSUME NEW g \in Flows' PROVE flow'[g].version <= Cardinality(Flows')
      OBVIOUS
    <3>1. CASE g = f
      BY <3>1, <2>4, <2>2, <2>8, FlowsAreFinite
    <3>2. CASE g # f
      <4>1. g \in Flows /\ flow'[g] = flow[g] /\ flow[g] \in FlowRows
        BY <3>2, <2>4, <2>7 DEF Flows, FlowRowsOK
      <4>2. flow[g].version \in Nat /\ flow[g].version <= Cardinality(Flows)
        BY <4>1, FlowsAreFinite DEF FlowRowsOK, FlowRows
      <4> QED
        BY <4>1, <4>2, <2>8, FlowsAreFinite
    <3> QED
      BY <3>1, <3>2
  <2>12. \A g, k \in Flows' : flow'[g].version = flow'[k].version => g = k
    <3>1. \A g \in Flows : flow'[g] = flow[g] /\ flow[g].version # n
      BY <1>2, <2>4 DEF VersionUnused, Flows
    <3> QED
      BY <3>1, <2>4, <2>7 DEF FlowRowsOK
  <2> QED
    BY <2>7, <2>9, <2>10, <2>11, <2>12 DEF FlowRowsOK
<1> QED
  BY <1>1, <1>2 DEF CreateFlow

LEMMA UpdateFlowKeeps ==
    ASSUME FlowRowsOK, flowEdits \in 0..MaxFlowEdits, UpdateFlow
    PROVE  /\ FlowRowsOK' /\ Flows' = Flows /\ Published' = Published
           /\ \A f \in Flows : flow[f].status # "draft" => flow'[f] = flow[f]
<1>1. PICK f \in FlowIds : Editable(f) /\ flow' = [flow EXCEPT ![f].text = flowEdits + 1]
  BY DEF UpdateFlow
<1>2. flowEdits + 1 \in 0..MaxFlowEdits
  BY FlowAssumption DEF UpdateFlow
<1>3. f \in Flows /\ flow[f] \in FlowRows /\ flow[f].status = "draft"
  BY <1>1 DEF Editable, Flows, FlowRowsOK
<1>4. /\ \A g \in FlowIds \ {f} : flow'[g] = flow[g]
      /\ flow'[f] = [flow[f] EXCEPT !.text = flowEdits + 1]
  BY <1>1 DEF FlowRowsOK
<1>5. /\ flow'[f] \in FlowRows /\ flow'[f].status = "draft"
      /\ flow'[f].version = flow[f].version
  BY <1>2, <1>3, <1>4 DEF FlowRows
<1>6. Flows' = Flows
  BY <1>3, <1>4, <1>5, FlowAssumption DEF Flows
<1>7. Published' = Published
  BY <1>3, <1>4, <1>5, <1>6 DEF Published, Flows
<1>8. flow' \in [FlowIds -> FlowRows \cup {NoFlow}]
  BY <1>1, <1>4, <1>5 DEF FlowRowsOK
<1>9. \A g \in Flows : flow'[g].version = flow[g].version
  BY <1>4, <1>5 DEF Flows
<1>10. \A g \in Flows : flow[g].status # "draft" => flow'[g] = flow[g]
  BY <1>3, <1>4 DEF Flows
<1> QED
  BY <1>6, <1>7, <1>8, <1>9, <1>10 DEF FlowRowsOK

LEMMA PublishKeeps ==
    ASSUME FlowRowsOK, HandsOfBots, NEW h \in BotHandlers, PublishFlow(h)
    PROVE  /\ FlowRowsOK' /\ Flows' = Flows /\ Published' = {botRequest[h].target}
           /\ \A f \in Flows : flow[f].status # "draft" =>
                 flow'[f].status # "draft" /\ flow'[f].text = flow[f].text
<1> DEFINE r == botRequest[h]
<1>1. /\ r.target \in Flows /\ Published \subseteq r.archived \cup {r.target}
      /\ r.archived \subseteq Flows
  BY DEF PublishFlow, HandsOfBots, InHandOfBot, BotAt
<1>2. flow' = [f \in FlowIds |->
          IF f = r.target /\ f \in Flows THEN [flow[f] EXCEPT !.status = "published"]
          ELSE IF f \in r.archived THEN [flow[f] EXCEPT !.status = "archived"] ELSE flow[f]]
  BY DEF PublishFlow
<1>3. \A f \in Flows : /\ flow[f] \in FlowRows /\ flow'[f] \in FlowRows
                       /\ flow'[f].version = flow[f].version /\ flow'[f].text = flow[f].text
                       /\ flow'[f].status = IF f = r.target THEN "published"
                                            ELSE IF f \in r.archived THEN "archived"
                                            ELSE flow[f].status
  <2> SUFFICES ASSUME NEW f \in Flows
               PROVE  /\ flow[f] \in FlowRows /\ flow'[f] \in FlowRows
                      /\ flow'[f].version = flow[f].version /\ flow'[f].text = flow[f].text
                      /\ flow'[f].status = IF f = r.target THEN "published"
                                           ELSE IF f \in r.archived THEN "archived"
                                           ELSE flow[f].status
    OBVIOUS
  <2>1. f \in FlowIds /\ flow[f] \in FlowRows
    BY DEF Flows, FlowRowsOK
  <2>2. flow'[f] = IF f = r.target THEN [flow[f] EXCEPT !.status = "published"]
                   ELSE IF f \in r.archived THEN [flow[f] EXCEPT !.status = "archived"] ELSE flow[f]
    BY <2>1, <1>2
  <2> QED
    BY <2>1, <2>2 DEF FlowRows
<1>4. \A f \in FlowIds \ Flows : flow'[f] = NoFlow
  BY <1>1, <1>2 DEF Flows
<1>5. Flows' = Flows
  BY <1>3, <1>4, FlowAssumption, FlowsAreFinite, FlowsAreFiniteNext DEF Flows
<1>6. Published' = {r.target}
  BY <1>1, <1>3, <1>5 DEF Published
<1>7. flow' \in [FlowIds -> FlowRows \cup {NoFlow}]
  <2>1. \A f \in FlowIds : flow'[f] \in FlowRows \cup {NoFlow}
    BY <1>3, <1>4
  <2> QED
    BY <2>1, <1>2
<1>8. FlowRowsOK'
  BY <1>3, <1>5, <1>6, <1>7 DEF FlowRowsOK
<1> QED
  BY <1>3, <1>5, <1>6, <1>8

LEMMA FlowsGrow ==
    ASSUME BotsInv, [BotsNext]_botVars
    PROVE  FlowRowsOK' /\ Flows \subseteq Flows' /\ Cardinality(Flows) <= Cardinality(Flows')
<1>1. FlowRowsOK' /\ Flows \subseteq Flows'
  <2>1. CASE flow' = flow
    BY <2>1 DEF BotsInv, FlowRowsOK, Flows, Published
  <2>2. CASE UpdateFlow
    BY <2>2, UpdateFlowKeeps DEF BotsInv, PlacesOfBots
  <2>3. ASSUME NEW h \in BotHandlers, CreateFlow(h) PROVE FlowRowsOK' /\ Flows \subseteq Flows'
    BY <2>3, CreateFlowKeeps DEF BotsInv
  <2>4. ASSUME NEW h \in BotHandlers, PublishFlow(h) PROVE FlowRowsOK' /\ Flows \subseteq Flows'
    BY <2>4, PublishKeeps DEF BotsInv
  <2> QED
    BY <2>1, <2>2, <2>3, <2>4, FlowWrites
<1> QED
  BY <1>1, FlowsAreFiniteNext, FS_Subset

(* What is published changes at a commit only, and two are never there.    *)
LEMMA IdleHandsKeep ==
    ASSUME BotsInv, [BotsNext]_botVars, NEW h \in BotHandlers, botRequest'[h] = botRequest[h]
    PROVE  InHandOfBot(botRequest[h])'
<1> DEFINE r == botRequest[h]
<1>1. InHandOfBot(r)
  BY DEF BotsInv, HandsOfBots
<1>2. Flows \subseteq Flows' /\ Cardinality(Flows) <= Cardinality(Flows')
  BY FlowsGrow
<1>3. ASSUME r.pc = "commit" PROVE Published' = Published
  <2>1. CASE flow' = flow
    BY <2>1 DEF Published, Flows
  <2>2. CASE UpdateFlow
    BY <2>2, UpdateFlowKeeps DEF BotsInv, PlacesOfBots
  <2>3. ASSUME NEW g \in BotHandlers, CreateFlow(g) PROVE Published' = Published
    BY <2>3, CreateFlowKeeps DEF BotsInv
  <2>4. ASSUME NEW g \in BotHandlers, PublishFlow(g) PROVE FALSE
    <3>1. g = h
      BY <1>3, <2>4 DEF PublishFlow, BotsInv, OneCommits, BotAt
    <3>2. botRequest'[h].pc = "free"
      BY <3>1, <2>4 DEF PublishFlow, BotAnswers, IdleBot, BotsInv, HandsOfBots
    <3> QED
      BY <1>3, <3>2
  <2> QED
    BY <2>1, <2>2, <2>3, <2>4, FlowWrites
<1>4. r.archived \subseteq Flows' /\ (r.pc = "commit" => r.target \in Flows')
  BY <1>1, <1>2 DEF InHandOfBot
<1>5. r.pc = "create" => r.number \in 1..(Cardinality(Flows') + 1)
  BY <1>1, <1>2, FlowsAreFinite, FlowsAreFiniteNext DEF InHandOfBot
<1> QED
  BY <1>1, <1>3, <1>4, <1>5 DEF InHandOfBot

LEMMA NextVersion ==
    ASSUME FlowRowsOK
    PROVE  Max({0} \cup {flow[f].version : f \in Flows}) \in 0..Cardinality(Flows)
<1> DEFINE S == {0} \cup {flow[f].version : f \in Flows}
<1>1. \A f \in Flows : flow[f].version \in Nat /\ flow[f].version <= Cardinality(Flows)
  BY FlowsAreFinite DEF FlowRowsOK, Flows, FlowRows
<1>2. S \in SUBSET Nat /\ S # {} /\ \A n \in S : n <= Cardinality(Flows)
  BY <1>1, FlowsAreFinite
<1>3. Max(S) \in S
  BY <1>2, FlowsAreFinite, GreatestOf
<1> QED
  BY <1>2, <1>3

(* The request that moves is ready for its next step.                      *)
LEMMA MovingHandKeeps ==
    ASSUME BotsInv, NEW h \in BotHandlers,
           \/ CreateStarts(h) \/ CreateFlow(h) \/ PublishStarts(h) \/ ArchivePublished(h)
           \/ PublishRow(h) \/ PublishFlow(h) \/ BotStatementFails(h)
           \/ PostMessage(h) \/ UpsertSearchDocument(h) \/ InsertBotEvent(h) \/ CommitMessage(h)
    PROVE  /\ \A g \in BotHandlers \ {h} : botRequest'[g] = botRequest[g]
           /\ DOMAIN botRequest' = BotHandlers
           /\ InHandOfBot(botRequest[h])'
<1> DEFINE r == botRequest[h]
<1>0. InHandOfBot(r) /\ r \in BotRequests /\ botRequest \in [BotHandlers -> BotRequests] /\ FlowRowsOK
  BY DEF BotsInv, HandsOfBots
<1>a. ASSUME NEW x, botRequest' = [botRequest EXCEPT ![h] = x]
      PROVE  /\ \A g \in BotHandlers \ {h} : botRequest'[g] = botRequest[g]
             /\ DOMAIN botRequest' = BotHandlers
             /\ botRequest'[h] = x
  BY <1>0, <1>a
<1>b. ASSUME BotAnswers(h)
      PROVE  /\ \A g \in BotHandlers \ {h} : botRequest'[g] = botRequest[g]
             /\ DOMAIN botRequest' = BotHandlers
             /\ InHandOfBot(botRequest[h])'
  BY <1>b, <1>a DEF BotAnswers, InHandOfBot, IdleBot, BotRequests, BotPlaces
<1>c. ASSUME NEW x, botRequest' = [botRequest EXCEPT ![h] = x], InHandOfBot(x), flow' = flow
      PROVE  /\ \A g \in BotHandlers \ {h} : botRequest'[g] = botRequest[g]
             /\ DOMAIN botRequest' = BotHandlers
             /\ InHandOfBot(botRequest[h])'
  BY <1>c, <1>a DEF InHandOfBot, Flows, Published
<1>1. CASE CreateStarts(h)
  <2>1. ASSUME NEW m \in 0..Cardinality(Flows)
        PROVE  InHandOfBot([IdleBot EXCEPT !.pc = "create", !.number = m + 1])
    <3> DEFINE x == [IdleBot EXCEPT !.pc = "create", !.number = m + 1]
    <3>1. x.archived = {} /\ x.pc = "create" /\ x.number = m + 1
      BY DEF IdleBot
    <3>2. m + 1 \in 1..(Cardinality(Flows) + 1) /\ m + 1 \in Nat
      BY FlowsAreFinite
    <3>3. x \in BotRequests
      BY <3>2 DEF IdleBot, BotRequests, BotPlaces
    <3> HIDE DEF x
    <3>5. InHandOfBot(x)
      BY <3>1, <3>2, <3>3 DEF InHandOfBot
    <3> QED
      BY <3>5 DEF x
  <2> QED
    BY <1>0, <1>1, <2>1, <1>c, NextVersion DEF CreateStarts
<1>2. CASE PublishStarts(h)
  <2>1. PICK f \in FlowIds : botRequest' = [botRequest EXCEPT ![h] =
              [IdleBot EXCEPT !.pc = "archive", !.target = f, !.seen = Published]]
    BY <1>2 DEF PublishStarts
  <2>2. InHandOfBot([IdleBot EXCEPT !.pc = "archive", !.target = f, !.seen = Published])
    BY FlowsAreFinite DEF InHandOfBot, IdleBot, BotRequests, BotPlaces
  <2> QED
    BY <1>2, <2>1, <2>2, <1>c DEF PublishStarts
<1>3. CASE ArchivePublished(h)
  <2> DEFINE x == [r EXCEPT !.pc = "publish", !.seen = {}, !.archived = r.seen \cap Published]
  <2>1. InHandOfBot(x)
    BY <1>0, FlowsAreFinite DEF InHandOfBot, BotRequests, BotPlaces
  <2>2. botRequest' = [botRequest EXCEPT ![h] = x] /\ flow' = flow
    BY <1>3, <1>0 DEF ArchivePublished
  <2> QED
    BY <2>1, <2>2, <1>c
<1>4. CASE PublishRow(h)
  <2> DEFINE x == [r EXCEPT !.pc = "commit"]
  <2>1. CASE KnownFlow(r.target) /\ ~SecondPublished(h)
    <3>1. InHandOfBot(x)
      BY <1>0, <2>1 DEF InHandOfBot, BotRequests, BotPlaces, KnownFlow, SecondPublished
    <3>2. botRequest' = [botRequest EXCEPT ![h] = x] /\ flow' = flow
      BY <1>4, <1>0, <2>1 DEF PublishRow, BotGoes
    <3> QED
      BY <3>1, <3>2, <1>c
  <2>2. CASE ~(KnownFlow(r.target) /\ ~SecondPublished(h))
    BY <1>4, <2>2, <1>b DEF PublishRow
  <2> QED
    BY <2>1, <2>2
<1>5. CASE PostMessage(h)
  <2>1. PICK c \in BotChannels : botRequest' = [botRequest EXCEPT ![h] =
              [IdleBot EXCEPT !.pc = "index", !.target = c, !.wrote = {"message"}]]
    BY <1>5 DEF PostMessage
  <2>2. InHandOfBot([IdleBot EXCEPT !.pc = "index", !.target = c, !.wrote = {"message"}])
    BY DEF InHandOfBot, IdleBot, BotRequests, BotPlaces, Parts
  <2> QED
    BY <1>5, <2>1, <2>2, <1>c DEF PostMessage
<1>6. CASE UpsertSearchDocument(h)
  <2> DEFINE x == [r EXCEPT !.pc = "announce", !.wrote = r.wrote \cup {"document"}]
  <2>1. InHandOfBot(x)
    BY <1>0, <1>6 DEF InHandOfBot, BotRequests, BotPlaces, Parts, UpsertSearchDocument, BotAt
  <2>2. botRequest' = [botRequest EXCEPT ![h] = x] /\ flow' = flow
    BY <1>6, <1>0 DEF UpsertSearchDocument
  <2> QED
    BY <2>1, <2>2, <1>c
<1>7. CASE InsertBotEvent(h)
  <2> DEFINE x == [r EXCEPT !.pc = "commitMessage", !.wrote = r.wrote \cup {"event"}]
  <2>1. InHandOfBot(x)
    BY <1>0, <1>7 DEF InHandOfBot, BotRequests, BotPlaces, Parts, InsertBotEvent, BotAt
  <2>2. botRequest' = [botRequest EXCEPT ![h] = x] /\ flow' = flow
    BY <1>7, <1>0 DEF InsertBotEvent
  <2> QED
    BY <2>1, <2>2, <1>c
<1>8. CASE CreateFlow(h) \/ PublishFlow(h) \/ BotStatementFails(h) \/ CommitMessage(h)
  BY <1>8, <1>b DEF CreateFlow, PublishFlow, BotStatementFails, GivesUp, CommitMessage
<1> QED
  BY <1>1, <1>2, <1>3, <1>4, <1>5, <1>6, <1>7, <1>8

LEMMA HandsStep ==
    ASSUME BotsInv, [BotsNext]_botVars
    PROVE  HandsOfBots'
<1>1. CASE botRequest' = botRequest
  BY <1>1, IdleHandsKeep DEF BotsInv, HandsOfBots
<1>2. ASSUME NEW h \in BotHandlers,
             \/ CreateStarts(h) \/ CreateFlow(h) \/ PublishStarts(h) \/ ArchivePublished(h)
             \/ PublishRow(h) \/ PublishFlow(h) \/ BotStatementFails(h)
             \/ PostMessage(h) \/ UpsertSearchDocument(h) \/ InsertBotEvent(h) \/ CommitMessage(h)
      PROVE  HandsOfBots'
  <2>1. /\ \A g \in BotHandlers \ {h} : botRequest'[g] = botRequest[g]
        /\ DOMAIN botRequest' = BotHandlers
        /\ InHandOfBot(botRequest[h])'
    BY <1>2, MovingHandKeeps
  <2>2. \A g \in BotHandlers : InHandOfBot(botRequest[g])'
    BY <2>1, IdleHandsKeep
  <2>3. \A g \in BotHandlers : botRequest'[g] \in BotRequests
    BY <2>2 DEF InHandOfBot
  <2>4. botRequest' = [g \in BotHandlers |-> botRequest'[g]]
    <3>1. \E x : botRequest' = [botRequest EXCEPT ![h] = x]
      BY <1>2 DEF CreateStarts, CreateFlow, PublishStarts, ArchivePublished, PublishRow,
             PublishFlow, BotStatementFails, GivesUp, PostMessage, UpsertSearchDocument,
             InsertBotEvent, CommitMessage, BotGoes, BotAnswers
    <3> QED
      BY <2>1, <3>1
  <2> QED
    BY <2>2, <2>3, <2>4 DEF HandsOfBots
<1> QED
  BY <1>1, <1>2 DEF BotsNext, FlowsNext, PostsNext, botVars, UpdateFlow, Install, ChannelArchived

LEMMA OneCommitsStep ==
    ASSUME BotsInv, [BotsNext]_botVars
    PROVE  OneCommits'
<1>1. \A h \in BotHandlers : BotAt(h, "commit")' =>
          BotAt(h, "commit") \/ (PublishRow(h) /\ \A g \in BotHandlers \ {h} : ~ BotAt(g, "commit"))
  <2> SUFFICES ASSUME NEW h \in BotHandlers, BotAt(h, "commit")', ~ BotAt(h, "commit")
               PROVE  PublishRow(h) /\ \A g \in BotHandlers \ {h} : ~ BotAt(g, "commit")
    OBVIOUS
  <2>0. botRequest \in [BotHandlers -> BotRequests]
    BY DEF BotsInv, HandsOfBots
  <2>a. ASSUME NEW g \in BotHandlers,
               \/ CreateStarts(g) \/ CreateFlow(g) \/ PublishStarts(g) \/ ArchivePublished(g)
               \/ PublishFlow(g) \/ BotStatementFails(g)
               \/ PostMessage(g) \/ UpsertSearchDocument(g) \/ InsertBotEvent(g) \/ CommitMessage(g)
        PROVE  g = h
    BY <2>a, MovingHandKeeps DEF BotAt
  <2>b. ASSUME NEW g \in BotHandlers, g = h, BotAnswers(g) PROVE FALSE
    BY <2>0, <2>b DEF BotAnswers, IdleBot, BotAt
  <2>1. ASSUME NEW g \in BotHandlers,
               \/ CreateStarts(g) \/ CreateFlow(g) \/ PublishStarts(g) \/ ArchivePublished(g)
               \/ PublishFlow(g) \/ BotStatementFails(g)
               \/ PostMessage(g) \/ UpsertSearchDocument(g) \/ InsertBotEvent(g) \/ CommitMessage(g)
        PROVE  FALSE
    <3>0. g = h
      BY <2>1, <2>a
    <3>1. CASE CreateFlow(g) \/ PublishFlow(g) \/ BotStatementFails(g) \/ CommitMessage(g)
      BY <3>0, <3>1, <2>b DEF CreateFlow, PublishFlow, BotStatementFails, GivesUp, CommitMessage
    <3>2. CASE CreateStarts(g)
      BY <3>0, <3>2, <2>0 DEF CreateStarts, IdleBot, BotAt
    <3>5. CASE PublishStarts(g)
      BY <3>0, <3>5, <2>0 DEF PublishStarts, IdleBot, BotAt
    <3>6. CASE PostMessage(g)
      BY <3>0, <3>6, <2>0 DEF PostMessage, IdleBot, BotAt
    <3>3. CASE ArchivePublished(g)
      BY <3>0, <3>3, <2>0 DEF ArchivePublished, BotAt, BotRequests
    <3>4. CASE UpsertSearchDocument(g) \/ InsertBotEvent(g)
      BY <3>0, <3>4, <2>0 DEF UpsertSearchDocument, InsertBotEvent, BotAt, BotRequests
    <3> QED
      BY <2>1, <3>1, <3>2, <3>3, <3>4, <3>5, <3>6
  <2>2. ASSUME NEW g \in BotHandlers, PublishRow(g) PROVE g = h
    BY <2>0, <2>2 DEF PublishRow, BotGoes, BotAnswers, BotAt, IdleBot
  <2>3. PublishRow(h)
    BY <2>1, <2>2 DEF BotsNext, FlowsNext, PostsNext, botVars, UpdateFlow, Install,
           ChannelArchived, BotAt
  <2>4. KnownFlow(botRequest[h].target) /\ ~ MustWait(h)
    BY <2>0, <2>3 DEF PublishRow, BotAnswers, BotAt, IdleBot
  <2>5. \A g \in BotHandlers \ {h} : Publishes(g) = {}
    BY <2>4 DEF MustWait, KnownFlow
  <2> QED
    BY <2>3, <2>5 DEF Publishes
<1>2. ASSUME NEW h \in BotHandlers, NEW g \in BotHandlers,
             BotAt(h, "commit")', BotAt(g, "commit")', h # g
      PROVE  FALSE
  <2>0. botRequest \in [BotHandlers -> BotRequests]
    BY DEF BotsInv, HandsOfBots
  <2>1. ASSUME PublishRow(h), PublishRow(g) PROVE FALSE
    BY <2>0, <2>1, <1>2 DEF PublishRow, BotGoes, BotAnswers, BotAt, IdleBot
  <2>2. ~(BotAt(h, "commit") /\ BotAt(g, "commit"))
    BY <1>2 DEF BotsInv, OneCommits
  <2> QED
    BY <1>1, <1>2, <2>1, <2>2
<1> QED
  BY <1>2 DEF OneCommits

LEMMA PostsStep ==
    ASSUME BotsInv, [BotsNext]_botVars
    PROVE  PostedWhole' /\ PlacesOfBots'
<1>1. PostedWhole'
  <2>1. CASE posted' = posted
    BY <2>1 DEF BotsInv, PostedWhole
  <2>2. ASSUME NEW h \in BotHandlers, CommitMessage(h) PROVE PostedWhole'
    <3>1. botRequest[h].wrote = Parts
      BY <2>2 DEF CommitMessage, BotsInv, HandsOfBots, InHandOfBot, BotAt
    <3> QED
      BY <2>2, <3>1 DEF CommitMessage, BotsInv, PostedWhole, Parts
  <2> QED
    BY <2>1, <2>2 DEF BotsNext, FlowsNext, PostsNext, botVars, CreateStarts, PublishStarts,
         ArchivePublished, PublishRow, BotStatementFails, Install, ChannelArchived, PostMessage,
         UpsertSearchDocument, InsertBotEvent, CreateFlow, PublishFlow, UpdateFlow
<1>2. flowEdits' \in 0..MaxFlowEdits /\ botFaults' \in 0..MaxBotFaults
  <2>1. /\ flowEdits' = flowEdits \/ (flowEdits < MaxFlowEdits /\ flowEdits' = flowEdits + 1)
        /\ botFaults' = botFaults \/ BotFault
    BY DEF BotsNext, FlowsNext, PostsNext, botVars,
         CreateStarts, PublishStarts, ArchivePublished, PublishRow, BotStatementFails, Install,
         ChannelArchived, PostMessage, UpsertSearchDocument, InsertBotEvent, CreateFlow,
         PublishFlow, UpdateFlow, CommitMessage
  <2> QED
    BY <2>1, FlowAssumption DEF BotsInv, PlacesOfBots, BotFault
<1>3. /\ installations' \subseteq BotChannels \cup {Everywhere}
      /\ openChannels' \subseteq BotChannels
  BY DEF BotsInv, PlacesOfBots, BotsNext, FlowsNext, PostsNext, botVars,
         CreateStarts, PublishStarts, ArchivePublished, PublishRow, BotStatementFails, Install,
         ChannelArchived, PostMessage, UpsertSearchDocument, InsertBotEvent, CreateFlow,
         PublishFlow, UpdateFlow, CommitMessage
<1> QED
  BY <1>1, <1>2, <1>3 DEF PlacesOfBots

LEMMA BotsInvStarts == BotsInit => BotsInv
<1> SUFFICES ASSUME BotsInit PROVE BotsInv
  OBVIOUS
<1>1. Flows = {} /\ Published = {}
  BY DEF BotsInit, Flows, Published
<1>2. FlowRowsOK
  BY <1>1 DEF BotsInit, FlowRowsOK
<1>3. HandsOfBots
  BY IdleBotType DEF BotsInit, HandsOfBots, InHandOfBot
<1>4. OneCommits /\ PlacesOfBots /\ PostedWhole
  BY FlowAssumption DEF BotsInit, OneCommits, PlacesOfBots, PostedWhole, BotAt, IdleBot
<1> QED
  BY <1>2, <1>3, <1>4 DEF BotsInv

LEMMA BotsInvAlways == BotsSpec => []BotsInv
<1>1. BotsInv /\ [BotsNext]_botVars => BotsInv'
  BY FlowsGrow, HandsStep, OneCommitsStep, PostsStep DEF BotsInv
<1> QED
  BY <1>1, BotsInvStarts, PTL DEF BotsSpec

LEMMA BotsInvSuffices == BotsInv => BotsAreWhole
<1> SUFFICES ASSUME BotsInv PROVE BotsAreWhole
  OBVIOUS
<1>1. BotsTypeOK
  BY DEF BotsInv, FlowRowsOK, HandsOfBots, BotRequests, PlacesOfBots, BotsTypeOK
<1>2. Cardinality(Published) <= 1
  <2>1. CASE Published = {}
    BY <2>1, FS_EmptySet
  <2>2. CASE Published # {}
    <3>1. PICK f : Published = {f}
      BY <2>2 DEF BotsInv, FlowRowsOK
    <3> QED
      BY <3>1, FS_Singleton
  <2> QED
    BY <2>1, <2>2
<1> QED
  BY <1>1, <1>2 DEF BotsInv, FlowRowsOK, OnePublished, BotsAreWhole

(* However requests that publish, create, edit or post overlap or fail, a  *)
(* bot has one published flow at most, versions that differ, and messages  *)
(* that came with their search document and their event.                   *)
THEOREM BotsAreWholeAlways == BotsSpec => []BotsAreWhole
  BY BotsInvAlways, BotsInvSuffices, PTL

(* No step of any request takes the last published flow away or touches    *)
(* the text of a flow that has been published.                             *)
THEOREM FlowsArePreservedAlways == BotsSpec => FlowsArePreserved
<1> DEFINE Kept == /\ Published # {} => Published' # {}
                   /\ \A f \in Flows : flow[f].status # "draft" =>
                         flow'[f].status # "draft" /\ flow'[f].text = flow[f].text
<1>1. BotsInv /\ [BotsNext]_botVars => [Kept]_botVars
  <2> SUFFICES ASSUME BotsInv, [BotsNext]_botVars PROVE Kept
    OBVIOUS
  <2>1. CASE flow' = flow
    BY <2>1 DEF Published, Flows
  <2>2. CASE UpdateFlow
    BY <2>2, UpdateFlowKeeps DEF BotsInv, PlacesOfBots
  <2>3. ASSUME NEW h \in BotHandlers, CreateFlow(h) PROVE Kept
    <3>1. Published' = Published
      BY <2>3, CreateFlowKeeps DEF BotsInv
    <3>2. \A f \in Flows : flow'[f] = flow[f]
      BY <2>3 DEF CreateFlow, BotsInv, FlowRowsOK, Flows
    <3> QED
      BY <3>1, <3>2
  <2>4. ASSUME NEW h \in BotHandlers, PublishFlow(h) PROVE Kept
    BY <2>4, PublishKeeps DEF BotsInv
  <2> QED
    BY <2>1, <2>2, <2>3, <2>4, FlowWrites
<1> QED
  BY <1>1, BotsInvAlways, PTL DEF BotsSpec, FlowsArePreserved

-----------------------------------------------------------------------------
(***************************************************************************)
(* Files: rows and objects of uploads that overlap and fail.               *)

FilePlaces == {"free", "put", "create", "number", "insert", "inserted", "attach", "undo",
               "find", "get", "missing"}
FileRequests ==
    [pc : FilePlaces, file : FileIds \cup {NoFile}, key : Keys \cup {NoFile}, number : Nat,
     attach : BOOLEAN]

VersionsOf(f) == IF Known(f) THEN fileRow[f].versions ELSE {}
Wrote(f, k)   == \E v \in VersionsOf(f) : v.key = k
HasNumber(f, n) == \E v \in VersionsOf(f) : v.number = n
Unwritten(k)  == \A f \in FileIds : ~ Wrote(f, k)

(* The versions of a file are numbered from 1 without a gap, and the last  *)
(* is the one that is shown.                                               *)
FileRowOK(f) ==
    Known(f) =>
        /\ fileRow[f] \in FileRows
        /\ \A v, w \in fileRow[f].versions : v.number = w.number => v = w
        /\ \A v \in fileRow[f].versions : \A n \in 1..v.number : HasNumber(f, n)
        /\ \E v \in fileRow[f].versions :
              v.key = fileRow[f].object /\ \A w \in fileRow[f].versions : w.number <= v.number

FileRowsOK ==
    /\ fileRow \in [FileIds -> FileRows \cup {NoFile}]
    /\ \A f \in FileIds : FileRowOK(f)
    /\ \A f, g \in FileIds : \A v \in VersionsOf(f), w \in VersionsOf(g) :
          v.key = w.key => f = g /\ v = w
    /\ \A f \in FileIds : \A v \in VersionsOf(f) : v.key \in usedKeys
    /\ stored \subseteq usedKeys /\ usedKeys \subseteq Keys

(* An upload has a key of its own from its first step to its last.         *)
Unnamed == {"put", "create", "number", "insert", "inserted"}
Uploads(r) == r.pc \in Unnamed \cup {"attach", "undo"}

(* What a request has in hand: its object is in the store and nobody's     *)
(* version yet; the number it inserts follows one that is there; what it   *)
(* undoes belongs to a file of which that is known.                        *)
FileInHand(r) ==
    /\ r \in FileRequests
    /\ Uploads(r) => r.key \in usedKeys
    /\ r.pc \in Unnamed => Unwritten(r.key)
    /\ r.pc = "put" => r.key \notin stored
    /\ r.pc \in Unnamed \ {"put"} => r.key \in stored
    /\ r.pc = "create" => r.file = NoFile
    /\ r.pc \in {"number", "insert", "inserted"} => r.file \in FileIds
    /\ r.pc \in {"insert", "inserted"} =>
          /\ Known(r.file) /\ r.number \in Nat \ {0, 1} /\ HasNumber(r.file, r.number - 1)
    /\ r.pc = "inserted" => ~ HasNumber(r.file, r.number)
    /\ r.pc \in {"attach", "get", "missing"} => r.file \in FileIds /\ Wrote(r.file, r.key)
    /\ r.pc = "find" => r.file \in FileIds /\ Known(r.file)
    /\ r.pc = "undo" => \A f \in FileIds : Wrote(f, r.key) => f \in spoiled
    /\ r.pc = "missing" => r.file \in spoiled

FilesInHand ==
    /\ request \in [FileHandlers -> FileRequests]
    /\ \A h \in FileHandlers : FileInHand(request[h])

(* No key is in two hands, and no number of a file is inserted twice.      *)
OwnKeys ==
    \A h, g \in FileHandlers :
        Uploads(request[h]) /\ Uploads(request[g]) /\ request[h].key = request[g].key => h = g
OneInserts ==
    \A h, g \in FileHandlers :
        /\ At(h, "inserted") /\ At(g, "inserted")
        /\ request[h].file = request[g].file /\ request[h].number = request[g].number
        => h = g

Owned ==
    \A k \in stored \ orphans :
        (\E f \in FileIds : Wrote(f, k)) \/ (\E h \in FileHandlers : Uploads(request[h]) /\ request[h].key = k)

BesideFiles ==
    /\ attached \subseteq FileIds /\ {marked, messageUp, inChannel} \subseteq BOOLEAN
    /\ fileFaults \in 0..MaxFileFaults /\ spoiled \subseteq FileIds /\ orphans \subseteq Keys
    /\ MarkedMeansAttached

HandsOfFiles == FileRowsOK /\ FilesInHand /\ OwnKeys /\ OneInserts
FilesInv == HandsOfFiles /\ VersionsHaveContent /\ Owned /\ BesideFiles

(* A step of one handler.                                                  *)
FileStep(h) ==
    \/ Upload(h) \/ UploadVersion(h) \/ Put(h) \/ PutFails(h) \/ CreateFile(h)
    \/ FileStatementFails(h) \/ NumberVersion(h) \/ InsertVersion(h) \/ CreateVersion(h)
    \/ Undo(h) \/ AttachUploaded(h) \/ Download(h) \/ FindFile(h) \/ Get(h) \/ NotFound(h) \/ Stops(h)

(* A version is written for a request that has the next number of the file.*)
Adds(r, f, n) ==
    /\ f \in FileIds /\ r.key \in Keys /\ Unwritten(r.key)
    /\ IF Known(f) THEN n \in Nat \ {0, 1} /\ HasNumber(f, n - 1) /\ ~ HasNumber(f, n) ELSE n = 1
    /\ fileRow' = [fileRow EXCEPT ![f] =
           [object |-> r.key, versions |-> VersionsOf(f) \cup {[number |-> n, key |-> r.key]}]]

LEMMA AddedVersions ==
    ASSUME FileRowsOK, NEW r, NEW f \in FileIds, NEW n, Adds(r, f, n)
    PROVE  /\ n \in 1..Cardinality(Keys)
           /\ VersionsOf(f)' = VersionsOf(f) \cup {[number |-> n, key |-> r.key]}
           /\ fileRow'[f] = [object |-> r.key, versions |-> VersionsOf(f)']
           /\ fileRow'[f] \in FileRows /\ Known(f)'
           /\ \A v \in VersionsOf(f) : v.number < n
           /\ \A m \in 1..n : HasNumber(f, m)'
           /\ \A g \in FileIds \ {f} : /\ VersionsOf(g)' = VersionsOf(g)
                                       /\ fileRow'[g] = fileRow[g] /\ Known(g)' = Known(g)
<1> DEFINE new == [number |-> n, key |-> r.key]
           vs  == VersionsOf(f) \cup {new}
           row == [object |-> r.key, versions |-> vs]
<1>0. n \in Nat \ {0} /\ r.key \in Keys /\ Unwritten(r.key) /\ FileRowOK(f)
  BY DEF Adds, FileRowsOK
<1>1. /\ fileRow'[f] = row
      /\ \A g \in FileIds \ {f} : fileRow'[g] = fileRow[g]
  BY DEF Adds, FileRowsOK
<1>2. VersionsOf(f) \in SUBSET [number : 1..Cardinality(Keys), key : Keys]
  BY <1>0 DEF VersionsOf, FileRowOK, FileRows
<1>k. Cardinality(Keys) \in Nat
  BY FileAssumption, FS_CardinalityType
<1>3. \A v \in VersionsOf(f) : v.number < n
  <2>1. CASE ~ Known(f)
    BY <2>1 DEF VersionsOf
  <2>2. CASE Known(f)
    <3>1. n \in Nat \ {0, 1} /\ ~ HasNumber(f, n)
      BY <2>2 DEF Adds
    <3>2. ASSUME NEW v \in VersionsOf(f), v.number >= n PROVE FALSE
      <4>1. v.number \in Nat /\ n \in 1..v.number
        BY <1>2, <1>k, <3>1, <3>2
      <4>2. HasNumber(f, n)
        BY <4>1, <1>0, <2>2 DEF FileRowOK, VersionsOf
      <4> QED
        BY <3>1, <4>2
    <3>3. \A v \in VersionsOf(f) : v.number \in Nat
      BY <1>2, <1>k
    <3> QED
      BY <3>1, <3>2, <3>3
  <2> QED
    BY <2>1, <2>2
<1>4. \A m \in 1..(n - 1) : HasNumber(f, m)
  <2>1. CASE ~ Known(f)
    BY <2>1 DEF Adds
  <2>2. CASE Known(f)
    <3>1. PICK v \in VersionsOf(f) : v.number = n - 1
      BY <2>2 DEF Adds, HasNumber
    <3> QED
      BY <3>1, <1>0, <2>2 DEF FileRowOK, VersionsOf
  <2> QED
    BY <2>1, <2>2
<1>5. \A m \in 1..n : \E v \in vs : v.number = m
  <2>1. new \in vs /\ new.number = n
    OBVIOUS
  <2>2. \A m \in 1..(n - 1) : \E v \in vs : v.number = m
    BY <1>4 DEF HasNumber
  <2>3. \A m \in 1..n : m = n \/ m \in 1..(n - 1)
    BY <1>0
  <2> QED
    BY <2>1, <2>2, <2>3
(* The versions up to n have different keys, so there are n of these.      *)
<1>6. n <= Cardinality(Keys)
  <2> DEFINE pick == [m \in 1..n |-> CHOOSE v \in vs : v.number = m]
             fn   == [m \in 1..n |-> pick[m].key]
  <2>1. \A m \in 1..n : pick[m] \in vs /\ pick[m].number = m
    BY <1>5
  <2>2. \A v \in vs : v.key \in Keys
    BY <1>0, <1>2
  <2>3. fn \in [1..n -> Keys]
    BY <2>1, <2>2
  <2>4. ASSUME NEW v \in vs, NEW w \in vs, v.key = w.key PROVE v = w
    <3>1. \A u \in VersionsOf(f) : u.key # r.key
      BY <1>0 DEF Unwritten, Wrote
    <3> QED
      BY <2>4, <3>1 DEF FileRowsOK
  <2>5. \A a, b \in 1..n : fn[a] = fn[b] => a = b
    BY <2>1, <2>4
  <2> HIDE DEF fn, pick
  <2>6. fn \in Injection(1..n, Keys)
    BY <2>3, <2>5 DEF Injection, IsInjective
  <2>7. Cardinality(1..n) = n
    BY <1>0, FS_Interval
  <2> QED
    BY <2>6, <2>7, FileAssumption, FS_Injection
<1>7. row \in FileRows
  <2>1. new \in [number : 1..Cardinality(Keys), key : Keys]
    BY <1>0, <1>6, <1>k
  <2>2. vs \in SUBSET [number : 1..Cardinality(Keys), key : Keys]
    BY <1>2, <2>1
  <2> HIDE DEF vs
  <2> QED
    BY <2>2, <1>0 DEF FileRows
<1>8. Known(f)'
  BY <1>1, <1>7, FileAssumption DEF Known
<1>9. VersionsOf(f)' = vs
  BY <1>1, <1>8 DEF VersionsOf
<1>10. \A m \in 1..n : HasNumber(f, m)'
  BY <1>5, <1>9 DEF HasNumber
<1>11. \A g \in FileIds \ {f} : VersionsOf(g)' = VersionsOf(g) /\ Known(g)' = Known(g)
  BY <1>1 DEF VersionsOf, Known
<1> QED
  BY <1>0, <1>1, <1>3, <1>6, <1>7, <1>8, <1>9, <1>10, <1>11, <1>k

LEMMA AddKeepsRows ==
    ASSUME FileRowsOK, NEW r, NEW f \in FileIds, NEW n, Adds(r, f, n), r.key \in usedKeys,
           usedKeys' = usedKeys, stored' = stored
    PROVE  FileRowsOK'
<1> DEFINE new == [number |-> n, key |-> r.key]
<1>0. /\ n \in 1..Cardinality(Keys) /\ n \in Nat
      /\ VersionsOf(f)' = VersionsOf(f) \cup {new}
      /\ fileRow'[f] = [object |-> r.key, versions |-> VersionsOf(f)']
      /\ fileRow'[f] \in FileRows /\ Known(f)'
      /\ \A v \in VersionsOf(f) : v.number < n
      /\ \A m \in 1..n : HasNumber(f, m)'
      /\ \A g \in FileIds \ {f} : /\ VersionsOf(g)' = VersionsOf(g)
                                  /\ fileRow'[g] = fileRow[g] /\ Known(g)' = Known(g)
  BY AddedVersions
<1>1. \A v \in VersionsOf(f) : v.number \in Nat /\ v.number < n
  <2>1. \A v \in VersionsOf(f) : v.number \in 1..Cardinality(Keys)
    BY DEF FileRowsOK, FileRowOK, VersionsOf, FileRows
  <2> QED
    BY <1>0, <2>1, FileAssumption, FS_CardinalityType
<1>2. FileRowOK(f)'
  <2>1. \A v, w \in VersionsOf(f)' : v.number = w.number => v = w
    <3>1. \A v, w \in VersionsOf(f) : v.number = w.number => v = w
      BY DEF FileRowsOK, FileRowOK, VersionsOf
    <3>2. \A v \in VersionsOf(f) : v.number # new.number
      BY <1>0, <1>1
    <3> HIDE DEF new
    <3> QED
      BY <1>0, <3>1, <3>2
  <2>2. \A v \in VersionsOf(f)' : v.number \in Nat /\ v.number <= n
    BY <1>0, <1>1
  <2>3. \A v \in VersionsOf(f)' : \A m \in 1..v.number : HasNumber(f, m)'
    BY <1>0, <2>2
  <2>4. new \in VersionsOf(f)' /\ new.key = r.key /\ new.number = n
    BY <1>0
  <2>5. fileRow'[f].object = r.key /\ fileRow'[f].versions = VersionsOf(f)'
    BY <1>0
  <2> HIDE DEF new
  <2> QED
    BY <1>0, <2>1, <2>2, <2>3, <2>4, <2>5 DEF FileRowOK
<1>3. \A g \in FileIds \ {f} : FileRowOK(g)'
  BY <1>0 DEF FileRowsOK, FileRowOK, HasNumber
<1>4. fileRow' \in [FileIds -> FileRows \cup {NoFile}]
  <2>1. \A g \in FileIds : fileRow'[g] \in FileRows \cup {NoFile}
    BY <1>0 DEF FileRowsOK
  <2> QED
    BY <2>1 DEF Adds, FileRowsOK
<1>5. \A g \in FileIds : \A v \in VersionsOf(g)' :
          (g = f /\ v = new) \/ v \in VersionsOf(g)
  BY <1>0
<1>6. \A g, k \in FileIds : \A v \in VersionsOf(g)', w \in VersionsOf(k)' :
          v.key = w.key => g = k /\ v = w
  <2>1. \A g \in FileIds : \A v \in VersionsOf(g) : v.key # new.key
    BY DEF Adds, Unwritten, Wrote
  <2> HIDE DEF new
  <2> QED
    BY <1>5, <2>1 DEF FileRowsOK
<1>7. \A g \in FileIds : \A v \in VersionsOf(g)' : v.key \in usedKeys
  BY <1>5 DEF FileRowsOK
<1> QED
  BY <1>2, <1>3, <1>4, <1>6, <1>7 DEF FileRowsOK

-----------------------------------------------------------------------------
(* What the steps of a handler may do to what others have in hand.         *)

LEMMA HandOfOne ==
    ASSUME FilesInHand, NEW h \in FileHandlers
    PROVE  request[h] \in FileRequests /\ FileInHand(request[h]) /\ DOMAIN request = FileHandlers
  BY DEF FilesInHand

LEMMA CreatesAdd ==
    ASSUME FilesInv, NEW h \in FileHandlers, CreateFile(h) \/ CreateVersion(h)
    PROVE  /\ request[h].pc \in {"create", "inserted"}
           /\ stored' = stored /\ usedKeys' = usedKeys
           /\ spoiled \subseteq spoiled' /\ orphans \subseteq orphans'
           /\ \E f \in FileIds, n \in Nat :
                 /\ Adds(request[h], f, n)
                 /\ request[h].pc = "inserted" => f = request[h].file /\ n = request[h].number
                 /\ request[h].pc = "create" => ~ Known(f)
<1> DEFINE r == request[h]
<1>0. r \in FileRequests /\ FileInHand(r) /\ DOMAIN request = FileHandlers
  BY HandOfOne DEF FilesInv, HandsOfFiles
<1>k. usedKeys \subseteq Keys
  BY DEF FilesInv, HandsOfFiles, FileRowsOK
<1>2. CASE CreateFile(h)
  <2>1. PICK f \in FileIds :
            /\ ~Known(f)
            /\ fileRow' = [fileRow EXCEPT ![f] =
                 [object |-> r.key, versions |-> {[number |-> 1, key |-> r.key]}]]
            /\ spoiled' = spoiled \/ spoiled' = spoiled \cup {f}
    BY <1>2 DEF CreateFile
  <2>2. VersionsOf(f) \cup {[number |-> 1, key |-> r.key]} = {[number |-> 1, key |-> r.key]}
    BY <2>1 DEF VersionsOf
  <2>3. r.pc = "create" /\ r.key \in Keys /\ Unwritten(r.key)
    BY <1>0, <1>2, <1>k DEF CreateFile, At, FileInHand, Uploads, Unnamed
  <2>4. Adds(r, f, 1)
    BY <2>1, <2>2, <2>3 DEF Adds
  <2> QED
    BY <1>2, <1>k, <2>1, <2>3, <2>4 DEF CreateFile
<1>3. CASE CreateVersion(h)
  <2>1. /\ r.pc = "inserted" /\ r.key \in Keys /\ Unwritten(r.key) /\ r.file \in FileIds
        /\ Known(r.file) /\ r.number \in Nat \ {0, 1} /\ HasNumber(r.file, r.number - 1)
        /\ ~ HasNumber(r.file, r.number)
    BY <1>0, <1>3, <1>k DEF CreateVersion, At, FileInHand, Uploads, Unnamed
  <2>2. fileRow' = [fileRow EXCEPT ![r.file] =
           [object |-> r.key, versions |-> fileRow[r.file].versions \cup {[number |-> r.number, key |-> r.key]}]]
    BY <1>3, <2>1 DEF CreateVersion, FilesInv, HandsOfFiles, FileRowsOK
  <2>3. Adds(r, r.file, r.number)
    BY <2>1, <2>2 DEF Adds, VersionsOf
  <2>4. stored' = stored /\ usedKeys' = usedKeys /\ spoiled \subseteq spoiled' /\ orphans' = orphans
    BY <1>3 DEF CreateVersion
  <2> QED
    BY <1>k, <2>1, <2>3, <2>4
<1> QED
  BY <1>2, <1>3

(* Each step writes its own request, and of the rows and objects what its  *)
(* place allows.                                                           *)
LEMMA StepEffects ==
    ASSUME FilesInv, NEW h \in FileHandlers, FileStep(h)
    PROVE  /\ \A g \in FileHandlers \ {h} : request'[g] = request[g]
           /\ DOMAIN request' = FileHandlers
           /\ usedKeys \subseteq usedKeys' /\ usedKeys' \subseteq Keys
           /\ spoiled \subseteq spoiled' /\ orphans \subseteq orphans'
           /\ \/ fileRow' = fileRow
              \/ /\ request[h].pc \in {"create", "inserted"}
                 /\ stored' = stored /\ usedKeys' = usedKeys
                 /\ \E f \in FileIds, n \in Nat :
                       /\ Adds(request[h], f, n)
                       /\ request[h].pc = "inserted" => f = request[h].file /\ n = request[h].number
                       /\ request[h].pc = "create" => ~ Known(f)
           /\ \/ stored' = stored
              \/ At(h, "put") /\ stored' = stored \cup {request[h].key}
              \/ At(h, "undo") /\ stored' = stored \ {request[h].key}
<1> DEFINE r == request[h]
<1>0. r \in FileRequests /\ FileInHand(r) /\ DOMAIN request = FileHandlers
  BY HandOfOne DEF FilesInv, HandsOfFiles
<1>k. usedKeys \subseteq Keys
  BY DEF FilesInv, HandsOfFiles, FileRowsOK
<1>r. \E x : request' = [request EXCEPT ![h] = x]
  BY DEF FileStep, Upload, UploadVersion, NewKey, Put, PutFails, CreateFile, FileStatementFails,
         NumberVersion, InsertVersion, CreateVersion, Undo, AttachUploaded, Download, FindFile, Get,
         NotFound, Stops, GoOn, Respond
<1>1. /\ \A g \in FileHandlers \ {h} : request'[g] = request[g]
      /\ DOMAIN request' = FileHandlers
  BY <1>0, <1>r
<1>2. CASE CreateFile(h) \/ CreateVersion(h)
  BY <1>1, <1>2, <1>k, CreatesAdd
<1>4. CASE Upload(h) \/ UploadVersion(h)
  BY <1>1, <1>4, <1>k DEF Upload, UploadVersion, NewKey
<1>5. CASE Put(h) \/ PutFails(h) \/ Undo(h)
  BY <1>1, <1>5, <1>k DEF Put, PutFails, Undo
<1>6. CASE \/ FileStatementFails(h) \/ NumberVersion(h) \/ InsertVersion(h) \/ AttachUploaded(h)
           \/ Download(h) \/ FindFile(h) \/ Get(h) \/ NotFound(h) \/ Stops(h)
  BY <1>1, <1>6, <1>k DEF FileStatementFails, NumberVersion, InsertVersion, AttachUploaded,
     Download, FindFile, Get, NotFound, Stops
<1> QED
  BY <1>2, <1>4, <1>5, <1>6 DEF FileStep

LEMMA RowsStep ==
    ASSUME FilesInv, NEW h \in FileHandlers, FileStep(h)
    PROVE  /\ FileRowsOK'
           /\ \A f \in FileIds : VersionsOf(f) \subseteq VersionsOf(f)' /\ (Known(f) => Known(f)')
           /\ \A f \in FileIds : \A v \in VersionsOf(f)' \ VersionsOf(f) :
                 /\ v.key = request[h].key /\ v.key \in stored /\ stored' = stored
                 /\ request[h].pc \in {"create", "inserted"}
                 /\ request[h].pc = "inserted" => f = request[h].file /\ v.number = request[h].number
                 /\ request[h].pc = "create" => ~ Known(f)
<1> DEFINE r == request[h]
<1>0. FileInHand(r) /\ FileRowsOK
  BY HandOfOne DEF FilesInv, HandsOfFiles
<1>1. CASE fileRow' = fileRow
  <2>1. \A f \in FileIds : /\ VersionsOf(f)' = VersionsOf(f) /\ Known(f)' = Known(f)
                           /\ FileRowOK(f)' = FileRowOK(f)
    BY <1>1 DEF VersionsOf, Known, FileRowOK, HasNumber
  <2>2. usedKeys \subseteq usedKeys' /\ usedKeys' \subseteq Keys
    BY StepEffects
  <2>3. stored' \subseteq usedKeys'
    <3>1. At(h, "put") => r.key \in usedKeys
      BY <1>0 DEF At, FileInHand, Uploads, Unnamed
    <3> QED
      BY <3>1, <2>2, <1>0, StepEffects DEF FileRowsOK
  <2>4. FileRowsOK'
    BY <1>0, <1>1, <2>1, <2>2, <2>3 DEF FileRowsOK
  <2> QED
    BY <2>1, <2>4
<1>2. CASE fileRow' # fileRow
  <2>1. PICK f \in FileIds, n \in Nat :
            /\ Adds(r, f, n)
            /\ r.pc = "inserted" => f = r.file /\ n = r.number
            /\ r.pc = "create" => ~ Known(f)
    BY <1>2, StepEffects
  <2>2. r.pc \in {"create", "inserted"} /\ stored' = stored /\ usedKeys' = usedKeys
    BY <1>2, StepEffects
  <2>3. r.key \in usedKeys /\ r.key \in stored
    BY <1>0, <2>2 DEF FileInHand, Uploads, Unnamed
  <2>4. FileRowsOK'
    BY <1>0, <2>1, <2>2, <2>3, AddKeepsRows
  <2>5. /\ VersionsOf(f)' = VersionsOf(f) \cup {[number |-> n, key |-> r.key]} /\ Known(f)'
        /\ \A g \in FileIds \ {f} : VersionsOf(g)' = VersionsOf(g) /\ Known(g)' = Known(g)
    <3>1. FileRowsOK /\ Adds(r, f, n)
      BY <1>0, <2>1
    <3> HIDE DEF r
    <3> QED
      BY <3>1, AddedVersions
  <2> QED
    BY <2>1, <2>2, <2>3, <2>4, <2>5
<1> QED
  BY <1>1, <1>2

(* The others keep what they have in hand.                                 *)
LEMMA OthersKeep ==
    ASSUME FilesInv, NEW h \in FileHandlers, FileStep(h), NEW g \in FileHandlers, g # h
    PROVE  FileInHand(request[g])'
<1>r. PICK r : r = request[g]
  OBVIOUS
<1>s. PICK s : s = request[h]
  OBVIOUS
<1>0. /\ FileInHand(r) /\ FileInHand(s) /\ request'[g] = r
      /\ usedKeys \subseteq usedKeys' /\ spoiled \subseteq spoiled'
  BY <1>r, <1>s, HandOfOne, StepEffects DEF FilesInv, HandsOfFiles
<1>1. Uploads(r) /\ Uploads(s) => r.key # s.key
  BY <1>r, <1>s DEF FilesInv, HandsOfFiles, OwnKeys
<1>2. \A f \in FileIds : VersionsOf(f) \subseteq VersionsOf(f)' /\ (Known(f) => Known(f)')
  BY RowsStep
<1>3. \A f \in FileIds : /\ Wrote(f, r.key) => Wrote(f, r.key)'
                         /\ HasNumber(f, r.number - 1) => HasNumber(f, r.number - 1)'
  BY <1>2 DEF Wrote, HasNumber
<1>4. Uploads(r) => \A f \in FileIds : Wrote(f, r.key)' => Wrote(f, r.key)
  <2> SUFFICES ASSUME Uploads(r), NEW f \in FileIds, Wrote(f, r.key)', ~ Wrote(f, r.key) PROVE FALSE
    BY <1>0
  <2>1. PICK v \in VersionsOf(f)' : v.key = r.key
    BY <1>0 DEF Wrote
  <2>2. v \notin VersionsOf(f)
    BY <2>1 DEF Wrote
  <2>3. v.key = s.key /\ s.pc \in {"create", "inserted"}
    BY <2>2, <1>s, RowsStep
  <2> QED
    BY <1>1, <2>1, <2>3 DEF Uploads, Unnamed
<1>5. Uploads(r) => (r.key \in stored <=> r.key \in stored')
  BY <1>1, <1>s, StepEffects DEF At, Uploads, Unnamed
<1>6. ASSUME r.pc = "inserted" PROVE ~ HasNumber(r.file, r.number)'
  <2> SUFFICES ASSUME HasNumber(r.file, r.number)' PROVE FALSE
    BY <1>0
  <2>0. r.file \in FileIds /\ Known(r.file) /\ ~ HasNumber(r.file, r.number)
    BY <1>0, <1>6 DEF FileInHand
  <2>1. PICK v \in VersionsOf(r.file)' : v.number = r.number
    BY <1>0 DEF HasNumber
  <2>2. v \notin VersionsOf(r.file)
    BY <2>0, <2>1 DEF HasNumber
  <2>3. s.pc = "inserted" /\ s.file = r.file /\ s.number = r.number
    BY <2>0, <2>1, <2>2, <1>s, RowsStep
  <2> QED
    BY <1>6, <1>r, <1>s, <2>3 DEF FilesInv, HandsOfFiles, OneInserts, At
<1>7. Uploads(r) => (Unwritten(r.key) => Unwritten(r.key)')
  BY <1>0, <1>4 DEF Unwritten
<1>8. r.pc \in Unnamed \cup {"undo"} => Uploads(r)
  BY DEF Uploads
<1> QED
  <2>1. FileInHand(r)'
    <3>1. /\ r \in FileRequests
          /\ Uploads(r) => r.key \in usedKeys'
          /\ r.pc \in Unnamed => Unwritten(r.key)'
          /\ r.pc = "put" => r.key \notin stored'
          /\ r.pc \in Unnamed \ {"put"} => r.key \in stored'
      BY <1>0, <1>5, <1>7, <1>8 DEF FileInHand, Unnamed
    <3>2. /\ r.pc = "create" => r.file = NoFile
          /\ r.pc \in {"number", "insert", "inserted"} => r.file \in FileIds
          /\ r.pc \in {"insert", "inserted"} =>
                /\ Known(r.file)' /\ r.number \in Nat \ {0, 1} /\ HasNumber(r.file, r.number - 1)'
      BY <1>0, <1>2, <1>3 DEF FileInHand
    <3>3. /\ r.pc \in {"attach", "get", "missing"} => r.file \in FileIds /\ Wrote(r.file, r.key)'
          /\ r.pc = "find" => r.file \in FileIds /\ Known(r.file)'
          /\ r.pc = "undo" => \A f \in FileIds : Wrote(f, r.key)' => f \in spoiled'
          /\ r.pc = "missing" => r.file \in spoiled'
      BY <1>0, <1>2, <1>3, <1>4, <1>8 DEF FileInHand
    <3> QED
      BY <1>6, <3>1, <3>2, <3>3 DEF FileInHand
  <2> QED
    BY <1>0, <2>1

(* ... and the one that moves is ready for its next step.                  *)
LEMMA FreeHand == FileInHand(Free) /\ FileInHand(Free)' /\ Free.pc = "free"
  BY DEF FileInHand, Free, FileRequests, FilePlaces, Uploads, Unnamed

LEMMA UndoHand ==
    ASSUME FilesInv, NEW r \in FileRequests, Uploads(r), r.key \in usedKeys,
           usedKeys \subseteq usedKeys', \A f \in FileIds : Wrote(f, r.key)' => f \in spoiled'
    PROVE  FileInHand([r EXCEPT !.pc = "undo"])'
<1>1. PICK x : x = [r EXCEPT !.pc = "undo"]
  OBVIOUS
<1>2. x \in FileRequests /\ x.pc = "undo" /\ x.key = r.key
  BY <1>1 DEF FileRequests, FilePlaces
<1>3. FileInHand(x)'
  BY <1>2 DEF FileInHand, Uploads, Unnamed
<1> QED
  BY <1>1, <1>3

LEMMA UploadHand ==
    ASSUME FilesInv, NEW h \in FileHandlers, Upload(h) \/ UploadVersion(h)
    PROVE  FileInHand(request[h])'
<1>0. DOMAIN request = FileHandlers /\ FileRowsOK
  BY HandOfOne DEF FilesInv, HandsOfFiles
<1>1. PICK k \in Keys \ usedKeys, x \in FileRequests :
          /\ usedKeys' = usedKeys \cup {k}
          /\ request'[h] = x /\ x.pc = "put" /\ x.key = k /\ x.file \in FileIds \cup {NoFile}
  <2>1. ASSUME NEW r \in FileRequests, NewKey(h, r), r.pc = "put", r.file \in FileIds \cup {NoFile}
        PROVE  \E k \in Keys \ usedKeys, x \in FileRequests :
                  /\ usedKeys' = usedKeys \cup {k}
                  /\ request'[h] = x /\ x.pc = "put" /\ x.key = k /\ x.file \in FileIds \cup {NoFile}
    <3>1. PICK k \in Keys \ usedKeys : /\ usedKeys' = usedKeys \cup {k}
                                       /\ request' = [request EXCEPT ![h] = [r EXCEPT !.key = k]]
      BY <2>1 DEF NewKey
    <3>2. PICK x : x = [r EXCEPT !.key = k]
      OBVIOUS
    <3>3. x \in FileRequests /\ x.pc = "put" /\ x.key = k /\ x.file \in FileIds \cup {NoFile}
      BY <2>1, <3>2 DEF FileRequests
    <3> QED
      BY <1>0, <3>1, <3>2, <3>3
  <2>2. CASE Upload(h)
    <3>1. PICK attach \in BOOLEAN : NewKey(h, [Free EXCEPT !.pc = "put", !.attach = attach])
      BY <2>2 DEF Upload
    <3>2. PICK r : r = [Free EXCEPT !.pc = "put", !.attach = attach]
      OBVIOUS
    <3>3. r \in FileRequests /\ r.pc = "put" /\ r.file \in FileIds \cup {NoFile}
      BY <3>2 DEF Free, FileRequests, FilePlaces
    <3> QED
      BY <2>1, <3>1, <3>2, <3>3
  <2>3. CASE UploadVersion(h)
    <3>1. PICK f \in FileIds : NewKey(h, [Free EXCEPT !.pc = "put", !.file = f])
      BY <2>3 DEF UploadVersion
    <3>2. PICK r : r = [Free EXCEPT !.pc = "put", !.file = f]
      OBVIOUS
    <3>3. r \in FileRequests /\ r.pc = "put" /\ r.file \in FileIds \cup {NoFile}
      BY <3>2 DEF Free, FileRequests, FilePlaces
    <3> QED
      BY <2>1, <3>1, <3>2, <3>3
  <2> QED
    BY <2>2, <2>3
<1>4. fileRow' = fileRow /\ stored' = stored
  BY DEF Upload, UploadVersion
<1>5. Unwritten(k)' /\ k \notin stored'
  BY <1>0, <1>4 DEF FileRowsOK, Unwritten, Wrote, VersionsOf, Known
<1>6. FileInHand(x)'
  BY <1>1, <1>5 DEF FileInHand, Uploads, Unnamed
<1> QED
  BY <1>1, <1>6

LEMMA PutHand ==
    ASSUME FilesInv, NEW h \in FileHandlers, Put(h)
    PROVE  FileInHand(request[h])'
<1>1. PICK r : r = request[h]
  OBVIOUS
<1>2. /\ FileInHand(r) /\ r \in FileRequests /\ r.pc = "put"
      /\ fileRow' = fileRow /\ usedKeys' = usedKeys /\ stored' = stored \cup {r.key}
      /\ request'[h] = [r EXCEPT !.pc = IF r.file = NoFile THEN "create" ELSE "number"]
  BY <1>1, HandOfOne DEF FilesInv, HandsOfFiles, Put, At, GoOn
<1>3. PICK x : x = [r EXCEPT !.pc = IF r.file = NoFile THEN "create" ELSE "number"]
  OBVIOUS
<1>4. /\ x \in FileRequests /\ x.key = r.key /\ x.file = r.file /\ x.file \in FileIds \cup {NoFile}
      /\ x.pc = IF r.file = NoFile THEN "create" ELSE "number"
  BY <1>2, <1>3 DEF FileRequests, FilePlaces
<1>5. Unwritten(x.key)' /\ x.key \in stored' /\ x.key \in usedKeys'
  BY <1>2, <1>4 DEF FileInHand, Unnamed, Uploads, Unwritten, Wrote, VersionsOf, Known
<1>6. FileInHand(x)'
  BY <1>4, <1>5 DEF FileInHand, Uploads, Unnamed
<1> QED
  BY <1>2, <1>3, <1>6

LEMMA CreateHand ==
    ASSUME FilesInv, NEW h \in FileHandlers, CreateFile(h)
    PROVE  FileInHand(request[h])'
<1>1. PICK r : r = request[h]
  OBVIOUS
<1>2. FileInHand(r) /\ r \in FileRequests /\ r.pc = "create" /\ Uploads(r) /\ FileRowsOK
  BY <1>1, HandOfOne DEF FilesInv, HandsOfFiles, CreateFile, At, Uploads, Unnamed
<1>3. PICK f \in FileIds :
          /\ ~Known(f)
          /\ fileRow' = [fileRow EXCEPT ![f] =
                 [object |-> r.key, versions |-> {[number |-> 1, key |-> r.key]}]]
          /\ \/ request' = [request EXCEPT ![h] = IF r.attach
                                  THEN [r EXCEPT !.pc = "attach", !.file = f] ELSE Free]
             \/ spoiled' = spoiled \cup {f} /\ GoOn(h, "undo")
  BY <1>1, HandOfOne DEF CreateFile, FilesInv, HandsOfFiles
<1>4. /\ usedKeys' = usedKeys /\ r.key \in usedKeys /\ r.key \in Keys /\ Unwritten(r.key)
      /\ r.key \in stored /\ stored' = stored
  BY <1>2 DEF CreateFile, FileInHand, FileRowsOK, Unnamed
<1>5. VersionsOf(f) \cup {[number |-> 1, key |-> r.key]} = {[number |-> 1, key |-> r.key]}
  BY <1>3 DEF VersionsOf
<1>6. Adds(r, f, 1)
  BY <1>3, <1>4, <1>5 DEF Adds
<1>7. /\ VersionsOf(f)' = {[number |-> 1, key |-> r.key]}
      /\ \A g \in FileIds \ {f} : VersionsOf(g)' = VersionsOf(g)
  BY <1>2, <1>5, <1>6, AddedVersions
<1>8. Wrote(f, r.key)' /\ \A g \in FileIds \ {f} : ~ Wrote(g, r.key)'
  BY <1>4, <1>7 DEF Wrote, Unwritten
<1>9. ASSUME request' = [request EXCEPT ![h] = IF r.attach
                                  THEN [r EXCEPT !.pc = "attach", !.file = f] ELSE Free]
      PROVE  FileInHand(request[h])'
  <2>1. CASE r.attach
    <3>1. PICK x : x = [r EXCEPT !.pc = "attach", !.file = f]
      OBVIOUS
    <3>2. x \in FileRequests /\ x.pc = "attach" /\ x.file = f /\ x.key = r.key
      BY <1>2, <3>1 DEF FileRequests, FilePlaces
    <3>3. FileInHand(x)'
      BY <1>4, <1>8, <3>2 DEF FileInHand, Uploads, Unnamed
    <3> QED
      BY <1>9, <2>1, <3>1, <3>3, HandOfOne DEF FilesInv, HandsOfFiles
  <2>2. CASE ~ r.attach
    BY <1>9, <2>2, FreeHand, HandOfOne DEF FilesInv, HandsOfFiles
  <2> QED
    BY <2>1, <2>2
<1>10. ASSUME spoiled' = spoiled \cup {f}, GoOn(h, "undo") PROVE FileInHand(request[h])'
  <2>1. FileInHand([r EXCEPT !.pc = "undo"])'
    BY <1>2, <1>4, <1>8, <1>10, UndoHand
  <2> QED
    BY <1>1, <1>10, <2>1, HandOfOne DEF GoOn, FilesInv, HandsOfFiles
<1> QED
  BY <1>3, <1>9, <1>10

LEMMA LatestIsLast ==
    ASSUME FileRowsOK, NEW f \in FileIds, Known(f)
    PROVE  /\ Latest(f) \in VersionsOf(f) /\ Latest(f).number \in Nat \ {0}
           /\ Latest(f).key = fileRow[f].object /\ HasNumber(f, Latest(f).number)
           /\ \A v, w \in VersionsOf(f) : v.number = w.number => v = w
<1>0. /\ \A v \in fileRow[f].versions : v.number \in 1..Cardinality(Keys)
      /\ \A v, w \in fileRow[f].versions : v.number = w.number => v = w
      /\ VersionsOf(f) = fileRow[f].versions
  BY DEF FileRowsOK, FileRowOK, FileRows, VersionsOf
<1>1. \A v \in fileRow[f].versions : v.number \in Nat \ {0}
  BY <1>0, FileAssumption, FS_CardinalityType
<1>2. PICK v \in fileRow[f].versions :
          v.key = fileRow[f].object /\ \A w \in fileRow[f].versions : w.number <= v.number
  BY DEF FileRowsOK, FileRowOK
<1>3. /\ Latest(f) \in fileRow[f].versions
      /\ \A w \in fileRow[f].versions : w.number <= Latest(f).number
  BY <1>2 DEF Latest
<1>4. Latest(f).number = v.number
  BY <1>1, <1>2, <1>3
<1>5. Latest(f) = v
  BY <1>0, <1>2, <1>3, <1>4
<1> QED
  BY <1>0, <1>1, <1>2, <1>3, <1>5 DEF HasNumber

LEMMA VersionHand ==
    ASSUME FilesInv, NEW h \in FileHandlers,
           NumberVersion(h) \/ InsertVersion(h) \/ CreateVersion(h) \/ FileStatementFails(h)
    PROVE  FileInHand(request[h])'
<1>1. PICK r : r = request[h]
  OBVIOUS
<1>2. FileInHand(r) /\ r \in FileRequests /\ DOMAIN request = FileHandlers /\ FileRowsOK
  BY <1>1, HandOfOne DEF FilesInv, HandsOfFiles
<1>3. /\ usedKeys' = usedKeys /\ r.pc \in Unnamed \ {"put"} /\ Uploads(r)
      /\ r.key \in usedKeys /\ Unwritten(r.key) /\ r.key \in stored /\ stored' = stored
  BY <1>1, <1>2 DEF NumberVersion, InsertVersion, CreateVersion, FileStatementFails, At,
     FileInHand, Uploads, Unnamed
<1>4. ASSUME fileRow' = fileRow
      PROVE  /\ Unwritten(r.key)'
             /\ \A f \in FileIds : \A n : HasNumber(f, n)' = HasNumber(f, n) /\ Known(f)' = Known(f)
  BY <1>3, <1>4 DEF Unwritten, Wrote, HasNumber, VersionsOf, Known
<1>5. ASSUME fileRow' = fileRow, request' = [request EXCEPT ![h] = [r EXCEPT !.pc = "undo"]]
      PROVE  FileInHand(request[h])'
  <2>1. FileInHand([r EXCEPT !.pc = "undo"])'
    BY <1>2, <1>3, <1>4, <1>5, UndoHand DEF Unwritten
  <2> QED
    BY <1>2, <1>5, <2>1
<1>6. CASE NumberVersion(h)
  <2>0. r.file \in FileIds /\ fileRow' = fileRow
    BY <1>1, <1>2, <1>6 DEF NumberVersion, At, FileInHand
  <2>1. CASE Known(r.file)
    <3>1. PICK n : n = Latest(r.file).number + 1
      OBVIOUS
    <3>2. n \in Nat \ {0, 1} /\ HasNumber(r.file, n - 1)
      BY <1>2, <2>0, <2>1, <3>1, LatestIsLast
    <3>3. PICK x : x = [r EXCEPT !.pc = "insert", !.number = n]
      OBVIOUS
    <3>4. /\ x \in FileRequests /\ x.pc = "insert" /\ x.file = r.file /\ x.number = n
          /\ x.key = r.key
      BY <1>2, <3>2, <3>3 DEF FileRequests, FilePlaces
    <3>5. request'[h] = x
      BY <1>1, <1>2, <1>6, <2>1, <3>1, <3>3 DEF NumberVersion
    <3>6. FileInHand(x)'
      BY <1>3, <1>4, <2>0, <2>1, <3>2, <3>4 DEF FileInHand, Uploads, Unnamed
    <3> QED
      BY <3>5, <3>6
  <2>2. CASE ~ Known(r.file)
    <3>1. request' = [request EXCEPT ![h] = [r EXCEPT !.pc = "undo"]]
      BY <1>1, <1>2, <1>6, <2>2 DEF NumberVersion
    <3> QED
      BY <1>5, <2>0, <3>1
  <2> QED
    BY <2>1, <2>2
<1>7. CASE InsertVersion(h)
  <2>0. /\ r.file \in FileIds /\ fileRow' = fileRow /\ Known(r.file)
        /\ r.number \in Nat \ {0, 1} /\ HasNumber(r.file, r.number - 1)
    BY <1>1, <1>2, <1>7 DEF InsertVersion, At, FileInHand
  <2>1. CASE Taken(r.file, r.number)
    <3>1. request' = [request EXCEPT ![h] = [r EXCEPT !.pc = "undo"]]
      BY <1>1, <1>2, <1>7, <2>1 DEF InsertVersion, GoOn
    <3> QED
      BY <1>5, <2>0, <3>1
  <2>2. CASE ~ Taken(r.file, r.number)
    <3>1. request' = [request EXCEPT ![h] = [r EXCEPT !.pc = "inserted"]]
      BY <1>1, <1>2, <1>7, <2>2 DEF InsertVersion, GoOn
    <3>2. ~ HasNumber(r.file, r.number)
      BY <2>0, <2>2 DEF Taken, HasNumber, VersionsOf
    <3>3. PICK x : x = [r EXCEPT !.pc = "inserted"]
      OBVIOUS
    <3>4. /\ x \in FileRequests /\ x.pc = "inserted" /\ x.file = r.file /\ x.number = r.number
          /\ x.key = r.key
      BY <1>2, <3>3 DEF FileRequests, FilePlaces
    <3>5. FileInHand(x)'
      BY <1>3, <1>4, <2>0, <3>2, <3>4 DEF FileInHand, Uploads, Unnamed
    <3> QED
      BY <1>2, <3>1, <3>3, <3>5
  <2> QED
    BY <2>1, <2>2
<1>8. CASE CreateVersion(h)
  <2>1. /\ r.pc = "inserted" /\ r.key \in Keys /\ r.file \in FileIds
        /\ Known(r.file) /\ r.number \in Nat \ {0, 1} /\ HasNumber(r.file, r.number - 1)
        /\ ~ HasNumber(r.file, r.number)
    BY <1>1, <1>2, <1>3, <1>8 DEF CreateVersion, At, FileInHand, FileRowsOK
  <2>2. fileRow' = [fileRow EXCEPT ![r.file] =
           [object |-> r.key, versions |-> fileRow[r.file].versions \cup {[number |-> r.number, key |-> r.key]}]]
    BY <1>1, <1>2, <1>8, <2>1 DEF CreateVersion, FileRowsOK
  <2>3. Adds(r, r.file, r.number)
    BY <1>3, <2>1, <2>2 DEF Adds, VersionsOf
  <2>4. \A g \in FileIds \ {r.file} : VersionsOf(g)' = VersionsOf(g)
    BY <1>2, <2>1, <2>3, AddedVersions
  <2>5. \A g \in FileIds \ {r.file} : ~ Wrote(g, r.key)'
    BY <1>3, <2>4 DEF Wrote, Unwritten
  <2>6. CASE Respond(h)
    BY <1>2, <2>6, FreeHand DEF Respond
  <2>7. CASE spoiled' = spoiled \cup {r.file} /\ GoOn(h, "undo")
    <3>1. FileInHand([r EXCEPT !.pc = "undo"])'
      BY <1>2, <1>3, <2>5, <2>7, UndoHand
    <3> QED
      BY <1>1, <1>2, <2>7, <3>1 DEF GoOn
  <2> QED
    BY <1>1, <1>8, <2>6, <2>7 DEF CreateVersion
<1>9. CASE FileStatementFails(h)
  BY <1>1, <1>5, <1>9 DEF FileStatementFails, GoOn
<1> QED
  BY <1>6, <1>7, <1>8, <1>9

LEMMA OtherHand ==
    ASSUME FilesInv, NEW h \in FileHandlers,
           \/ PutFails(h) \/ Undo(h) \/ AttachUploaded(h) \/ Download(h) \/ FindFile(h)
           \/ Get(h) \/ NotFound(h) \/ Stops(h)
    PROVE  FileInHand(request[h])'
<1>1. PICK r : r = request[h]
  OBVIOUS
<1>2. FileInHand(r) /\ r \in FileRequests /\ DOMAIN request = FileHandlers /\ FileRowsOK
  BY <1>1, HandOfOne DEF FilesInv, HandsOfFiles
<1>3. /\ usedKeys' = usedKeys /\ fileRow' = fileRow
      /\ \A f, k : Wrote(f, k)' = Wrote(f, k) /\ Known(f)' = Known(f)
  BY DEF PutFails, Undo, AttachUploaded, Download, FindFile, Get, NotFound, Stops, Wrote,
     VersionsOf, Known
<1>4. ASSUME Respond(h) PROVE FileInHand(request[h])'
  BY <1>2, <1>4, FreeHand DEF Respond
<1>5. CASE PutFails(h) \/ Undo(h) \/ NotFound(h) \/ Stops(h)
  BY <1>4, <1>5 DEF PutFails, Undo, NotFound, Stops
<1>6. CASE AttachUploaded(h)
  <2>1. /\ r.file \in FileIds /\ Wrote(r.file, r.key) /\ Uploads(r) /\ r.key \in usedKeys
    BY <1>1, <1>2, <1>6 DEF AttachUploaded, At, FileInHand, Uploads
  <2>2. \A f \in FileIds : Wrote(f, r.key) => f = r.file
    BY <1>2, <2>1 DEF Wrote, FileRowsOK
  <2>3. CASE spoiled' = spoiled \cup {r.file} /\ GoOn(h, "undo")
    <3>1. FileInHand([r EXCEPT !.pc = "undo"])'
      BY <1>2, <1>3, <2>1, <2>2, <2>3, UndoHand
    <3> QED
      BY <1>1, <1>2, <2>3, <3>1 DEF GoOn
  <2> QED
    BY <1>1, <1>4, <1>6, <2>3 DEF AttachUploaded
<1>7. CASE Download(h)
  <2>1. PICK f \in FileIds : Known(f) /\ request' = [request EXCEPT ![h] = [Free EXCEPT !.pc = "find", !.file = f]]
    BY <1>7 DEF Download, CanAccessFile
  <2>2. PICK x : x = [Free EXCEPT !.pc = "find", !.file = f]
    OBVIOUS
  <2>3. x \in FileRequests /\ x.pc = "find" /\ x.file = f
    BY <2>2 DEF Free, FileRequests, FilePlaces
  <2>4. FileInHand(x)'
    BY <1>3, <2>1, <2>3 DEF FileInHand, Uploads, Unnamed
  <2> QED
    BY <1>2, <2>1, <2>2, <2>4
<1>8. CASE FindFile(h)
  <2>1. r.file \in FileIds /\ Known(r.file)
    BY <1>1, <1>2, <1>8 DEF FindFile, At, FileInHand
  <2>2. PICK k : k = fileRow[r.file].object
    OBVIOUS
  <2>3. k \in Keys /\ Wrote(r.file, k)
    BY <1>2, <2>1, <2>2 DEF FileRowsOK, FileRowOK, FileRows, Wrote, VersionsOf
  <2>4. PICK x : x = [r EXCEPT !.pc = "get", !.key = k]
    OBVIOUS
  <2>5. x \in FileRequests /\ x.pc = "get" /\ x.file = r.file /\ x.key = k
    BY <1>2, <2>3, <2>4 DEF FileRequests, FilePlaces
  <2>6. request'[h] = x
    BY <1>1, <1>2, <1>8, <2>2, <2>4 DEF FindFile
  <2>7. FileInHand(x)'
    BY <1>3, <2>1, <2>3, <2>5 DEF FileInHand, Uploads, Unnamed
  <2> QED
    BY <2>6, <2>7
<1>9. CASE Get(h)
  <2>1. r.file \in FileIds /\ Wrote(r.file, r.key) /\ r.pc = "get" /\ spoiled' = spoiled
    BY <1>1, <1>2, <1>9 DEF Get, At, FileInHand
  <2>2. CASE r.key \in stored
    BY <1>1, <1>4, <1>9, <2>2 DEF Get
  <2>3. CASE r.key \notin stored
    <3>1. r.file \in spoiled
      BY <2>1, <2>3 DEF FilesInv, VersionsHaveContent, Wrote, VersionsOf
    <3>2. PICK x : x = [r EXCEPT !.pc = "missing"]
      OBVIOUS
    <3>3. x \in FileRequests /\ x.pc = "missing" /\ x.file = r.file /\ x.key = r.key
      BY <1>2, <3>2 DEF FileRequests, FilePlaces
    <3>4. request'[h] = x
      BY <1>1, <1>2, <1>9, <2>3, <3>2 DEF Get, GoOn
    <3>5. FileInHand(x)'
      BY <1>3, <2>1, <3>1, <3>3 DEF FileInHand, Uploads, Unnamed
    <3> QED
      BY <3>4, <3>5
  <2> QED
    BY <2>2, <2>3
<1> QED
  BY <1>5, <1>6, <1>7, <1>8, <1>9

LEMMA HandChange ==
    ASSUME FilesInv, NEW h \in FileHandlers, FileStep(h)
    PROVE  /\ Uploads(request'[h]) =>
                 \/ Uploads(request[h]) /\ request'[h].key = request[h].key
                 \/ request'[h].key \notin usedKeys
           /\ At(h, "inserted")' =>
                 /\ InsertVersion(h)
                 /\ request'[h].file = request[h].file /\ request'[h].number = request[h].number
<1>1. PICK r : r = request[h]
  OBVIOUS
<1>2. r \in FileRequests /\ DOMAIN request = FileHandlers
  BY <1>1, HandOfOne DEF FilesInv, HandsOfFiles
<1>3. ASSUME Respond(h) PROVE ~ Uploads(request'[h]) /\ ~ At(h, "inserted")'
  BY <1>2, <1>3 DEF Respond, Free, Uploads, Unnamed, At
<1>4. ASSUME NEW to, GoOn(h, to)
      PROVE  request'[h].pc = to /\ request'[h].key = r.key /\ request'[h].file = r.file
             /\ request'[h].number = r.number
  BY <1>1, <1>2, <1>4 DEF GoOn, FileRequests
<1>5. CASE Upload(h) \/ UploadVersion(h)
  <2>1. ASSUME NEW x, x.pc = "put", NewKey(h, x), x \in FileRequests
        PROVE  request'[h].key \notin usedKeys /\ request'[h].pc = "put"
    <3>1. PICK k \in Keys \ usedKeys : request' = [request EXCEPT ![h] = [x EXCEPT !.key = k]]
      BY <2>1 DEF NewKey
    <3>2. request'[h] = [x EXCEPT !.key = k]
      BY <1>2, <3>1
    <3> QED
      BY <2>1, <3>2 DEF FileRequests
  <2>2. CASE Upload(h)
    <3>1. PICK attach \in BOOLEAN : NewKey(h, [Free EXCEPT !.pc = "put", !.attach = attach])
      BY <2>2 DEF Upload
    <3>2. PICK x : x = [Free EXCEPT !.pc = "put", !.attach = attach]
      OBVIOUS
    <3>3. x \in FileRequests /\ x.pc = "put"
      BY <3>2 DEF Free, FileRequests, FilePlaces
    <3> QED
      BY <2>1, <3>1, <3>2, <3>3 DEF At
  <2>3. CASE UploadVersion(h)
    <3>1. PICK f \in FileIds : NewKey(h, [Free EXCEPT !.pc = "put", !.file = f])
      BY <2>3 DEF UploadVersion
    <3>2. PICK x : x = [Free EXCEPT !.pc = "put", !.file = f]
      OBVIOUS
    <3>3. x \in FileRequests /\ x.pc = "put"
      BY <3>2 DEF Free, FileRequests, FilePlaces
    <3> QED
      BY <2>1, <3>1, <3>2, <3>3 DEF At
  <2> QED
    BY <1>5, <2>2, <2>3
<1>6. CASE Put(h)
  BY <1>1, <1>4, <1>6 DEF Put, At, Uploads, Unnamed
<1>7. CASE CreateFile(h)
  <2>1. PICK f \in FileIds :
            \/ request' = [request EXCEPT ![h] = IF r.attach
                                  THEN [r EXCEPT !.pc = "attach", !.file = f] ELSE Free]
            \/ GoOn(h, "undo")
    BY <1>1, <1>2, <1>7 DEF CreateFile
  <2>2. CASE request' = [request EXCEPT ![h] = IF r.attach
                                  THEN [r EXCEPT !.pc = "attach", !.file = f] ELSE Free]
    <3>1. CASE r.attach
      <4>1. request'[h] = [r EXCEPT !.pc = "attach", !.file = f]
        BY <1>2, <2>2, <3>1
      <4>2. request'[h].pc = "attach" /\ request'[h].key = r.key
        BY <1>2, <4>1 DEF FileRequests
      <4> QED
        BY <1>1, <1>7, <4>2 DEF CreateFile, At, Uploads, Unnamed
    <3>2. CASE ~ r.attach
      BY <1>3, <2>2, <3>2 DEF Respond
    <3> QED
      BY <3>1, <3>2
  <2>3. CASE GoOn(h, "undo")
    BY <1>1, <1>4, <1>7, <2>3 DEF CreateFile, At, Uploads, Unnamed
  <2> QED
    BY <2>1, <2>2, <2>3
<1>8. CASE NumberVersion(h)
  <2>1. PICK n : request' = [request EXCEPT ![h] =
                    IF Known(r.file) THEN [r EXCEPT !.pc = "insert", !.number = n]
                    ELSE [r EXCEPT !.pc = "undo"]]
    BY <1>1, <1>2, <1>8 DEF NumberVersion
  <2>2. request'[h] = IF Known(r.file) THEN [r EXCEPT !.pc = "insert", !.number = n]
                      ELSE [r EXCEPT !.pc = "undo"]
    BY <1>2, <2>1
  <2>3. request'[h].pc \in {"insert", "undo"} /\ request'[h].key = r.key
    BY <1>2, <2>2 DEF FileRequests
  <2> QED
    BY <1>1, <1>8, <2>3 DEF NumberVersion, At, Uploads, Unnamed
<1>9. CASE InsertVersion(h)
  BY <1>1, <1>4, <1>9 DEF InsertVersion, At, Uploads, Unnamed
<1>10. CASE CreateVersion(h) \/ FileStatementFails(h) \/ AttachUploaded(h)
  BY <1>1, <1>3, <1>4, <1>10 DEF CreateVersion, FileStatementFails, AttachUploaded, At, Uploads, Unnamed
<1>11. CASE Download(h) \/ FindFile(h)
  <2>1. CASE Download(h)
    <3>1. PICK f : request' = [request EXCEPT ![h] = [Free EXCEPT !.pc = "find", !.file = f]]
      BY <2>1 DEF Download
    <3>2. request'[h].pc = "find"
      BY <1>2, <3>1 DEF Free
    <3> QED
      BY <3>2 DEF At, Uploads, Unnamed
  <2>2. CASE FindFile(h)
    <3>1. request'[h].pc = "get"
      BY <1>2, <2>2 DEF FindFile, FileRequests
    <3> QED
      BY <3>1 DEF At, Uploads, Unnamed
  <2> QED
    BY <1>11, <2>1, <2>2
<1>12. CASE PutFails(h) \/ Undo(h) \/ Get(h) \/ NotFound(h) \/ Stops(h)
  BY <1>3, <1>4, <1>12 DEF PutFails, Undo, Get, NotFound, Stops, At, Uploads, Unnamed
<1> QED
  BY <1>5, <1>6, <1>7, <1>8, <1>9, <1>10, <1>11, <1>12 DEF FileStep

LEMMA HandlerKeepsHands ==
    ASSUME FilesInv, NEW h \in FileHandlers, FileStep(h)
    PROVE  HandsOfFiles'
<1>0. /\ FileRowsOK' /\ DOMAIN request' = FileHandlers
      /\ \A g \in FileHandlers \ {h} : request'[g] = request[g]
  BY RowsStep, StepEffects
<1>1. \A g \in FileHandlers : FileInHand(request[g])'
  <2>1. FileInHand(request[h])'
    BY UploadHand, PutHand, CreateHand, VersionHand, OtherHand DEF FileStep
  <2> QED
    BY <2>1, OthersKeep
<1>2. FilesInHand'
  <2>1. \A g \in FileHandlers : request'[g] \in FileRequests
    BY <1>1 DEF FileInHand
  <2>2. request' = [g \in FileHandlers |-> request'[g]]
    <3>1. \E x : request' = [request EXCEPT ![h] = x]
      BY DEF FileStep, Upload, UploadVersion, NewKey, Put, PutFails, CreateFile, FileStatementFails,
         NumberVersion, InsertVersion, CreateVersion, Undo, AttachUploaded, Download, FindFile, Get,
         NotFound, Stops, GoOn, Respond
    <3> QED
      BY <1>0, <3>1
  <2> QED
    BY <1>1, <2>1, <2>2 DEF FilesInHand
<1>3. OwnKeys'
  <2>1. \A g \in FileHandlers : Uploads(request[g]) => request[g].key \in usedKeys
    BY HandOfOne DEF FilesInv, HandsOfFiles, FileInHand
  <2>2. ASSUME NEW g \in FileHandlers \ {h}, Uploads(request'[h]), Uploads(request'[g])
        PROVE  request'[h].key # request'[g].key
    <3>1. Uploads(request[g]) /\ request'[g].key = request[g].key
      BY <1>0, <2>2
    <3> QED
      BY <2>1, <2>2, <3>1, HandChange DEF FilesInv, HandsOfFiles, OwnKeys
  <2>3. \A g, k \in FileHandlers : Uploads(request'[g]) /\ Uploads(request'[k])
            /\ request'[g].key = request'[k].key => g = k
    BY <1>0, <2>2 DEF FilesInv, HandsOfFiles, OwnKeys
  <2> QED
    BY <2>3 DEF OwnKeys, Uploads
<1>4. OneInserts'
  <2>1. ASSUME NEW g \in FileHandlers \ {h}, request'[h].pc = "inserted", request'[g].pc = "inserted"
        PROVE  ~(request'[h].file = request'[g].file /\ request'[h].number = request'[g].number)
    <3>1. request[g].pc = "inserted" /\ request'[g] = request[g]
      BY <1>0, <2>1
    <3>2. /\ InsertVersion(h)
          /\ request'[h].file = request[h].file /\ request'[h].number = request[h].number
      BY <2>1, HandChange DEF At
    <3> QED
      BY <3>1, <3>2 DEF InsertVersion, At
  <2>2. \A g, k \in FileHandlers :
            /\ request'[g].pc = "inserted" /\ request'[k].pc = "inserted"
            /\ request'[g].file = request'[k].file /\ request'[g].number = request'[k].number
            => g = k
    BY <1>0, <2>1 DEF FilesInv, HandsOfFiles, OneInserts, At
  <2> QED
    BY <2>2 DEF OneInserts, At
<1> QED
  BY <1>0, <1>2, <1>3, <1>4 DEF HandsOfFiles

LEMMA ContentStays ==
    ASSUME FilesInv, NEW h \in FileHandlers, FileStep(h)
    PROVE  VersionsHaveContent'
<1>1. PICK r : r = request[h]
  OBVIOUS
<1>2. FileInHand(r) /\ spoiled \subseteq spoiled'
  BY <1>1, HandOfOne, StepEffects DEF FilesInv, HandsOfFiles
<1>3. ASSUME NEW f \in FileIds \ spoiled', NEW v \in VersionsOf(f)' PROVE v.key \in stored'
  <2>1. CASE v \in VersionsOf(f)
    <3>1. v.key \in stored
      BY <1>2, <1>3, <2>1 DEF FilesInv, VersionsHaveContent, VersionsOf
    <3>2. CASE At(h, "undo") /\ stored' = stored \ {r.key}
      <4>1. v.key # r.key
        BY <1>1, <1>2, <1>3, <2>1, <3>2 DEF FileInHand, At, Wrote
      <4> QED
        BY <3>1, <3>2, <4>1
    <3> QED
      BY <1>1, <3>1, <3>2, StepEffects
  <2>2. CASE v \notin VersionsOf(f)
    BY <1>3, <2>2, RowsStep
  <2> QED
    BY <2>1, <2>2
<1> QED
  BY <1>3 DEF VersionsHaveContent, VersionsOf

(* The object of an upload passes to its version, to its undoing, or to    *)
(* the orphans.                                                            *)
LEMMA OwnerStays ==
    ASSUME FilesInv, NEW h \in FileHandlers, FileStep(h), Uploads(request[h]),
           NEW k \in stored' \ orphans', k = request[h].key
    PROVE  \/ \E f \in FileIds : Wrote(f, k)'
           \/ Uploads(request'[h]) /\ request'[h].key = k
<1>1. PICK r : r = request[h]
  OBVIOUS
<1>2. /\ FileInHand(r) /\ r \in FileRequests /\ DOMAIN request = FileHandlers /\ Uploads(r)
      /\ FileRowsOK /\ r.key = k
  BY <1>1, HandOfOne DEF FilesInv, HandsOfFiles
<1>3. ASSUME NEW to \in Unnamed \cup {"attach", "undo"}, GoOn(h, to)
      PROVE  Uploads(request'[h]) /\ request'[h].key = k
  BY <1>1, <1>2, <1>3 DEF GoOn, FileRequests, Uploads
<1>4. CASE Upload(h) \/ UploadVersion(h) \/ Download(h) \/ FindFile(h) \/ Get(h) \/ NotFound(h)
  BY <1>1, <1>2, <1>4 DEF Upload, UploadVersion, Download, FindFile, Get, NotFound, At, Uploads, Unnamed
<1>5. CASE Put(h)
  BY <1>3, <1>5 DEF Put, Unnamed
<1>6. CASE PutFails(h)
  <2>1. k \notin stored
    BY <1>1, <1>2, <1>6 DEF PutFails, At, FileInHand
  <2> QED
    BY <1>1, <1>2, <1>6, <2>1 DEF PutFails
<1>7. CASE CreateFile(h) \/ CreateVersion(h)
  <2>1. PICK f \in FileIds, n \in Nat : Adds(r, f, n)
    BY <1>1, <1>7, CreatesAdd
  <2>2. VersionsOf(f)' = VersionsOf(f) \cup {[number |-> n, key |-> r.key]}
    <3>1. FileRowsOK /\ Adds(r, f, n)
      BY <1>2, <2>1
    <3> QED
      BY <3>1, AddedVersions
  <2>3. PICK v : v = [number |-> n, key |-> r.key]
    OBVIOUS
  <2>4. v \in VersionsOf(f)' /\ v.key = k
    BY <1>2, <2>2, <2>3
  <2>5. Wrote(f, k)'
    BY <2>4 DEF Wrote
  <2> QED
    BY <2>5
<1>8. CASE NumberVersion(h)
  <2>1. request'[h].pc \in {"insert", "undo"} /\ request'[h].key = k
    <3>1. PICK n : request' = [request EXCEPT ![h] =
                      IF Known(r.file) THEN [r EXCEPT !.pc = "insert", !.number = n]
                      ELSE [r EXCEPT !.pc = "undo"]]
      BY <1>1, <1>2, <1>8 DEF NumberVersion
    <3>2. request'[h] = IF Known(r.file) THEN [r EXCEPT !.pc = "insert", !.number = n]
                        ELSE [r EXCEPT !.pc = "undo"]
      BY <1>2, <3>1
    <3> QED
      BY <1>2, <3>2 DEF FileRequests
  <2> QED
    BY <2>1 DEF Uploads, Unnamed
<1>9. CASE InsertVersion(h)
  BY <1>3, <1>9 DEF InsertVersion, Unnamed
<1>10. CASE FileStatementFails(h)
  BY <1>3, <1>10 DEF FileStatementFails
<1>11. CASE Undo(h)
  BY <1>1, <1>2, <1>11 DEF Undo
(* The rows of a file that is still to be attached are committed.          *)
<1>12. ASSUME r.pc = "attach", fileRow' = fileRow PROVE \E f \in FileIds : Wrote(f, k)'
  <2>1. r.file \in FileIds /\ Wrote(r.file, k)
    BY <1>2, <1>12 DEF FileInHand
  <2>2. Wrote(r.file, k)'
    BY <2>1, <1>12 DEF Wrote, VersionsOf, Known
  <2> QED
    BY <2>1, <2>2
<1>13. CASE AttachUploaded(h)
  BY <1>1, <1>12, <1>13 DEF AttachUploaded, At
<1>14. CASE Stops(h)
  <2>1. CASE r.pc = "attach"
    BY <1>12, <1>14, <2>1 DEF Stops
  <2>2. CASE r.pc = "put"
    <3>1. k \notin stored
      BY <1>2, <2>2 DEF FileInHand
    <3> QED
      BY <1>14, <3>1 DEF Stops
  <2>3. CASE r.pc \in {"create", "number", "insert", "inserted", "undo"}
    BY <1>1, <1>2, <1>14, <2>3 DEF Stops
  <2> QED
    BY <1>2, <2>1, <2>2, <2>3 DEF Uploads, Unnamed
<1> QED
  BY <1>4, <1>5, <1>6, <1>7, <1>8, <1>9, <1>10, <1>11, <1>13, <1>14 DEF FileStep

LEMMA OwnersStay ==
    ASSUME FilesInv, NEW h \in FileHandlers, FileStep(h)
    PROVE  Owned'
<1>0. /\ \A g \in FileHandlers \ {h} : request'[g] = request[g]
      /\ orphans \subseteq orphans'
      /\ \A f \in FileIds : VersionsOf(f) \subseteq VersionsOf(f)'
  BY StepEffects, RowsStep
<1>1. ASSUME NEW k \in stored' \ orphans'
      PROVE  \/ \E f \in FileIds : Wrote(f, k)'
             \/ \E g \in FileHandlers : Uploads(request'[g]) /\ request'[g].key = k
  <2>1. CASE \E f \in FileIds : Wrote(f, k)
    BY <1>0, <2>1 DEF Wrote
  <2>2. CASE \E g \in FileHandlers \ {h} : Uploads(request[g]) /\ request[g].key = k
    BY <1>0, <2>2
  <2>3. CASE Uploads(request[h]) /\ request[h].key = k
    BY <1>1, <2>3, OwnerStays
  <2>4. CASE k \notin stored
    <3>1. At(h, "put") /\ k = request[h].key
      BY <1>1, <2>4, StepEffects
    <3> QED
      BY <2>3, <3>1 DEF At, Uploads, Unnamed
  <2> QED
    BY <1>0, <1>1, <2>1, <2>2, <2>3, <2>4 DEF FilesInv, Owned
<1> QED
  BY <1>1 DEF Owned, Uploads

LEMMA BesideFilesStays ==
    ASSUME FilesInv, [FilesNext]_fileVars
    PROVE  BesideFiles'
<1>0. MaxFileFaults \in Nat
  BY FileAssumption
<1>1. CASE UNCHANGED fileVars
  BY <1>1 DEF fileVars, FilesInv, BesideFiles, MarkedMeansAttached
<1>2. CASE AttachFile \/ LeaveOrDelete
  BY <1>2 DEF AttachFile, LeaveOrDelete, Attach, FilesInv, BesideFiles, MarkedMeansAttached
<1>3. ASSUME NEW h \in FileHandlers, FileStep(h) PROVE BesideFiles'
  <2>0. FileInHand(request[h]) /\ usedKeys \subseteq Keys
    BY HandOfOne DEF FilesInv, HandsOfFiles, FileRowsOK
  <2>1. /\ messageUp' = messageUp /\ inChannel' = inChannel
        /\ \/ attached' = attached /\ marked' = marked
           \/ At(h, "attach") /\ attached' = attached \cup {request[h].file} /\ marked' = TRUE
    BY <1>3 DEF FileStep, Upload, UploadVersion, Put, PutFails, CreateFile, FileStatementFails,
       NumberVersion, InsertVersion, CreateVersion, Undo, AttachUploaded, Attach, Download, FindFile,
       Get, NotFound, Stops
  <2>2. fileFaults' = fileFaults \/ FileFault
    BY <1>3 DEF FileStep, Upload, UploadVersion, Put, PutFails, CreateFile, FileStatementFails,
       NumberVersion, InsertVersion, CreateVersion, Undo, AttachUploaded, Download, FindFile,
       Get, NotFound, Stops
  <2>3. orphans' = orphans \/ (Uploads(request[h]) /\ orphans' = orphans \cup {request[h].key})
    BY <1>3 DEF FileStep, Upload, UploadVersion, Put, PutFails, CreateFile, FileStatementFails,
       NumberVersion, InsertVersion, CreateVersion, Undo, AttachUploaded, Download, FindFile,
       Get, NotFound, Stops, At, Uploads, Unnamed
  <2>4. \/ spoiled' = spoiled
        \/ \E f \in FileIds : spoiled' = spoiled \cup {f}
        \/ request[h].pc \in {"attach", "inserted"} /\ spoiled' = spoiled \cup {request[h].file}
    BY <1>3 DEF FileStep, Upload, UploadVersion, Put, PutFails, CreateFile, FileStatementFails,
       NumberVersion, InsertVersion, CreateVersion, Undo, AttachUploaded, Download, FindFile,
       Get, NotFound, Stops, At
  <2>5. /\ At(h, "attach") => request[h].file \in FileIds
        /\ request[h].pc \in {"attach", "inserted"} => request[h].file \in FileIds
        /\ Uploads(request[h]) => request[h].key \in Keys
    BY <2>0 DEF FileInHand, At
  <2>6. attached' \subseteq FileIds /\ {marked', messageUp', inChannel'} \subseteq BOOLEAN
    BY <2>1, <2>5 DEF FilesInv, BesideFiles
  <2>7. (marked' = (attached' # {}))
    BY <2>1 DEF FilesInv, BesideFiles, MarkedMeansAttached
  <2>8. fileFaults' \in 0..MaxFileFaults
    BY <1>0, <2>2 DEF FilesInv, BesideFiles, FileFault
  <2>9. spoiled' \subseteq FileIds /\ orphans' \subseteq Keys
    BY <2>3, <2>4, <2>5 DEF FilesInv, BesideFiles
  <2> QED
    BY <2>6, <2>7, <2>8, <2>9 DEF BesideFiles, MarkedMeansAttached
<1> QED
  BY <1>1, <1>2, <1>3 DEF FilesNext, FileStep

LEMMA QuietFiles ==
    ASSUME FilesInv, UNCHANGED <<fileRow, stored, usedKeys, request, spoiled, orphans>>
    PROVE  HandsOfFiles' /\ VersionsHaveContent' /\ Owned'
<1>1. \A f, k : /\ Known(f)' = Known(f) /\ VersionsOf(f)' = VersionsOf(f) /\ Wrote(f, k)' = Wrote(f, k)
                /\ HasNumber(f, k)' = HasNumber(f, k)
  BY DEF Known, VersionsOf, Wrote, HasNumber
<1>2. FileRowsOK'
  BY <1>1 DEF FilesInv, HandsOfFiles, FileRowsOK, FileRowOK
<1>3. \A r : FileInHand(r) => FileInHand(r)'
  BY <1>1 DEF FileInHand, Unwritten
<1>4. FilesInHand' /\ OwnKeys' /\ OneInserts'
  BY <1>3 DEF FilesInv, HandsOfFiles, FilesInHand, OwnKeys, OneInserts, At
<1>5. VersionsHaveContent' /\ Owned'
  BY <1>1 DEF FilesInv, VersionsHaveContent, Owned
<1> QED
  BY <1>2, <1>4, <1>5 DEF HandsOfFiles

LEMMA FilesInvStarts == FilesInit => FilesInv
<1> SUFFICES ASSUME FilesInit PROVE FilesInv
  OBVIOUS
<1>1. \A f \in FileIds : ~ Known(f) /\ VersionsOf(f) = {}
  BY DEF FilesInit, Known, VersionsOf
<1>2. FileRowsOK
  BY <1>1 DEF FilesInit, FileRowsOK, FileRowOK
<1>3. FilesInHand
  BY FreeHand DEF FilesInit, FilesInHand, FileInHand
<1>4. OwnKeys /\ OneInserts
  BY FreeHand DEF FilesInit, OwnKeys, OneInserts, At, Uploads, Unnamed
<1>5. VersionsHaveContent
  BY <1>1 DEF VersionsHaveContent
<1>6. Owned
  BY DEF FilesInit, Owned
<1>7. BesideFiles
  <2>1. MaxFileFaults \in Nat
    BY FileAssumption
  <2>2. (attached # {}) = FALSE
    BY DEF FilesInit
  <2>3. MarkedMeansAttached
    BY <2>2 DEF FilesInit, MarkedMeansAttached
  <2>4. {marked, messageUp, inChannel} \subseteq BOOLEAN
    BY DEF FilesInit
  <2>5. attached = {} /\ fileFaults = 0 /\ spoiled = {} /\ orphans = {}
    BY DEF FilesInit
  <2> QED
    BY <2>1, <2>3, <2>4, <2>5 DEF BesideFiles
<1> QED
  BY <1>2, <1>3, <1>4, <1>5, <1>6, <1>7 DEF FilesInv, HandsOfFiles

LEMMA FilesInvStep ==
    ASSUME FilesInv, [FilesNext]_fileVars
    PROVE  FilesInv'
<1>1. CASE UNCHANGED fileVars \/ AttachFile \/ LeaveOrDelete
  BY <1>1, QuietFiles, BesideFilesStays DEF FilesInv, fileVars, AttachFile, LeaveOrDelete
<1>2. ASSUME NEW h \in FileHandlers, FileStep(h) PROVE FilesInv'
  BY <1>2, HandlerKeepsHands, ContentStays, OwnersStay, BesideFilesStays DEF FilesInv
<1> QED
  BY <1>1, <1>2 DEF FilesNext, FileStep

LEMMA FilesInvSuffices == FilesInv => FilesAreWhole
<1> SUFFICES ASSUME FilesInv PROVE FilesAreWhole
  OBVIOUS
<1>1. FilesTypeOK
  BY DEF FilesInv, HandsOfFiles, FileRowsOK, FilesInHand, FileRequests, BesideFiles, FilesTypeOK
<1>2. LatestIsShown
  <2> SUFFICES ASSUME NEW f \in FileIds, Known(f)
               PROVE  /\ fileRow[f].object = Latest(f).key
                      /\ \A v, w \in fileRow[f].versions : v.number = w.number => v = w
    BY DEF LatestIsShown
  <2> QED
    BY LatestIsLast DEF FilesInv, HandsOfFiles, VersionsOf
<1>3. ObjectsHaveOwners
  <2> SUFFICES ASSUME NEW k \in stored \ orphans
               PROVE  \/ \E f \in FileIds : Known(f) /\ \E v \in fileRow[f].versions : v.key = k
                      \/ \E h \in FileHandlers : request[h].key = k
    BY DEF ObjectsHaveOwners
  <2>1. ASSUME NEW f \in FileIds, Wrote(f, k)
        PROVE  Known(f) /\ \E v \in fileRow[f].versions : v.key = k
    BY <2>1 DEF Wrote, VersionsOf
  <2> QED
    BY <2>1 DEF FilesInv, Owned
<1>4. DownloadsSucceed
  BY HandOfOne DEF FilesInv, HandsOfFiles, DownloadsSucceed, At, FileInHand
<1> QED
  BY <1>1, <1>2, <1>3, <1>4 DEF FilesInv, BesideFiles, FilesAreWhole

(* However uploads, downloads and attachments overlap and fail, a file     *)
(* shows its newest version, versions have their contents but where an     *)
(* error came after the commit, and objects without an owner were left by  *)
(* a fault.                                                                *)
THEOREM FilesAreWholeAlways == FilesSpec => []FilesAreWhole
<1>1. FilesInv /\ [FilesNext]_fileVars => FilesInv'
  BY FilesInvStep
<1> QED
  BY <1>1, FilesInvStarts, FilesInvSuffices, PTL DEF FilesSpec

(* What holds of files and bots together, as one request or another of     *)
(* theirs takes a step: whatever a message carries or a bot has posted is  *)
(* whole.                                                                  *)
THEOREM FilesAndBotsStayWhole == FilesSpec /\ BotsSpec => []FilesAndBotsAreWhole
  BY FilesAreWholeAlways, BotsAreWholeAlways, PTL DEF FilesAndBotsAreWhole
=============================================================================
