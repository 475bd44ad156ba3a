-------------------------------- MODULE Bots --------------------------------
(***************************************************************************)
(* A bot of a workspace: its installations, its messages and the versions  *)
(* of its flow, of which one is published.  Requests run statement by      *)
(* statement under READ COMMITTED: a statement sees what was committed     *)
(* when it started, waits for the rows and index entries of transactions   *)
(* that are still open, and then looks at the row again.                   *)
(***************************************************************************)
EXTENDS Naturals, FiniteSets, FiniteSetsExt

CONSTANTS
    FlowIds,        \* ids of flows
    BotHandlers,    \* handlers of requests
    BotChannels,    \* channels of the workspace
    MaxFlowEdits,   \* bound on edits of flows
    MaxBotFaults,   \* bound on failing statements
    NoFlow

VARIABLES
    flow,           \* id -> row of bot_flows
    botRequest,     \* handler -> its request and what its transaction holds
    installations,  \* channels the bot is installed in, or the workspace as a whole
    openChannels,   \* channels that are active
    posted,         \* messages of the bot with what was committed beside them
    flowEdits, botFaults

botVars == <<flow, botRequest, installations, openChannels, posted, flowEdits, botFaults>>

FlowRows ==
    [version : 1..Cardinality(FlowIds), status : {"draft", "published", "archived"},
     text : 0..MaxFlowEdits]

ASSUME FlowAssumption == /\ IsFiniteSet(FlowIds) /\ NoFlow \notin FlowRows
                         /\ MaxFlowEdits \in Nat /\ MaxBotFaults \in Nat

Everywhere == "workspace"
IdleBot == [pc |-> "free", target |-> NoFlow, number |-> 0, seen |-> {}, archived |-> {}, wrote |-> {}]
Flows == {f \in FlowIds : flow[f] # NoFlow}
Published == {f \in Flows : flow[f].status = "published"}

BotsInit ==
    /\ flow = [f \in FlowIds |-> NoFlow]
    /\ botRequest = [h \in BotHandlers |-> IdleBot]
    /\ installations = {} /\ openChannels = BotChannels /\ posted = {}
    /\ flowEdits = 0 /\ botFaults = 0

BotAt(h, pc) == botRequest[h].pc = pc
BotGoes(h, pc) == botRequest' = [botRequest EXCEPT ![h].pc = pc]
BotAnswers(h) == botRequest' = [botRequest EXCEPT ![h] = IdleBot]
BotFault == botFaults < MaxBotFaults /\ botFaults' = botFaults + 1

(* Rows a transaction other than h's has written and not yet committed.    *)
Publishes(h) == IF BotAt(h, "commit") THEN {botRequest[h].target} ELSE {}
Holds(h) == botRequest[h].archived \cup Publishes(h)
LockedFor(h, f) == \E other \in BotHandlers \ {h} : f \in Holds(other)

---------------------------------------------------------------------------
(* Flows are created with the next version their statement sees; two that  *)
(* see the same one collide, and the second is refused.                    *)
CreateStarts(h) ==
    /\ BotAt(h, "free") /\ Flows # FlowIds
    /\ botRequest' = [botRequest EXCEPT ![h] = [IdleBot EXCEPT !.pc = "create",
                         !.number = Max({0} \cup {flow[f].version : f \in Flows}) + 1]]
    /\ UNCHANGED <<flow, installations, openChannels, posted, flowEdits, botFaults>>

(* Mutant: versions need not be distinct.                                  *)
VersionFree(n) == TRUE

VersionUnused(n) == \A f \in Flows : flow[f].version # n

CreateFlow(h) ==
    LET n == botRequest[h].number IN
    /\ BotAt(h, "create")
    /\ \/ /\ VersionUnused(n)
          /\ \E f \in FlowIds \ Flows :
                flow' = [flow EXCEPT ![f] = [version |-> n, status |-> "draft", text |-> 0]]
       \/ (~VersionUnused(n) \/ Flows = FlowIds) /\ UNCHANGED flow
    /\ BotAnswers(h)
    /\ UNCHANGED <<installations, openChannels, posted, flowEdits, botFaults>>

(* Mutant: an update takes any flow.                                       *)
EditableAnyway(f) == f \in Flows

Editable(f) == f \in Flows /\ flow[f].status = "draft"

(* One statement; it waits for a row that a transaction has changed.       *)
UpdateFlow ==
    /\ flowEdits < MaxFlowEdits
    /\ \E f \in FlowIds :
          /\ Editable(f)
          /\ \A h \in BotHandlers : f \notin Holds(h)
          /\ flow' = [flow EXCEPT ![f].text = flowEdits + 1]
    /\ flowEdits' = flowEdits + 1
    /\ UNCHANGED <<botRequest, installations, openChannels, posted, botFaults>>

---------------------------------------------------------------------------
(* Publishing: archive what is published, then publish the flow, in one    *)
(* transaction.  The first statement starts with what it sees, ...         *)
PublishStarts(h) ==
    /\ BotAt(h, "free")
    /\ \E f \in FlowIds :
          botRequest' = [botRequest EXCEPT ![h] =
              [IdleBot EXCEPT !.pc = "archive", !.target = f, !.seen = Published]]
    /\ UNCHANGED <<flow, installations, openChannels, posted, flowEdits, botFaults>>

(* ... waits for its rows, and archives those that are still published.    *)
ArchivePublished(h) ==
    /\ BotAt(h, "archive")
    /\ \A f \in botRequest[h].seen : ~LockedFor(h, f)
    /\ botRequest' = [botRequest EXCEPT ![h].pc = "publish", ![h].seen = {},
                                        ![h].archived = botRequest[h].seen \cap Published]
    /\ UNCHANGED <<flow, installations, openChannels, posted, flowEdits, botFaults>>

(* Mutant: there is no index over the published flows of a bot.            *)
SecondAllowed(h) == FALSE

(* Another flow is published and this transaction has not archived it.     *)
SecondPublished(h) == Published \ (botRequest[h].archived \cup {botRequest[h].target}) # {}

(* The second statement waits for the flow's row and for any transaction   *)
(* that has published another or archived the published one.               *)
MustWait(h) ==
    /\ botRequest[h].target \in Flows
    /\ \/ LockedFor(h, botRequest[h].target)
       \/ \E other \in BotHandlers \ {h} :
             Publishes(other) \cup (botRequest[other].archived \cap Published) # {}

(* Mutant: a flow that does not exist is no error, the rest is committed.  *)
KnownAnyway(f) == TRUE

KnownFlow(f) == f \in Flows

PublishRow(h) ==
    /\ BotAt(h, "publish")
    /\ ~MustWait(h)
    /\ IF KnownFlow(botRequest[h].target) /\ ~SecondPublished(h) THEN BotGoes(h, "commit") ELSE BotAnswers(h)
    /\ UNCHANGED <<flow, installations, openChannels, posted, flowEdits, botFaults>>

PublishFlow(h) ==
    /\ BotAt(h, "commit")
    /\ flow' = [f \in FlowIds |->
           IF f = botRequest[h].target /\ f \in Flows THEN [flow[f] EXCEPT !.status = "published"]
           ELSE IF f \in botRequest[h].archived THEN [flow[f] EXCEPT !.status = "archived"] ELSE flow[f]]
    /\ \/ BotAnswers(h) /\ UNCHANGED botFaults
       \/ BotFault /\ BotAnswers(h)                              \* committed, the answer is lost
    /\ UNCHANGED <<installations, openChannels, posted, flowEdits>>

---------------------------------------------------------------------------
(* Installations: for an active channel, or for the workspace as a whole.  *)
Install ==
    /\ \E c \in (openChannels \cup {Everywhere}) \ installations :
          installations' = installations \cup {c}
    /\ UNCHANGED <<flow, botRequest, openChannels, posted, flowEdits, botFaults>>

(* Messages: the row, the search document and the event in one transaction.*)
MayPost(c) == c \in openChannels /\ installations \cap {c, Everywhere} # {}

PostMessage(h) ==
    /\ BotAt(h, "free")
    /\ \E c \in BotChannels :
          /\ MayPost(c)
          /\ \A p \in posted : p.channel # c                     \* bound: one message a channel
          /\ botRequest' = [botRequest EXCEPT ![h] = [IdleBot EXCEPT !.pc = "index", !.target = c, !.wrote = {"message"}]]
    /\ UNCHANGED <<flow, installations, openChannels, posted, flowEdits, botFaults>>

UpsertSearchDocument(h) ==
    /\ BotAt(h, "index")
    /\ botRequest' = [botRequest EXCEPT ![h].pc = "announce", ![h].wrote = @ \cup {"document"}]
    /\ UNCHANGED <<flow, installations, openChannels, posted, flowEdits, botFaults>>

InsertBotEvent(h) ==
    /\ BotAt(h, "announce")
    /\ botRequest' = [botRequest EXCEPT ![h].pc = "commitMessage", ![h].wrote = @ \cup {"event"}]
    /\ UNCHANGED <<flow, installations, openChannels, posted, flowEdits, botFaults>>

CommitMessage(h) ==
    /\ BotAt(h, "commitMessage")
    /\ posted' = posted \cup {[channel |-> botRequest[h].target, rows |-> botRequest[h].wrote]}
    /\ BotAnswers(h)
    /\ UNCHANGED <<flow, installations, openChannels, flowEdits, botFaults>>

ChannelArchived ==
    /\ \E c \in openChannels : openChannels' = openChannels \ {c}
    /\ UNCHANGED <<flow, botRequest, installations, posted, flowEdits, botFaults>>

(* Mutant: after a failed statement of a message the rest is still run.    *)
GivesUpLate(h) == IF BotAt(h, "index") THEN BotGoes(h, "announce") ELSE BotAnswers(h)

(* A statement fails, or a handler stops, or two wait for each other and   *)
(* the database ends one of them: the transaction leaves nothing.          *)
GivesUp(h) == BotAnswers(h)

BotStatementFails(h) ==
    /\ botRequest[h].pc # "free"
    /\ \/ BotFault
       \/ UNCHANGED botFaults /\ BotAt(h, "publish") /\ MustWait(h)
             /\ \E other \in BotHandlers \ {h} :
                   BotAt(other, "archive") /\ botRequest[other].seen \cap Holds(h) # {}
    /\ GivesUp(h)
    /\ UNCHANGED <<flow, installations, openChannels, posted, flowEdits>>

FlowsNext ==
    \/ UpdateFlow
    \/ \E h \in BotHandlers :
          \/ CreateStarts(h) \/ CreateFlow(h) \/ PublishStarts(h) \/ ArchivePublished(h)
          \/ PublishRow(h) \/ PublishFlow(h) \/ BotStatementFails(h)

PostsNext ==
    \/ Install \/ ChannelArchived
    \/ \E h \in BotHandlers :
          \/ PostMessage(h) \/ UpsertSearchDocument(h) \/ InsertBotEvent(h)
          \/ CommitMessage(h) \/ BotStatementFails(h)

BotsNext == FlowsNext \/ PostsNext

BotsSpec == BotsInit /\ [][BotsNext]_botVars

---------------------------------------------------------------------------
BotsTypeOK ==
    /\ flow \in [FlowIds -> FlowRows \cup {NoFlow}]
    /\ \A h \in BotHandlers : botRequest[h].archived \subseteq FlowIds
    /\ installations \subseteq BotChannels \cup {Everywhere} /\ openChannels \subseteq BotChannels
    /\ flowEdits \in 0..MaxFlowEdits /\ botFaults \in 0..MaxBotFaults

(* Two requests that publish, or create, at one time leave one published   *)
(* flow and versions that are all different.                               *)
OnePublished ==
    /\ Cardinality(Published) <= 1
    /\ \A f, g \in Flows : flow[f].version = flow[g].version => f = g

(* A message of a bot is searchable and announced, or not there at all.    *)
PostedWhole == \A p \in posted : p.rows = {"message", "document", "event"}

(* What holds of bots: one published flow, and messages posted as a whole.  *)
BotsAreWhole == BotsTypeOK /\ OnePublished /\ PostedWhole

(* Once a flow is published one stays published, also when publishing      *)
(* fails half-way or names a flow that is not there; and the text of a     *)
(* flow never changes after its publication began to be visible.           *)
FlowsArePreserved ==
    [][/\ Published # {} => Published' # {}
       /\ \A f \in Flows : flow[f].status # "draft" =>
             flow'[f].status # "draft" /\ flow'[f].text = flow[f].text]_botVars
============================================================================
