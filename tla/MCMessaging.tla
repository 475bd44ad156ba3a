------------------------------ MODULE MCMessaging ------------------------------
(* Two handlers over two messages with one client id: a sender who may pay   *)
(* for herself, and a manager with every right; the bot is installed later   *)
(* in the support channel, and is there from the start in others.  Messages  *)
(* are checked twice: sent, deleted, forwarded and answered by the bot; and  *)
(* sent, edited, deleted, pinned and reacted to where no bot answers.  The   *)
(* files that messages carry, the flows of a bot and the messages it posts   *)
(* have rows and requests of their own: a behaviour is one of a part, and    *)
(* the others stay as they start.                                            *)
EXTENDS Messaging, Files, Bots, TLC

CONSTANTS alice, bob

MCUsers == {alice, bob}
MCActs  == (alice :> {"send", "update", "react", "unreact", "forward", "move"})
           @@ (bob :> {"delete", "pin", "unpin"})

VARIABLE part

MCInit ==
    /\ part \in {"orders", "edits", "files", "flows", "posts"}
    /\ Init /\ FilesInit /\ BotsInit
    /\ installed \/ (part = "orders" /\ slug = "support")
    /\ part # "orders" => slug = "alert"

(* What the two parts of messages leave to each other.                       *)
NoEdits == pins' = {} /\ \A p \in Requests : req'[p].op \in {"none", "send", "delete"}
NoOrders == \A p \in Requests : pc'[p] \notin {"ask", "renew", "post"}

MCNext ==
    /\ UNCHANGED part
    /\ \/ /\ part \in {"orders", "edits"} /\ Next /\ UNCHANGED <<fileVars, botVars>>
          /\ part = "orders" => NoEdits
          /\ part = "edits" => NoOrders
       \/ part = "files" /\ FilesNext /\ UNCHANGED <<vars, botVars>>
       \/ part = "flows" /\ FlowsNext /\ UNCHANGED <<vars, fileVars>>
       \/ part = "posts" /\ PostsNext /\ UNCHANGED <<vars, fileVars>>

MCSpec == MCInit /\ [][MCNext]_<<vars, fileVars, botVars, part>>

(* What holds of files and of bots, for the run: a download that was        *)
(* granted finds its object, no object is left without an owner, one flow   *)
(* of a bot is published and its messages are posted as a whole.            *)
FilesAndBotsAreWhole == FilesAreWhole /\ BotsAreWhole

Symmetry == Permutations(Requests) \cup Permutations(FileHandlers)
=============================================================================
