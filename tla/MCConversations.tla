---------------------------- MODULE MCConversations ----------------------------
(* An administrator and a member of the workspace, two handlers, one socket  *)
(* that either may use.  Conversations are checked twice: contacts and what  *)
(* they open, where there is no group channel; and the group channel, where  *)
(* nobody asks for a contact.  The tree of departments, which channels are   *)
(* filed under, has rows and requests of its own: a behaviour is one of a    *)
(* part, and the others stay as they start.                                  *)
EXTENDS Conversations, Departments, TLC

VARIABLE part

MCVars == <<vars, deptVars, part>>

MCInit == part \in {"private", "group", "tree"} /\ Init /\ DeptInit /\ (public => part = "group")

MCNext ==
    \/ /\ part \in {"private", "group"} /\ Next /\ UNCHANGED <<deptVars, part>>
       /\ part = "private" => owner' = Nobody /\ calls' < MaxCalls
       /\ part = "group" => UNCHANGED <<cards, guides>> /\ \A p \in Handlers : pc'[p] # "lock"
    \/ part = "tree" /\ DeptNext /\ UNCHANGED <<vars, part>>

MCSpec == MCInit /\ [][MCNext]_MCVars

Symmetry == Permutations(Handlers)
=============================================================================
