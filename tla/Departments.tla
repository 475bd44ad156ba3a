------------------------------ MODULE Departments ------------------------------
(***************************************************************************)
(* The tree of departments of a workspace and the channels filed under it. *)
(* Creating or moving a department is two statements: CanSetParent reads   *)
(* the tree, then the row is written, with no lock in between.  Deleting   *)
(* one is a transaction: the row is marked, its children move to the top,  *)
(* its channels are taken out, all of it is seen at the commit.  A channel *)
(* is put under a department without a look at it.                         *)
(***************************************************************************)
EXTENDS Naturals

CONSTANTS
    Depts,        \* rows of departments, made one after the other
    Chans,        \* channels of the workspace
    Editors,     \* goroutines that serve requests
    Top           \* no parent, no department

ASSUME DeptAssumption == Top \notin Depts

VARIABLES
    life, parent, \* department -> whether it is there, and its parent
    filed,        \* channel -> its department
    step,         \* what each goroutine is at,
    node, under,  \* with which department, to be put under which,
    kids, chans,  \* and which children and channels its deletion has moved
    fresh,        \* history: the check it has made has not been overtaken
    bent,         \* history: departments put where they do not fit, on a stale check
    strays        \* history: channels put under a department that was deleted then

tree == <<life, parent, bent>>
work == <<step, node, under, kids, chans, fresh>>
deptVars == <<tree, filed, work, strays>>

DeptInit ==
    /\ life = [d \in Depts |-> "none"] /\ parent = [d \in Depts |-> Top]
    /\ filed = [c \in Chans |-> Top]
    /\ step = [h \in Editors |-> "idle"]
    /\ node = [h \in Editors |-> Top] /\ under = [h \in Editors |-> Top]
    /\ kids = [h \in Editors |-> {}] /\ chans = [h \in Editors |-> {}]
    /\ fresh = [h \in Editors |-> FALSE]
    /\ bent = {} /\ strays = {}

LiveDepts == {d \in Depts : life[d] = "live"}
Unused == {d \in Depts : life[d] = "none"}
Deleting == {h \in Editors : step[h] \in {"children", "channels", "commit"}}
Doomed == {node[h] : h \in Deleting}
Locked == Doomed \cup UNION {kids[h] : h \in Deleting}
Filing == UNION {chans[h] : h \in Deleting}
NewIds == Unused \ {node[h] : h \in Editors}

(* Mutant: only the department itself is refused as its parent.            *)
CanSetParentButSelf(d, p) == p \in LiveDepts /\ p # d

(* The parent is live, is another and is no descendant: going up from it   *)
(* through live departments does not lead to the department.               *)
CanSetParent(d, p) ==
    /\ p \in LiveDepts
    /\ \E line \in SUBSET (LiveDepts \ {d}) :
          /\ p \in line
          /\ \A x \in line : parent[x] = Top \/ parent[x] \in line \/ parent[x] \notin LiveDepts \cup {d}

Fits(d, p) == CanSetParent(d, p) /\ p \notin Doomed

(* A commit, or the beginning of a deletion, overtakes every check.        *)
Overtake == fresh' = [h \in Editors |-> FALSE]

(* A request begins with a department, goes on, or is answered.            *)
Begin(h, s, d, p) ==
    /\ step[h] = "idle"
    /\ step' = [step EXCEPT ![h] = s]
    /\ node' = [node EXCEPT ![h] = d] /\ under' = [under EXCEPT ![h] = p]
    /\ UNCHANGED <<kids, chans>>

Done(h) ==
    /\ step' = [step EXCEPT ![h] = "idle"]
    /\ node' = [node EXCEPT ![h] = Top] /\ under' = [under EXCEPT ![h] = Top]
    /\ kids' = [kids EXCEPT ![h] = {}] /\ chans' = [chans EXCEPT ![h] = {}]

(* A department's row is written, with its parent.                         *)
Put(d, p, fits) ==
    /\ d \notin Locked
    /\ life' = [life EXCEPT ![d] = "live"] /\ parent' = [parent EXCEPT ![d] = p]
    /\ bent' = IF fits THEN bent \ {d} ELSE bent \cup {d}
    /\ Overtake

---------------------------------------------------------------------------
(* Create and Update with a parent: the check, ...                         *)
Check(h) ==
    /\ \E d \in NewIds \cup LiveDepts, p \in Depts :
          CanSetParent(d, p) /\ Begin(h, "write", d, p)
    /\ fresh' = [fresh EXCEPT ![h] = (Deleting = {})]
    /\ UNCHANGED <<tree, filed, strays>>

(* ... and the row; an update waits for a deletion that has locked it, and *)
(* finds no row when that has committed.                                   *)
Write(h) ==
    /\ step[h] = "write"
    /\ Done(h)
    /\ IF life[node[h]] = "gone"
       THEN fresh' = [fresh EXCEPT ![h] = FALSE] /\ UNCHANGED tree
       ELSE Put(node[h], under[h], fresh[h] \/ Fits(node[h], under[h]))
    /\ UNCHANGED <<filed, strays>>

(* Create and Update at the top need no check.                             *)
WriteTop(h) ==
    /\ step[h] = "idle"
    /\ \E d \in NewIds \cup LiveDepts : Put(d, Top, TRUE)
    /\ UNCHANGED <<filed, step, node, under, kids, chans, strays>>

---------------------------------------------------------------------------
(* Delete, one statement after the other; a row another transaction has    *)
(* locked is waited for.                                                   *)
Delete(h) ==
    /\ \E d \in LiveDepts \ Locked : Begin(h, "children", d, Top)
    /\ Overtake
    /\ UNCHANGED <<tree, filed, strays>>

(* Mutant: only the department is deleted.                                 *)
ChildrenNone(d) == {}

Children(d) == {x \in LiveDepts \ {d} : parent[x] = d}

FreeChildren(h) ==
    /\ step[h] = "children"
    /\ Children(node[h]) \cap Locked = {}
    /\ step' = [step EXCEPT ![h] = "channels"] /\ kids' = [kids EXCEPT ![h] = Children(node[h])]
    /\ UNCHANGED <<tree, filed, node, under, chans, fresh, strays>>

FreeChannels(h) ==
    /\ step[h] = "channels"
    /\ step' = [step EXCEPT ![h] = "commit"]
    /\ chans' = [chans EXCEPT ![h] = {c \in Chans : filed[c] = node[h]}]
    /\ UNCHANGED <<tree, filed, node, under, kids, fresh, strays>>

Commit(h) ==
    /\ step[h] = "commit"
    /\ life' = [life EXCEPT ![node[h]] = "gone"]
    /\ parent' = [x \in Depts |-> IF x \in kids[h] THEN Top ELSE parent[x]]
    /\ filed' = [c \in Chans |-> IF c \in chans[h] THEN Top ELSE filed[c]]
    /\ bent' = bent \ kids[h]
    /\ Done(h) /\ Overtake
    /\ UNCHANGED strays

(* A statement fails, or two deletions wait for each other.                *)
Rollback(h) ==
    /\ h \in Deleting
    /\ Done(h)
    /\ UNCHANGED <<tree, filed, fresh, strays>>

(* A channel is created in or moved to any department that ever was.       *)
FileChannel ==
    /\ \E c \in Chans \ Filing, d \in (Depts \ Unused) \cup {Top} :
          /\ filed' = [filed EXCEPT ![c] = d]
          /\ strays' = IF d \in LiveDepts \ Doomed \/ d = Top THEN strays \ {c} ELSE strays \cup {c}
    /\ UNCHANGED <<tree, work>>

DeptNext ==
    \/ FileChannel
    \/ \E h \in Editors :
          \/ Check(h) \/ Write(h) \/ WriteTop(h)
          \/ Delete(h) \/ FreeChildren(h) \/ FreeChannels(h) \/ Commit(h) \/ Rollback(h)

DeptSpec == DeptInit /\ [][DeptNext]_deptVars

---------------------------------------------------------------------------
DeptTypeOK ==
    /\ life \in [Depts -> {"none", "live", "gone"}] /\ parent \in [Depts -> Depts \cup {Top}]
    /\ filed \in [Chans -> Depts \cup {Top}]
    /\ step \in [Editors -> {"idle", "write", "children", "channels", "commit"}]
    /\ node \in [Editors -> Depts \cup {Top}] /\ under \in [Editors -> Depts \cup {Top}]
    /\ kids \in [Editors -> SUBSET Depts] /\ chans \in [Editors -> SUBSET Chans]
    /\ fresh \in [Editors -> BOOLEAN]
    /\ bent \subseteq Depts /\ strays \subseteq Chans
    /\ \A h \in Editors : step[h] # "idle" => node[h] \in Depts

(* Nothing that is live is left under a deleted department: not its        *)
(* children, not its channels, except those that were put there when it no *)
(* longer took them, on a stale check or with none.                        *)
NothingOrphaned ==
    /\ \A d \in LiveDepts \ bent : parent[d] = Top \/ parent[d] \in LiveDepts
    /\ \A c \in Chans \ strays : filed[c] = Top \/ filed[c] \in LiveDepts

(* Going up from a department ends at the top: where departments have each *)
(* their parent among themselves there is a circle, and one of them was    *)
(* put under its own descendant on a stale check.                          *)
NoCircle ==
    \A ring \in SUBSET Depts :
        ring # {} /\ (\A d \in ring : parent[d] \in ring) => ring \cap bent # {}

(* The tree of departments stays a tree, and nothing falls out of it.      *)
TreeIsWhole == DeptTypeOK /\ NothingOrphaned /\ NoCircle
=============================================================================
