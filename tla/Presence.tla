------------------------------- MODULE Presence -------------------------------
(***************************************************************************)
(* Who is online (module presence): one row for a user and a device, which *)
(* has the socket of the last heartbeat.  Heartbeats of several tabs and   *)
(* devices, a late goodbye of a socket that was replaced, and the worker's *)
(* sweep of rows that have been silent come in any order.                  *)
(***************************************************************************)
EXTENDS Naturals, FiniteSets

CONSTANTS
    Persons, Devices, PresenceSockets,
    MaxBeats    \* bound: heartbeats

NoSocket == "none"
Shown == {"online", "away"}

ASSUME SocketAssumption == NoSocket \notin PresenceSockets
ASSUME BeatAssumption == MaxBeats \in Nat

VARIABLES
    seen,    \* user_presence: socket and status, by user and device
    silent,  \* rows whose last heartbeat is older than 90 seconds
    said,    \* history: what the socket of a user and device last told the server
    beats

presenceVars == <<seen, silent, said, beats>>

PresenceKeys == Persons \X Devices
NeverSeen == [socket |-> NoSocket, st |-> "none"]

PresenceTypeOK ==
    /\ seen \in [PresenceKeys -> [socket : PresenceSockets \cup {NoSocket},
                          st : Shown \cup {"none", "offline"}]]
    /\ silent \subseteq PresenceKeys
    /\ said \in [PresenceKeys \X PresenceSockets -> Shown \cup {"none", "offline"}]
    /\ beats \in 0..MaxBeats

PresenceInit ==
    /\ seen = [k \in PresenceKeys |-> NeverSeen] /\ silent = {}
    /\ said = [x \in PresenceKeys \X PresenceSockets |-> "none"] /\ beats = 0

-----------------------------------------------------------------------------
(* user_presence_socket_uidx: the row that has the socket.                 *)
RowOf(s) == {k \in PresenceKeys : seen[k].socket = s}

(* The INSERT ... ON CONFLICT (user_id, device_id) DO UPDATE.              *)
Taken(k, s) == RowOf(s) \ {k} # {}

(* After the violation, the UPDATE of the row that has the socket; it      *)
(* fails when the user has a row for the device already.                   *)
Moved(k, s, st) ==
    [j \in PresenceKeys |-> IF j = k THEN [socket |-> s, st |-> st]
                     ELSE IF j \in RowOf(s) THEN NeverSeen ELSE seen[j]]

(* Mutant: a goodbye is taken from any socket of the device.               *)
AnySocket(k, s) == seen[k].socket # NoSocket
OwnSocket(k, s) == seen[k].socket = s

Beats(k, s, st) ==
    beats < MaxBeats /\ beats' = beats + 1 /\ said' = [said EXCEPT ![<<k, s>>] = st]

(* Repository.Upsert, two statements in one action: a heartbeat that comes *)
(* between the violation and the UPDATE makes the UPDATE find no row, or   *)
(* fail, and then nothing is done.                                         *)
Upsert(k, s, st) ==
    /\ Beats(k, s, st)
    /\ \/ ~Taken(k, s) /\ seen' = [seen EXCEPT ![k] = [socket |-> s, st |-> st]]
       \/ Taken(k, s) /\ seen[k] = NeverSeen /\ seen' = Moved(k, s, st)
    /\ silent' = silent \ ({k} \cup RowOf(s))

(* A heartbeat that fails: the socket and the device have rows of their    *)
(* own, or a statement fails.                                              *)
HeartbeatFails ==
    beats < MaxBeats /\ beats' = beats + 1 /\ UNCHANGED <<seen, silent, said>>

(* Repository.markSocketOffline: only the row that still has the socket.   *)
MarkSocketOffline(k, s) ==
    /\ Beats(k, s, "offline")
    /\ IF OwnSocket(k, s)
       THEN seen' = [seen EXCEPT ![k].st = "offline"] /\ silent' = silent \ {k}
       ELSE UNCHANGED <<seen, silent>>

(* Service.Heartbeat of a member.                                          *)
Heartbeat ==
    \E k \in PresenceKeys, s \in PresenceSockets :
        \/ \E st \in Shown : Upsert(k, s, st)
        \/ MarkSocketOffline(k, s)

FallsSilent ==
    /\ \E k \in PresenceKeys : seen[k].st # "none" /\ silent' = silent \cup {k}
    /\ UNCHANGED <<seen, said, beats>>

(* The worker's job: MarkOfflineStale.                                     *)
CleanupStale ==
    /\ seen' = [k \in PresenceKeys |-> IF k \in silent /\ seen[k].st \in Shown
                               THEN [seen[k] EXCEPT !.st = "offline"] ELSE seen[k]]
    /\ UNCHANGED <<silent, said, beats>>

PresenceNext == Heartbeat \/ HeartbeatFails \/ FallsSilent \/ CleanupStale

PresenceSpec == PresenceInit /\ [][PresenceNext]_presenceVars

(* Service.List: who is shown to a member of the workspace.                *)
Listed == {k \in PresenceKeys : seen[k].st \in Shown}

-----------------------------------------------------------------------------
(* A socket has one row, and the row shows what its socket said last: a    *)
(* goodbye of a socket that was replaced takes nobody offline, and only a  *)
(* silence of 90 seconds does so otherwise.                                *)
PresenceIsTrue ==
    /\ PresenceTypeOK
    /\ \A s \in PresenceSockets : Cardinality(RowOf(s)) <= 1
    /\ \A k \in PresenceKeys \ silent : seen[k].socket # NoSocket =>
          seen[k].st = said[<<k, seen[k].socket>>]
    /\ \A k \in Listed : said[<<k, seen[k].socket>>] \in Shown
=============================================================================
