---------------------------- MODULE DurableQueue ----------------------------
(***************************************************************************)
(* What the transactional outbox promises the modules that write to it: an *)
(* at-least-once queue.  A recorded item stays queued until every consumer *)
(* has had it (done) or until it is given up (dead), and it is not left    *)
(* queued for ever.  With AllowReopen the promise is the weaker one that   *)
(* the code keeps when a worker outlives its lease: an item that was       *)
(* settled may change its mind, but never to "done" undelivered.           *)
(***************************************************************************)
CONSTANTS Items, AllowReopen

VARIABLES state, delivered

dqVars == <<state, delivered>>

DQTypeOK == /\ state \in [Items -> {"absent", "queued", "done", "dead"}]
            /\ delivered \subseteq Items

DQInit == /\ state = [i \in Items |-> "absent"]
          /\ delivered = {}

Put(i) == /\ state[i] = "absent"
          /\ state' = [state EXCEPT ![i] = "queued"]
          /\ UNCHANGED delivered

Deliver(i) == /\ state[i] = "queued" \/ (AllowReopen /\ state[i] = "dead")
              /\ delivered' = delivered \cup {i}
              /\ UNCHANGED state

Settle(i) == /\ state[i] = "queued"
             /\ \/ i \in delivered /\ state' = [state EXCEPT ![i] = "done"]
                \/ state' = [state EXCEPT ![i] = "dead"]
             /\ UNCHANGED delivered

Reopen(i) == /\ AllowReopen
             /\ state[i] \in {"done", "dead"}
             /\ \/ i \in delivered /\ state' = [state EXCEPT ![i] = "done"]
                \/ \E s \in {"queued", "dead"} : state' = [state EXCEPT ![i] = s]
             /\ UNCHANGED delivered

DQNext == \E i \in Items : Put(i) \/ Deliver(i) \/ Settle(i) \/ Reopen(i)

DQSafe == DQInit /\ [][DQNext]_dqVars

DQSpec == DQSafe /\ \A i \in Items : WF_dqVars(Settle(i))
=============================================================================
