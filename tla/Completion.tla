----------------------------- MODULE Completion -----------------------------
(***************************************************************************)
(* What uringio promises for a request, without slots, queues or buffers: a *)
(* call either raises or returns a future; the future is resolved at most   *)
(* once, and not before the kernel has finished with the request; a future  *)
(* that was cancelled stays cancelled.                                      *)
(***************************************************************************)
CONSTANT Request

VARIABLES
    state,      \* state[r]: what has become of the request
    finished    \* the requests the kernel has finished with

vars == <<state, finished>>

States == {"unused", "refused", "pending", "cancelled", "resolved"}

Started(r) == state[r] \notin {"unused", "refused"}

Init ==
    /\ state = [r \in Request |-> "unused"]
    /\ finished = {}

Refuse(r) ==
    /\ state[r] = "unused"
    /\ state' = [state EXCEPT ![r] = "refused"]
    /\ UNCHANGED finished

Start(r) ==
    /\ state[r] = "unused"
    /\ state' = [state EXCEPT ![r] = "pending"]
    /\ UNCHANGED finished

\* The kernel finishes a request, or all of them when the ring is destroyed.
Finish(S) ==
    /\ S # {}
    /\ \A r \in S : Started(r) /\ r \notin finished
    /\ finished' = finished \cup S
    /\ UNCHANGED state

Resolve(r) ==
    /\ state[r] = "pending"
    /\ r \in finished
    /\ state' = [state EXCEPT ![r] = "resolved"]
    /\ UNCHANGED finished

Cancel(r) ==
    /\ state[r] = "pending"
    /\ state' = [state EXCEPT ![r] = "cancelled"]
    /\ UNCHANGED finished

Next ==
    \/ \E r \in Request : Refuse(r) \/ Start(r) \/ Resolve(r) \/ Cancel(r)
    \/ \E S \in SUBSET Request : Finish(S)

Spec == Init /\ [][Next]_vars
=============================================================================
