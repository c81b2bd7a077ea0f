------------------------------ MODULE SlotPool ------------------------------
(***************************************************************************)
(* What the registry promises to its callers, without stack or array: a     *)
(* pool of indices.  An index is handed out only while nobody holds it, and *)
(* it keeps the future it was handed out for until it is given back.        *)
(***************************************************************************)
CONSTANTS Index, Future, None

VARIABLE holder     \* holder[i]: the future that holds index i, or None

PoolInit == holder = [i \in Index |-> None]

Acquire(i, f) ==
    /\ holder[i] = None
    /\ holder' = [holder EXCEPT ![i] = f]

Release(i) ==
    /\ holder[i] # None
    /\ holder' = [holder EXCEPT ![i] = None]

PoolNext == \E i \in Index : Release(i) \/ \E f \in Future : Acquire(i, f)

PoolSpec == PoolInit /\ [][PoolNext]_holder
=============================================================================
