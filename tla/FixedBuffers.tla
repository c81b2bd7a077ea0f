---------------------------- MODULE FixedBuffers ----------------------------
(***************************************************************************)
(* The indices of the buffers of one execution context of mode FIXED: the   *)
(* reads made inside it take one, and the reader gives one back.  Only      *)
(* UringioFile_read takes an index; every request of the context uses the   *)
(* memory of its first buffer, linear[0].buffer, and the payload remembers  *)
(* one index, that of the latest read, in buf_idx.  Tasks that have copied  *)
(* the context go on with requests after its block was left.                *)
(***************************************************************************)
EXTENDS BufferIndex, FiniteSets

CONSTANTS
    Reqs,       \* the requests that can be in flight together
    Hits,       \* the indices whose registered buffer holds linear[0].buffer
    Null        \* no request; a field of the payload that was not initialised

Request == [op : {"read", "recv"}, index : Idx, accepted : BOOLEAN]

ASSUME HitsAssumption == 0 \in Hits /\ Hits \subseteq 0 .. (IdxSize - 1)
ASSUME NullAssumption == Null \notin Idx \cup Request

VARIABLES
    reg,        \* the idx_registry of the payload
    buf_idx,    \* the buf_idx of the payload
    req,        \* the requests that use the payload
    open,       \* the block is open, and the kernel's table holds its buffers
    disturbed,  \* history: a read has failed or has overlapped another
    received    \* history: a receive has completed

vars == <<reg, buf_idx, req, open, disturbed, received>>

\* The block was entered.  create_buffer_payload has not set buf_idx.
Init ==
    /\ reg = buffer_idx_registry_create
    /\ buf_idx = Null
    /\ req = [r \in Reqs |-> Null]
    /\ open = TRUE
    /\ disturbed = FALSE
    /\ received = FALSE

Reads == {r \in Reqs : req[r] # Null /\ req[r].op = "read"}

\* UringioFile_read, read_dispatcher and uringio_read_fixed.  The kernel accepts the
\* SQE when its index is that of a buffer of the table around its address.
\* When the submission fails (ok is FALSE) the index is not given back.
Read(r, ok) ==
    LET index == get_buffer_idx(reg) IN
    /\ req[r] = Null
    /\ reg' = AfterGet(reg)
    /\ buf_idx' = index
    /\ req' = IF ok
                THEN [req EXCEPT ![r] = [op |-> "read", index |-> index,
                                         accepted |-> open /\ index \in Hits]]
                ELSE req
    /\ disturbed' = (disturbed \/ ~ok \/ Reads # {})
    /\ UNCHANGED <<open, received>>

\* UringioSocket_recv and UringioSocket_recvfrom take no index.
Recv(r) ==
    /\ req[r] = Null
    /\ req' = [req EXCEPT ![r] = [op |-> "recv", index |-> -1, accepted |-> TRUE]]
    /\ UNCHANGED <<reg, buf_idx, open, disturbed, received>>

\* Mutants: the index is not released; it is released in two places.
ReaderKeepsIndex == reg

ReaderReleasesTwice == release_buffer_idx(release_buffer_idx(reg, buf_idx), buf_idx)

\* on_uring_ready releases the index the payload remembers, whoever took it.
ReaderReleases == release_buffer_idx(reg, buf_idx)

\* on_uring_ready, cases READ, RECV and RECVMSG.
Complete(r) ==
    /\ req[r] # Null /\ req[r].accepted
    /\ reg' = ReaderReleases
    /\ req' = [req EXCEPT ![r] = Null]
    /\ received' = (received \/ req[r].op = "recv")
    /\ UNCHANGED <<buf_idx, open, disturbed>>

\* on_uring_ready, an error: nothing is released.
CompleteError(r) ==
    /\ req[r] # Null
    /\ req' = [req EXCEPT ![r] = Null]
    /\ disturbed' = (disturbed \/ req[r].op = "read")
    /\ UNCHANGED <<reg, buf_idx, open, received>>

\* Mutant: the index stack is not destroyed.
ExitKeepsIndices ==
    /\ open
    /\ open' = FALSE
    /\ UNCHANGED <<reg, buf_idx, req, disturbed, received>>

\* BufferModeCtx_exit.
ExitBlock ==
    /\ open
    /\ open' = FALSE
    /\ reg' = buffer_idx_registry_destroy(reg)
    /\ UNCHANGED <<buf_idx, req, disturbed, received>>

Next ==
    \/ \E r \in Reqs :
         \/ \E ok \in BOOLEAN : Read(r, ok)
         \/ Recv(r)
         \/ Complete(r)
         \/ CompleteError(r)
    \/ ExitBlock

Spec == Init /\ [][Next]_vars

-----------------------------------------------------------------------------
\* Type invariant: no sequence of reads, receives, errors and late completions
\* moves the stack outside its array, or pushes the buf_idx of a payload that has
\* made no read, which is not initialised.
TypeOK ==
    /\ reg \in IdxRegistries
    /\ buf_idx \in Idx \cup {Null}
    /\ req \in [Reqs -> Request \cup {Null}]
    /\ open \in BOOLEAN /\ disturbed \in BOOLEAN /\ received \in BOOLEAN

Conserved ==
    LET held == {req[r].index : r \in Reads} IN
    /\ \A j, k \in 0 .. reg.top :
          reg.available_indices[j] = reg.available_indices[k] => j = k
    /\ StackedIndices(reg) \cap held = {}
    /\ StackedIndices(reg) \cup held = 0 .. (IdxSize - 1)

\* As long as the reads of the context follow one another and none fails, and
\* nothing is received into its buffers, every index is either once on the stack
\* or in the hands of the read in flight: on_uring_ready gives back what
\* read_dispatcher took.
ConservedUntilDisturbed == open /\ ~disturbed /\ ~received => Conserved

\* Without receives the stack can only lose entries: one that on_uring_ready
\* pushes was taken by a read the kernel has accepted, so a read is refused an
\* index only when earlier reads hold or have lost them all.
FilesOnlyLose ==
    open /\ ~received =>
        reg.top + 1 + Cardinality({r \in Reads : req[r].accepted}) <= IdxSize

\* The requests that outlive the block do not touch the array it has freed.
LateCallsHarmless == [][~open => UNCHANGED reg]_vars
=============================================================================
