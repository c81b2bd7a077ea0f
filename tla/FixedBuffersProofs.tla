------------------------- MODULE FixedBuffersProofs -------------------------
(***************************************************************************)
(* Proofs about the indices of a FIXED context, for any number of buffers,  *)
(* any set of requests and any layout of the registered buffers.            *)
(***************************************************************************)
EXTENDS FixedBuffers, FiniteSetTheorems, TLAPS

\* The registry while its block is open.
LiveRegistry ==
    [available_indices : [0 .. (IdxSize - 1) -> Idx],
     top : -1 .. (IdxSize - 1),
     size : {IdxSize}]

\* buffer_idx_registry_create allocates at least one entry.
LEMMA IdxSizePositive == IdxSize \in Nat \ {0}
BY AmountAssumption, DefaultIdxSizeAssumption DEF IdxSize

-----------------------------------------------------------------------------
(***************************************************************************)
(* The functions of buffer_index.c on a live registry.                      *)
(***************************************************************************)
LEMMA CreateLive ==
    /\ buffer_idx_registry_create \in LiveRegistry
    /\ buffer_idx_registry_create.top = IdxSize - 1
    /\ \A k \in 0 .. (IdxSize - 1) : buffer_idx_registry_create.available_indices[k] = k
BY IdxSizePositive DEF buffer_idx_registry_create, LiveRegistry, Idx

LEMMA GetLive ==
    ASSUME NEW q \in LiveRegistry
    PROVE  /\ AfterGet(q) \in LiveRegistry
           /\ get_buffer_idx(q) \in Idx
           /\ AfterGet(q).available_indices = q.available_indices
           /\ q.top < 0 => AfterGet(q) = q /\ get_buffer_idx(q) = -1
           /\ q.top >= 0 => /\ AfterGet(q).top = q.top - 1
                            /\ get_buffer_idx(q) = q.available_indices[q.top]
<1>1. /\ q.available_indices \in [0 .. (IdxSize - 1) -> Idx]
      /\ q.top \in -1 .. (IdxSize - 1)
  BY DEF LiveRegistry
<1>2. CASE q.top < 0
  BY <1>1, <1>2, IdxSizePositive DEF AfterGet, get_buffer_idx, Idx
<1>3. CASE ~(q.top < 0)
  <2>1. q.top \in 0 .. (IdxSize - 1) /\ q.top - 1 \in -1 .. (IdxSize - 1)
    BY <1>1, <1>3, IdxSizePositive
  <2>2. AfterGet(q) = [q EXCEPT !.top = q.top - 1]
    BY <1>3 DEF AfterGet
  <2>3. AfterGet(q) \in LiveRegistry /\ AfterGet(q).top = q.top - 1
        /\ AfterGet(q).available_indices = q.available_indices
    BY <2>1, <2>2 DEF LiveRegistry
  <2>4. get_buffer_idx(q) = q.available_indices[q.top] /\ get_buffer_idx(q) \in Idx
    BY <1>1, <1>3, <2>1 DEF get_buffer_idx
  <2> QED
    BY <1>1, <1>3, <2>3, <2>4, IdxSizePositive
<1> QED
  BY <1>2, <1>3

\* A release changes nothing when the stack is full, whatever is released.
LEMMA ReleaseFull ==
    ASSUME NEW q \in LiveRegistry, q.top = IdxSize - 1, NEW b
    PROVE  release_buffer_idx(q, b) = q
BY IdxSizePositive DEF LiveRegistry, release_buffer_idx

LEMMA ReleaseLive ==
    ASSUME NEW q \in LiveRegistry, NEW b \in Idx
    PROVE  /\ release_buffer_idx(q, b) \in LiveRegistry
           /\ release_buffer_idx(q, b).top \in {q.top, q.top + 1}
           /\ q.top < IdxSize - 1 =>
                /\ release_buffer_idx(q, b).top = q.top + 1
                /\ release_buffer_idx(q, b).available_indices
                     = [q.available_indices EXCEPT ![q.top + 1] = b]
<1>1. /\ q.available_indices \in [0 .. (IdxSize - 1) -> Idx]
      /\ q.top \in -1 .. (IdxSize - 1) /\ q.size = IdxSize
  BY DEF LiveRegistry
<1>2. CASE q.top + 1 >= q.size
  BY <1>1, <1>2, IdxSizePositive DEF release_buffer_idx
<1>3. CASE ~(q.top + 1 >= q.size)
  <2>1. q.top + 1 \in 0 .. (IdxSize - 1) /\ q.top + 1 \in -1 .. (IdxSize - 1)
    BY <1>1, <1>3, IdxSizePositive
  <2>2. release_buffer_idx(q, b)
          = [q EXCEPT !.top = q.top + 1, !.available_indices[q.top + 1] = b]
    BY <1>3 DEF release_buffer_idx
  <2>3. release_buffer_idx(q, b).top = q.top + 1
    BY <2>2 DEF LiveRegistry
  <2>4. release_buffer_idx(q, b).available_indices
          = [q.available_indices EXCEPT ![q.top + 1] = b]
    BY <2>2 DEF LiveRegistry
  <2>5. [q.available_indices EXCEPT ![q.top + 1] = b] \in [0 .. (IdxSize - 1) -> Idx]
    BY <1>1, <2>1
  <2>6. release_buffer_idx(q, b) \in LiveRegistry
    BY <2>1, <2>2, <2>5 DEF LiveRegistry
  <2> QED
    BY <2>3, <2>4, <2>6
<1> QED
  BY <1>2, <1>3

\* The registry that BufferModeCtx_exit leaves, which no get and no release changes.
Destroyed(q) == q = buffer_idx_registry_destroy(q)

LEMMA DestroyedStays ==
    ASSUME NEW q, Destroyed(q), NEW b
    PROVE  /\ AfterGet(q) = q /\ get_buffer_idx(q) = -1
           /\ release_buffer_idx(q, b) = q
<1>1. q.top = -1 /\ q.size = 0
  BY DEF Destroyed, buffer_idx_registry_destroy
<1> QED
  BY <1>1 DEF AfterGet, get_buffer_idx, release_buffer_idx

-----------------------------------------------------------------------------
(***************************************************************************)
(* Types.  The payload that has made no read has an uninitialised buf_idx;  *)
(* it is never pushed because the stack is still full then.                 *)
(***************************************************************************)
TypeInv ==
    /\ open => /\ reg \in LiveRegistry
               /\ buf_idx = Null => reg.top = IdxSize - 1
    /\ ~open => Destroyed(reg)
    /\ buf_idx \in Idx \cup {Null}
    /\ req \in [Reqs -> Request \cup {Null}]
    /\ open \in BOOLEAN /\ disturbed \in BOOLEAN /\ received \in BOOLEAN

LEMMA TypeInvInit == Init => TypeInv
BY CreateLive, IdxSizePositive DEF Init, TypeInv

LEMMA RegistryOfRead ==
    ASSUME TypeInv, reg' = AfterGet(reg), buf_idx' = get_buffer_idx(reg), open' = open
    PROVE  /\ open' => /\ reg' \in LiveRegistry
                       /\ buf_idx' = Null => reg'.top = IdxSize - 1
           /\ ~open' => Destroyed(reg)' /\ reg' = reg
           /\ buf_idx' \in Idx
<1>1. CASE open
  BY <1>1, GetLive, NullAssumption DEF TypeInv
<1>2. CASE ~open
  <2>1. reg' = reg /\ buf_idx' = -1
    BY <1>2, DestroyedStays DEF TypeInv
  <2>2. -1 \in Idx
    BY IdxSizePositive DEF Idx
  <2> QED
    BY <1>2, <2>1, <2>2 DEF TypeInv, Destroyed, buffer_idx_registry_destroy
<1> QED
  BY <1>1, <1>2

LEMMA RegistryOfComplete ==
    ASSUME TypeInv, reg' = ReaderReleases, buf_idx' = buf_idx, open' = open
    PROVE  /\ open' => /\ reg' \in LiveRegistry
                       /\ buf_idx' = Null => reg'.top = IdxSize - 1
                       /\ reg'.top \in {reg.top, reg.top + 1}
           /\ ~open' => Destroyed(reg)' /\ reg' = reg
<1>1. CASE open /\ buf_idx = Null
  BY <1>1, ReleaseFull DEF TypeInv, ReaderReleases
<1>2. CASE open /\ buf_idx # Null
  BY <1>2, ReleaseLive DEF TypeInv, ReaderReleases
<1>3. CASE ~open
  BY <1>3, DestroyedStays DEF TypeInv, ReaderReleases, Destroyed, buffer_idx_registry_destroy
<1> QED
  BY <1>1, <1>2, <1>3

LEMMA TypeInvStep == TypeInv /\ [Next]_vars => TypeInv'
<1> SUFFICES ASSUME TypeInv, [Next]_vars PROVE TypeInv'
  OBVIOUS
<1>1. CASE UNCHANGED vars
  BY <1>1 DEF TypeInv, vars, Destroyed, buffer_idx_registry_destroy
<1>2. ASSUME NEW r \in Reqs, NEW ok \in BOOLEAN, Read(r, ok) PROVE TypeInv'
  <2>1. [op |-> "read", index |-> get_buffer_idx(reg),
         accepted |-> open /\ get_buffer_idx(reg) \in Hits] \in Request
    BY <1>2, RegistryOfRead DEF Read, Request
  <2>2. req' \in [Reqs -> Request \cup {Null}]
    BY <1>2, <2>1 DEF Read, TypeInv
  <2>3. disturbed' \in BOOLEAN
    BY <1>2 DEF Read, TypeInv
  <2> QED
    BY <1>2, <2>2, <2>3, RegistryOfRead DEF Read, TypeInv
<1>3. ASSUME NEW r \in Reqs, Recv(r) PROVE TypeInv'
  <2>1. [op |-> "recv", index |-> -1, accepted |-> TRUE] \in Request
    BY IdxSizePositive DEF Request, Idx
  <2> QED
    BY <1>3, <2>1 DEF Recv, TypeInv, Destroyed, buffer_idx_registry_destroy
<1>4. ASSUME NEW r \in Reqs, Complete(r) PROVE TypeInv'
  BY <1>4, RegistryOfComplete DEF Complete, TypeInv
<1>5. ASSUME NEW r \in Reqs, CompleteError(r) PROVE TypeInv'
  BY <1>5 DEF CompleteError, TypeInv, Destroyed, buffer_idx_registry_destroy
<1>6. CASE ExitBlock
  BY <1>6 DEF ExitBlock, TypeInv, Destroyed, buffer_idx_registry_destroy
<1> QED
  BY <1>1, <1>2, <1>3, <1>4, <1>5, <1>6 DEF Next

LEMMA TypeInvImplies == TypeInv => TypeOK
<1> SUFFICES ASSUME TypeInv PROVE reg \in IdxRegistries
  BY DEF TypeInv, TypeOK
<1>1. CASE open
  BY <1>1 DEF TypeInv, LiveRegistry, IdxRegistries
<1>2. CASE ~open
  <2>1. reg = [available_indices |-> << >>, top |-> -1, size |-> 0]
    BY <1>2 DEF TypeInv, Destroyed, buffer_idx_registry_destroy
  <2>2. << >> \in [0 .. (0 - 1) -> Idx] /\ -1 \in -1 .. (0 - 1)
    OBVIOUS
  <2> QED
    BY <2>1, <2>2 DEF IdxRegistries
<1> QED
  BY <1>1, <1>2 DEF TypeInv

\* No sequence of reads, receives, errors and late completions moves the stack of
\* buffer_index.c outside its array or pushes an uninitialised buf_idx.
THEOREM FixedTypeCorrect == Spec => []TypeOK
BY TypeInvInit, TypeInvStep, TypeInvImplies, PTL DEF Spec

\* Requests that outlive the block leave the registry that BufferModeCtx_exit has
\* destroyed as it is: get_buffer_idx finds it empty and release_buffer_idx full.
THEOREM LateCallsAreHarmless == Spec => LateCallsHarmless
<1>1. TypeInv /\ [Next]_vars => [~open => UNCHANGED reg]_vars
  <2> SUFFICES ASSUME TypeInv, Next, ~open PROVE reg' = reg
    BY DEF vars
  <2>1. ASSUME NEW r \in Reqs, NEW ok \in BOOLEAN, Read(r, ok) PROVE reg' = reg
    BY <2>1, RegistryOfRead DEF Read
  <2>2. ASSUME NEW r \in Reqs, Complete(r) PROVE reg' = reg
    BY <2>2, RegistryOfComplete DEF Complete
  <2> QED
    BY <2>1, <2>2 DEF Next, Recv, CompleteError, ExitBlock
<1> QED
  BY <1>1, TypeInvInit, TypeInvStep, PTL DEF Spec, LateCallsHarmless

-----------------------------------------------------------------------------
(***************************************************************************)
(* Counting.  Every accepted read has taken an entry off the stack; what    *)
(* the reader pushes for one read it pushes while that read is counted.     *)
(***************************************************************************)
Accepted == {r \in Reads : req[r].accepted}

LoseInv == TypeInv /\ IsFiniteSet(Accepted) /\ FilesOnlyLose

LEMMA CountLess ==
    ASSUME NEW S, IsFiniteSet(S), NEW T \in SUBSET S
    PROVE  IsFiniteSet(T) /\ Cardinality(T) <= Cardinality(S)
           /\ Cardinality(S) \in Nat /\ Cardinality(T) \in Nat
BY FS_Subset, FS_CardinalityType

LEMMA LoseStep == LoseInv /\ [Next]_vars => LoseInv'
<1> SUFFICES ASSUME LoseInv, [Next]_vars PROVE LoseInv'
  OBVIOUS
<1>0. TypeInv /\ TypeInv' /\ IsFiniteSet(Accepted) /\ Cardinality(Accepted) \in Nat
  BY TypeInvStep, FS_CardinalityType DEF LoseInv
<1>a. open => reg.top \in -1 .. (IdxSize - 1)
  BY <1>0 DEF TypeInv, LiveRegistry
<1>b. open' => reg'.top \in -1 .. (IdxSize - 1)
  BY <1>0 DEF TypeInv, LiveRegistry
<1>c. open /\ ~received => reg.top + 1 + Cardinality(Accepted) <= IdxSize
  BY DEF LoseInv, FilesOnlyLose, Accepted
<1> SUFFICES /\ IsFiniteSet(Accepted')
             /\ open' /\ ~received' => reg'.top + 1 + Cardinality(Accepted') <= IdxSize
  BY <1>0 DEF LoseInv, FilesOnlyLose, Accepted
<1>1. CASE UNCHANGED vars
  BY <1>0, <1>1, <1>c DEF vars, Accepted, Reads
<1>2. ASSUME NEW r \in Reqs, NEW ok \in BOOLEAN, Read(r, ok)
      PROVE  /\ IsFiniteSet(Accepted')
             /\ open' /\ ~received' => reg'.top + 1 + Cardinality(Accepted') <= IdxSize
  <2>0. open' = open /\ received' = received /\ r \notin Accepted
    BY <1>2 DEF Read, Accepted, Reads
  <2>1. CASE open /\ get_buffer_idx(reg) \in Hits
    <3>1. reg.top >= 0 /\ reg'.top = reg.top - 1
      <4>1. get_buffer_idx(reg) \in 0 .. (IdxSize - 1)
        BY <2>1, HitsAssumption
      <4>2. reg \in LiveRegistry /\ reg' = AfterGet(reg)
        BY <1>0, <1>2, <2>1 DEF TypeInv, Read
      <4> QED
        BY <1>a, <2>1, <4>1, <4>2, GetLive, IdxSizePositive
    <3>2. Accepted' \subseteq Accepted \cup {r}
      BY <1>0, <1>2 DEF Read, Accepted, Reads, TypeInv
    <3>3. IsFiniteSet(Accepted \cup {r})
          /\ Cardinality(Accepted \cup {r}) = Cardinality(Accepted) + 1
      BY <1>0, <2>0, FS_AddElement
    <3>4. IsFiniteSet(Accepted') /\ Cardinality(Accepted') \in Nat
          /\ Cardinality(Accepted') <= Cardinality(Accepted) + 1
      BY <3>2, <3>3, CountLess
    <3> QED
      BY <1>0, <1>a, <1>c, <2>0, <3>1, <3>4, IdxSizePositive
  <2>2. CASE ~(open /\ get_buffer_idx(reg) \in Hits)
    <3>1. Accepted' \subseteq Accepted
      BY <1>0, <1>2, <2>2 DEF Read, Accepted, Reads, TypeInv
    <3>2. IsFiniteSet(Accepted') /\ Cardinality(Accepted') \in Nat
          /\ Cardinality(Accepted') <= Cardinality(Accepted)
      BY <1>0, <3>1, CountLess
    <3>3. open => reg'.top <= reg.top
      <4>1. open => reg' = AfterGet(reg) /\ reg \in LiveRegistry
        BY <1>0, <1>2 DEF Read, TypeInv
      <4>2. open => reg'.top = reg.top \/ reg'.top = reg.top - 1
        BY <1>a, <4>1, GetLive, IdxSizePositive
      <4> QED
        BY <1>a, <1>b, <2>0, <4>2, IdxSizePositive
    <3> QED
      BY <1>0, <1>a, <1>b, <1>c, <2>0, <3>2, <3>3, IdxSizePositive
  <2> QED
    BY <2>1, <2>2
<1>3. ASSUME NEW r \in Reqs, Recv(r)
      PROVE  /\ IsFiniteSet(Accepted')
             /\ open' /\ ~received' => reg'.top + 1 + Cardinality(Accepted') <= IdxSize
  <2>1. Accepted' = Accepted
    BY <1>0, <1>3 DEF Recv, Accepted, Reads, TypeInv
  <2> QED
    BY <1>0, <1>3, <1>c, <2>1 DEF Recv
<1>4. ASSUME NEW r \in Reqs, Complete(r)
      PROVE  /\ IsFiniteSet(Accepted')
             /\ open' /\ ~received' => reg'.top + 1 + Cardinality(Accepted') <= IdxSize
  <2>0. open' = open /\ (~received' => ~received /\ r \in Accepted)
    BY <1>0, <1>4, NullAssumption DEF Complete, Accepted, Reads, TypeInv, Request
  <2>1. Accepted' = Accepted \ {r}
    BY <1>0, <1>4 DEF Complete, Accepted, Reads, TypeInv
  <2>2. IsFiniteSet(Accepted')
    BY <1>0, <2>1, FS_RemoveElement
  <2>3. r \in Accepted => Cardinality(Accepted') = Cardinality(Accepted) - 1
    BY <1>0, <2>1, FS_RemoveElement
  <2>4. open => reg'.top \in {reg.top, reg.top + 1}
    BY <1>0, <1>4, <2>0, RegistryOfComplete DEF Complete
  <2> QED
    BY <1>0, <1>a, <1>c, <2>0, <2>2, <2>3, <2>4, IdxSizePositive
<1>5. ASSUME NEW r \in Reqs, CompleteError(r)
      PROVE  /\ IsFiniteSet(Accepted')
             /\ open' /\ ~received' => reg'.top + 1 + Cardinality(Accepted') <= IdxSize
  <2>1. Accepted' \subseteq Accepted
    BY <1>0, <1>5 DEF CompleteError, Accepted, Reads, TypeInv
  <2>2. IsFiniteSet(Accepted') /\ Cardinality(Accepted') \in Nat
        /\ Cardinality(Accepted') <= Cardinality(Accepted)
    BY <1>0, <2>1, CountLess
  <2> QED
    BY <1>0, <1>5, <1>a, <1>c, <2>2, IdxSizePositive DEF CompleteError
<1>6. CASE ExitBlock
  BY <1>0, <1>6 DEF ExitBlock, Accepted, Reads
<1> QED
  BY <1>1, <1>2, <1>3, <1>4, <1>5, <1>6 DEF Next

\* As long as nothing is received into the buffers, on_uring_ready pushes no more
\* indices than the accepted reads have taken: the stack only loses entries.
THEOREM FilesLoseOnly == Spec => []FilesOnlyLose
<1>1. Init => LoseInv
  <2> SUFFICES ASSUME Init PROVE LoseInv
    OBVIOUS
  <2>1. Accepted = {}
    BY DEF Init, Accepted, Reads
  <2>2. IsFiniteSet(Accepted) /\ Cardinality(Accepted) = 0
    BY <2>1, FS_EmptySet
  <2>3. reg.top = IdxSize - 1
    BY CreateLive DEF Init
  <2> QED
    BY <2>2, <2>3, TypeInvInit, IdxSizePositive DEF LoseInv, FilesOnlyLose, Accepted
<1> QED
  BY <1>1, LoseStep, PTL DEF Spec, LoseInv

-----------------------------------------------------------------------------
(***************************************************************************)
(* Conservation.  Up to the first overlap, error or receive at most one     *)
(* read is in flight, it is the one whose index buf_idx remembers, and the  *)
(* stack lacks exactly that index.                                          *)
(***************************************************************************)
Quiet == open /\ ~disturbed /\ ~received

OneReadInv ==
    Quiet =>
        /\ \A r, s \in Reads : r = s
        /\ \A r \in Reads : req[r].index = buf_idx /\ reg.top = IdxSize - 2
        /\ Reads = {} => reg.top = IdxSize - 1

ConservedInv == TypeInv /\ OneReadInv /\ ConservedUntilDisturbed

LEMMA ConservedStep == ConservedInv /\ [Next]_vars => ConservedInv'
<1> SUFFICES ASSUME ConservedInv, [Next]_vars PROVE ConservedInv'
  OBVIOUS
<1>0. TypeInv /\ TypeInv'
  BY TypeInvStep DEF ConservedInv
<1> SUFFICES ASSUME Quiet' PROVE OneReadInv' /\ Conserved'
  BY <1>0 DEF ConservedInv, OneReadInv, ConservedUntilDisturbed, Quiet
<1>q. Quiet
  BY <1>0 DEF Next, Quiet, vars, Read, Recv, Complete, CompleteError, ExitBlock, TypeInv
<1>a. reg.top \in -1 .. (IdxSize - 1) /\ reg.available_indices \in [0 .. (IdxSize - 1) -> Idx]
      /\ reg \in LiveRegistry
  BY <1>0, <1>q DEF TypeInv, LiveRegistry, Quiet
<1>b. /\ \A r, s \in Reads : r = s
      /\ \A r \in Reads : req[r].index = buf_idx /\ reg.top = IdxSize - 2
      /\ Reads = {} => reg.top = IdxSize - 1
  BY <1>q DEF ConservedInv, OneReadInv
<1>c. Conserved
  BY <1>q DEF ConservedInv, ConservedUntilDisturbed, Quiet
<1>1. CASE UNCHANGED vars
  BY <1>1, <1>b, <1>c DEF vars, OneReadInv, Conserved, Reads, StackedIndices
<1>2. ASSUME NEW r \in Reqs, NEW ok \in BOOLEAN, Read(r, ok)
      PROVE  OneReadInv' /\ Conserved'
  <2>1. Reads = {} /\ ok
    BY <1>2 DEF Quiet, Read
  <2>2. reg.top = IdxSize - 1 /\ reg.top >= 0
    BY <1>b, <2>1, IdxSizePositive
  <2>3. /\ reg'.top = IdxSize - 2
        /\ reg'.available_indices = reg.available_indices
        /\ buf_idx' = reg.available_indices[reg.top]
    BY <1>2, <1>a, <2>2, GetLive, IdxSizePositive DEF Read
  <2>4. Reads' = {r} /\ req'[r].index = buf_idx'
    <3> DEFINE new == [op |-> "read", index |-> get_buffer_idx(reg),
                       accepted |-> open /\ get_buffer_idx(reg) \in Hits]
    <3>1. new \in Request
      BY <1>a, GetLive DEF Request
    <3>2. req' = [req EXCEPT ![r] = new] /\ new # Null
      BY <1>2, <2>1, <3>1, NullAssumption DEF Read
    <3> QED
      BY <1>0, <1>2, <2>1, <3>2 DEF Read, Reads, TypeInv
  <2>5. OneReadInv'
    BY <2>3, <2>4 DEF OneReadInv
  <2>6. {req[s].index : s \in Reads}' = {buf_idx'}
    BY <2>4
  <2>7. Conserved'
    <3>1. 0 .. reg'.top = (0 .. reg.top) \ {reg.top} /\ reg.top \in 0 .. reg.top
      BY <2>2, <2>3, IdxSizePositive
    <3>2. StackedIndices(reg) = 0 .. (IdxSize - 1)
      BY <1>c, <2>1 DEF Conserved
    <3>3. \A j, k \in 0 .. reg.top :
            reg.available_indices[j] = reg.available_indices[k] => j = k
      BY <1>c DEF Conserved
    <3>4. StackedIndices(reg)' = (0 .. (IdxSize - 1)) \ {buf_idx'}
      BY <2>3, <3>1, <3>2, <3>3 DEF StackedIndices
    <3>5. buf_idx' \in 0 .. (IdxSize - 1)
      BY <2>3, <3>1, <3>2 DEF StackedIndices
    <3>6. \A j, k \in 0 .. reg'.top :
            reg'.available_indices[j] = reg'.available_indices[k] => j = k
      BY <2>3, <3>1, <3>3
    <3> QED
      BY <2>6, <3>4, <3>5, <3>6 DEF Conserved
  <2> QED
    BY <2>5, <2>7
<1>3. ASSUME NEW r \in Reqs, Recv(r) PROVE OneReadInv' /\ Conserved'
  <2>1. Reads' = Reads /\ \A s \in Reads : req'[s] = req[s]
    BY <1>0, <1>3 DEF Recv, Reads, TypeInv
  <2> QED
    BY <1>3, <2>1, <1>b, <1>c DEF Recv, OneReadInv, Conserved, StackedIndices
<1>4. ASSUME NEW r \in Reqs, Complete(r) PROVE OneReadInv' /\ Conserved'
  <2>1. r \in Reads
    <3>1. req[r] \in Request /\ req[r].op # "recv"
      BY <1>0, <1>4 DEF Complete, Quiet, TypeInv
    <3> QED
      BY <1>4, <3>1 DEF Complete, Reads, Request
  <2>2. Reads = {r} /\ Reads' = {}
    BY <1>0, <1>4, <1>b, <2>1 DEF Complete, Reads, TypeInv
  <2>3. buf_idx = req[r].index /\ reg.top = IdxSize - 2
    BY <1>b, <2>1
  <2>4. /\ buf_idx \in 0 .. (IdxSize - 1)
        /\ StackedIndices(reg) = (0 .. (IdxSize - 1)) \ {buf_idx}
        /\ \A j, k \in 0 .. reg.top :
              reg.available_indices[j] = reg.available_indices[k] => j = k
    BY <1>c, <2>2, <2>3 DEF Conserved
  <2>5. /\ reg'.top = reg.top + 1
        /\ reg'.available_indices = [reg.available_indices EXCEPT ![reg.top + 1] = buf_idx]
    <3>1. buf_idx \in Idx /\ reg.top < IdxSize - 1
      BY <2>3, <2>4, IdxSizePositive DEF Idx
    <3> QED
      BY <1>4, <1>a, <3>1, ReleaseLive DEF Complete, ReaderReleases
  <2>6. OneReadInv'
    BY <2>2, <2>3, <2>5, IdxSizePositive DEF OneReadInv
  <2>7. Conserved'
    <3>1. /\ 0 .. reg'.top = (0 .. reg.top) \cup {reg.top + 1}
          /\ reg.top + 1 \notin 0 .. reg.top
          /\ reg.top + 1 \in 0 .. (IdxSize - 1)
          /\ 0 .. reg.top \subseteq 0 .. (IdxSize - 1)
      BY <1>a, <2>3, <2>5, IdxSizePositive
    <3>2. \A k \in 0 .. reg.top : /\ reg'.available_indices[k] = reg.available_indices[k]
                                  /\ reg.available_indices[k] # buf_idx
      BY <1>a, <2>4, <2>5, <3>1 DEF StackedIndices
    <3>3. reg'.available_indices[reg.top + 1] = buf_idx
      BY <1>a, <2>5, <3>1
    <3>4. StackedIndices(reg)' = 0 .. (IdxSize - 1)
      BY <2>4, <3>1, <3>2, <3>3 DEF StackedIndices
    <3>5. \A j, k \in 0 .. reg'.top :
            reg'.available_indices[j] = reg'.available_indices[k] => j = k
      BY <2>4, <3>1, <3>2, <3>3
    <3> QED
      BY <2>2, <3>4, <3>5 DEF Conserved
  <2> QED
    BY <2>6, <2>7
<1>5. ASSUME NEW r \in Reqs, CompleteError(r) PROVE OneReadInv' /\ Conserved'
  <2>1. r \notin Reads
    BY <1>5 DEF CompleteError, Quiet, Reads
  <2>2. Reads' = Reads /\ \A s \in Reads : req'[s] = req[s]
    BY <1>0, <1>5, <2>1 DEF CompleteError, Reads, TypeInv
  <2> QED
    BY <1>5, <2>2, <1>b, <1>c DEF CompleteError, OneReadInv, Conserved, StackedIndices
<1>6. CASE ExitBlock
  BY <1>6 DEF ExitBlock, Quiet
<1> QED
  BY <1>1, <1>2, <1>3, <1>4, <1>5, <1>6 DEF Next

\* While the reads of a context follow one another without an error, and nothing is
\* received into its buffers, on_uring_ready gives back exactly the index that
\* read_dispatcher took, and no index is lost or stacked twice.
THEOREM IndicesConserved == Spec => []ConservedUntilDisturbed
<1>1. Init => ConservedInv
  <2> SUFFICES ASSUME Init PROVE ConservedInv
    OBVIOUS
  <2>1. Reads = {}
    BY DEF Init, Reads
  <2>2. reg.top = IdxSize - 1 /\ \A k \in 0 .. reg.top : reg.available_indices[k] = k
    BY CreateLive DEF Init
  <2>3. StackedIndices(reg) = 0 .. (IdxSize - 1)
    BY <2>2 DEF StackedIndices
  <2>4. Conserved
    BY <2>1, <2>2, <2>3 DEF Conserved
  <2> QED
    BY <2>1, <2>2, <2>4, TypeInvInit DEF ConservedInv, OneReadInv, ConservedUntilDisturbed
<1> QED
  BY <1>1, ConservedStep, PTL DEF Spec, ConservedInv
=============================================================================
