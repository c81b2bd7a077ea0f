----------------------------- MODULE BufferIndex -----------------------------
(***************************************************************************)
(* FixedBufferIdxRegistry (src/buffer_controllers/buffer_index.c): the      *)
(* stack of the indices of the buffers an execution context of mode FIXED   *)
(* has registered with the kernel.  Its functions are operators on a        *)
(* record, as in Registry.                                                  *)
(***************************************************************************)
EXTENDS Integers

CONSTANTS
    Amount,             \* the number of buffers of the context's payload
    DefaultIdxSize      \* DEFAULT_BUFFER_IDX_REGISTRY_SIZE, when Amount is 0

ASSUME AmountAssumption == Amount \in Nat
ASSUME DefaultIdxSizeAssumption == DefaultIdxSize \in Nat \ {0}

IdxSize == IF Amount = 0 THEN DefaultIdxSize ELSE Amount

\* What get_buffer_idx returns: an index, or -1 when the stack is empty.
Idx == -1 .. (IdxSize - 1)

buffer_idx_registry_create ==
    [available_indices |-> [i \in 0 .. (IdxSize - 1) |-> i],
     top |-> IdxSize - 1,
     size |-> IdxSize]

\* The array is freed; no get and no release touches it any more.
buffer_idx_registry_destroy(reg) ==
    [available_indices |-> << >>, top |-> -1, size |-> 0]

\* The index get_buffer_idx returns, and the stack it leaves.
get_buffer_idx(reg) == IF reg.top < 0 THEN -1 ELSE reg.available_indices[reg.top]

AfterGet(reg) == IF reg.top < 0 THEN reg ELSE [reg EXCEPT !.top = @ - 1]

\* Mutant: no bound.
ReleaseUnbounded(reg, index) ==
    [reg EXCEPT !.top = @ + 1, !.available_indices[reg.top + 1] = index]

\* A release on a full stack, or on a destroyed one, does nothing and returns -1.
release_buffer_idx(reg, index) ==
    IF reg.top + 1 >= reg.size
      THEN reg
      ELSE [reg EXCEPT !.top = @ + 1, !.available_indices[reg.top + 1] = index]

-----------------------------------------------------------------------------
StackedIndices(reg) == {reg.available_indices[k] : k \in 0 .. reg.top}

\* The registries a payload of Amount buffers can have: live, or destroyed.
IdxRegistries ==
    UNION {[available_indices : [0 .. (n - 1) -> Idx],
            top : -1 .. (n - 1),
            size : {n}] : n \in {0, IdxSize}}
=============================================================================
