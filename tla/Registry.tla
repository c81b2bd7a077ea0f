------------------------------ MODULE Registry ------------------------------
(***************************************************************************)
(* The request registry of uringio (src/registry/registry.c): an array of   *)
(* slots and a LIFO stack of the free slot indices.  The index of a slot is *)
(* the user_data of the SQE of its request.  The functions of registry.c    *)
(* are operators on a registry record; the state machines that call them    *)
(* keep the record in a variable.                                           *)
(***************************************************************************)
EXTENDS Integers

CONSTANTS
    RegistrySize,        \* the registry_size argument of UringioLoop(...)
    DefaultRegistrySize, \* DEFAULT_REGISTRY_SIZE, used when the argument is 0
    Null                 \* the NULL pointer

ASSUME RegistrySizeAssumption == RegistrySize \in Nat
ASSUME DefaultSizeAssumption == DefaultRegistrySize \in Nat \ {0}

Size == IF RegistrySize = 0 THEN DefaultRegistrySize ELSE RegistrySize

Indices == 0 .. (Size - 1)

(***************************************************************************)
(* A RequestSlot.  `target' is the file or the socket the slot refers to.   *)
(* user_data (always the index of the slot), addr and msghdr are left out:  *)
(* no decision of the program depends on them.                              *)
(***************************************************************************)
ZeroSlot ==
    [future |-> Null, opcode |-> "NOP", payload |-> Null,
     target |-> Null, stream |-> "ONESHOT"]

\* Mutant: the stack of free indices starts one entry too high.
NewOneTooHigh ==
    [slots |-> [i \in Indices |-> ZeroSlot],
     available_indices |-> [i \in Indices |-> i],
     top |-> Size]

registry_new ==
    [slots |-> [i \in Indices |-> ZeroSlot],
     available_indices |-> [i \in Indices |-> i],
     top |-> Size - 1]

RegistryFull(reg) == reg.top < 0

\* The index that registry_add returns when the registry is not full.
NextIndex(reg) == reg.available_indices[reg.top]

\* Mutant: the top of the stack is not moved.
AddKeepsTop(reg, slot) ==
    [reg EXCEPT !.slots[NextIndex(reg)] = slot]

registry_add(reg, slot) ==
    [reg EXCEPT !.top = @ - 1,
                !.slots[NextIndex(reg)] = slot]

\* Mutant: index 0 counts as out of bounds.
GetSkipsZero(reg, index) ==
    IF index \in Indices \ {0} THEN reg.slots[index] ELSE Null

\* The slot is returned whether or not it is in use.
registry_get(reg, index) ==
    IF index \in Indices THEN reg.slots[index] ELSE Null

\* What the body of registry_remove leaves in a slot: the stream strategy stays.
ClearSlot(slot) ==
    [slot EXCEPT !.future = Null, !.payload = Null,
                 !.target = Null, !.opcode = "NOP"]

\* Mutants: the bound is off by one.
AbortsOneLate(reg, index) ==
    /\ index \in Indices
    /\ reg.top > Size - 1

AbortsOneEarly(reg, index) ==
    /\ index \in Indices
    /\ reg.top >= Size - 2

\* registry_remove calls abort() when the stack of free indices is full.
RemoveAborts(reg, index) ==
    /\ index \in Indices
    /\ reg.top >= Size - 1

\* Mutant: the index is pushed without moving the top of the stack first.
RemovePushesInPlace(reg, index) ==
    IF index \in Indices
      THEN [reg EXCEPT !.top = @ + 1,
                       !.slots[index] = ClearSlot(@),
                       !.available_indices[reg.top] = index]
      ELSE reg

\* Mutant: the slot is pushed but keeps its future.
RemoveKeepsFuture(reg, index) ==
    IF index \in Indices
      THEN [reg EXCEPT !.top = @ + 1,
                       !.available_indices[reg.top + 1] = index]
      ELSE reg

registry_remove(reg, index) ==
    IF index \in Indices
      THEN [reg EXCEPT !.top = @ + 1,
                       !.slots[index] = ClearSlot(@),
                       !.available_indices[reg.top + 1] = index]
      ELSE reg

-----------------------------------------------------------------------------
\* The stack of free indices, and the slots that hold a request.
FreeIndices(reg) == {reg.available_indices[k] : k \in 0 .. reg.top}

InUse(reg) == {i \in Indices : reg.slots[i].future # Null}

(***************************************************************************)
(* The registry is well formed: the stack holds each index at most once,    *)
(* and it holds exactly the indices of the slots that no request uses.      *)
(***************************************************************************)
WellFormed(reg) ==
    /\ \A j, k \in 0 .. reg.top :
          reg.available_indices[j] = reg.available_indices[k] => j = k
    /\ \A i \in Indices : i \in FreeIndices(reg) <=> reg.slots[i].future = Null

\* The registries whose slots are in the set Slot.
RegistryType(Slot) ==
    [slots : [Indices -> Slot],
     available_indices : [Indices -> Indices],
     top : -1 .. (Size - 1)]
=============================================================================
