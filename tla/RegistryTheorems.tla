-------------------------- MODULE RegistryTheorems --------------------------
(***************************************************************************)
(* Facts about the functions of registry.c, for every size of the registry  *)
(* and every contents of the slots.  The proofs about the state machines    *)
(* that call these functions cite them.                                     *)
(***************************************************************************)
EXTENDS Registry, FiniteSetTheorems, TLAPS

\* A set of slots that contains what registry_remove makes of its members.
Clearable(S) ==
    \A slot \in S : /\ ClearSlot(slot) \in S
                   /\ ClearSlot(slot).future = Null
                   /\ ClearSlot(slot).payload = Null

\* registry_new allocates at least one slot, whatever size it is asked for.
LEMMA SizePositive == Size \in Nat \ {0}
BY RegistrySizeAssumption, DefaultSizeAssumption DEF Size

\* A registry fresh from registry_new has its type and is well formed.
LEMMA NewRegistry ==
    ASSUME NEW S,
           ZeroSlot \in S
    PROVE  /\ registry_new \in RegistryType(S)
           /\ WellFormed(registry_new)
           /\ \A i \in Indices : registry_new.slots[i] = ZeroSlot
<1>1. registry_new \in RegistryType(S)
  BY SizePositive DEF registry_new, RegistryType, Indices
<1>2. FreeIndices(registry_new) = Indices
  BY SizePositive DEF registry_new, FreeIndices, Indices
<1>3. WellFormed(registry_new)
  BY <1>2, SizePositive DEF registry_new, WellFormed, Indices, ZeroSlot
<1> QED
  BY <1>1, <1>3 DEF registry_new

\* registry_add keeps the type: its index is in bounds and the stack stays in
\* its array.
LEMMA AddType ==
    ASSUME NEW S,
           NEW reg \in RegistryType(S),
           NEW slot \in S,
           ~RegistryFull(reg)
    PROVE  /\ NextIndex(reg) \in Indices
           /\ registry_add(reg, slot) \in RegistryType(S)
           /\ registry_add(reg, slot).slots = [reg.slots EXCEPT ![NextIndex(reg)] = slot]
           /\ registry_add(reg, slot).top = reg.top - 1
           /\ registry_add(reg, slot).available_indices = reg.available_indices
<1>1. reg \in RegistryType(S) /\ slot \in S
  OBVIOUS
<1>2. reg.top \in -1 .. (Size - 1) /\ ~(reg.top < 0)
  BY <1>1 DEF RegistryType, RegistryFull
<1>3. reg.top \in Indices /\ reg.top - 1 \in -1 .. (Size - 1)
  BY <1>2, SizePositive DEF Indices
<1>4. NextIndex(reg) \in Indices
  BY <1>1, <1>3 DEF NextIndex, RegistryType
<1>5. registry_add(reg, slot) \in RegistryType(S)
  BY <1>1, <1>3, <1>4 DEF RegistryType, registry_add
<1>6. /\ registry_add(reg, slot).slots = [reg.slots EXCEPT ![NextIndex(reg)] = slot]
      /\ registry_add(reg, slot).top = reg.top - 1
      /\ registry_add(reg, slot).available_indices = reg.available_indices
  BY <1>1 DEF RegistryType, registry_add
<1> QED
  BY <1>4, <1>5, <1>6

\* registry_remove keeps the type when it does not abort.
LEMMA RemoveType ==
    ASSUME NEW S,
           NEW reg \in RegistryType(S),
           Clearable(S),
           NEW index \in Indices,
           ~RemoveAborts(reg, index)
    PROVE  /\ registry_remove(reg, index) \in RegistryType(S)
           /\ registry_remove(reg, index).slots
                = [reg.slots EXCEPT ![index] = ClearSlot(reg.slots[index])]
           /\ registry_remove(reg, index).top = reg.top + 1
           /\ reg.top + 1 \in Indices
           /\ registry_remove(reg, index).available_indices
                = [reg.available_indices EXCEPT ![reg.top + 1] = index]
           /\ ClearSlot(reg.slots[index]).future = Null
           /\ ClearSlot(reg.slots[index]).payload = Null
<1>1. ClearSlot(reg.slots[index]) \in S /\ reg.slots[index] \in S
  BY DEF Clearable, RegistryType
<1>2. ClearSlot(reg.slots[index]).future = Null /\ ClearSlot(reg.slots[index]).payload = Null
  BY <1>1 DEF Clearable
<1>3. reg \in RegistryType(S)
  OBVIOUS
<1>4. reg.top \in -1 .. (Size - 1) /\ ~(reg.top >= Size - 1)
  BY <1>3 DEF RegistryType, RemoveAborts
<1>5. reg.top + 1 \in Indices /\ reg.top + 1 \in -1 .. (Size - 1)
  BY <1>4, SizePositive DEF Indices
<1>6. registry_remove(reg, index) \in RegistryType(S)
  BY <1>1, <1>3, <1>5 DEF RegistryType, registry_remove
<1>7. /\ registry_remove(reg, index).slots
           = [reg.slots EXCEPT ![index] = ClearSlot(reg.slots[index])]
      /\ registry_remove(reg, index).top = reg.top + 1
      /\ registry_remove(reg, index).available_indices
           = [reg.available_indices EXCEPT ![reg.top + 1] = index]
  BY <1>3 DEF RegistryType, registry_remove
<1> QED
  BY <1>2, <1>5, <1>6, <1>7

\* registry_add takes an index that no request uses and leaves the stack exact.
LEMMA AddWellFormed ==
    ASSUME NEW S,
           NEW reg \in RegistryType(S),
           NEW slot \in S,
           ~RegistryFull(reg), WellFormed(reg), slot.future # Null
    PROVE  /\ reg.slots[NextIndex(reg)].future = Null
           /\ WellFormed(registry_add(reg, slot))
<1> DEFINE new == registry_add(reg, slot)
           n == NextIndex(reg)
<1>1. /\ n \in Indices
      /\ new.slots = [reg.slots EXCEPT ![n] = slot]
      /\ new.top = reg.top - 1
      /\ new.available_indices = reg.available_indices
  BY AddType
<1>2. /\ reg.slots \in [Indices -> S]
      /\ reg.available_indices \in [Indices -> Indices]
      /\ reg.top \in Indices
      /\ reg.top \in Nat
  BY SizePositive DEF RegistryType, RegistryFull, Indices
<1>3. n \in FreeIndices(reg)
  BY <1>2 DEF FreeIndices, NextIndex
<1>4. reg.slots[n].future = Null
  BY <1>1, <1>3 DEF WellFormed
<1>5. \A j, k \in 0 .. new.top :
         new.available_indices[j] = new.available_indices[k] => j = k
  BY <1>1, <1>2 DEF WellFormed
<1>6. FreeIndices(new) = FreeIndices(reg) \ {n}
  <2>1. \A k \in 0 .. (reg.top - 1) : k \in 0 .. reg.top /\ k # reg.top
    BY <1>2
  <2>2. \A k \in 0 .. reg.top : k # reg.top => k \in 0 .. (reg.top - 1)
    BY <1>2
  <2>3. reg.top \in 0 .. reg.top
    BY <1>2
  <2>4. \A k \in 0 .. (reg.top - 1) : reg.available_indices[k] # n
    BY <2>1, <2>3 DEF WellFormed, NextIndex
  <2> QED
    BY <1>1, <2>1, <2>2, <2>4 DEF FreeIndices, NextIndex
<1>7. \A i \in Indices : i \in FreeIndices(new) <=> new.slots[i].future = Null
  BY <1>1, <1>2, <1>6 DEF WellFormed
<1> QED
  BY <1>4, <1>5, <1>7 DEF WellFormed

\* While some slot is in use the stack of free indices is not full, so that
\* registry_remove does not abort.
LEMMA InUseLeavesRoom ==
    ASSUME NEW S,
           NEW reg \in RegistryType(S),
           WellFormed(reg),
           NEW i \in Indices, reg.slots[i].future # Null
    PROVE  reg.top < Size - 1 /\ \A index : ~RemoveAborts(reg, index)
<1> DEFINE f == reg.available_indices
<1>1. f \in [Indices -> Indices] /\ reg.top \in -1 .. (Size - 1)
  BY DEF RegistryType
<1>2. SUFFICES ASSUME reg.top = Size - 1 PROVE FALSE
  <2>1. reg.top < Size - 1
    BY <1>1, <1>2, SizePositive
  <2> QED
    BY <2>1, <1>1, SizePositive DEF RemoveAborts
<1>3. f \in Injection(Indices, Indices)
  BY <1>1, <1>2 DEF WellFormed, Injection, IsInjective, Indices
<1>4. IsFiniteSet(Indices)
  BY FS_Interval, SizePositive DEF Indices
<1>5. f \in Surjection(Indices, Indices)
  BY <1>3, <1>4, FS_Injection
<1>6. PICK k \in Indices : f[k] = i
  BY <1>5 DEF Surjection
<1>7. i \in FreeIndices(reg)
  BY <1>2, <1>6 DEF FreeIndices, Indices
<1> QED
  BY <1>7 DEF WellFormed

\* registry_remove of a slot in use gives its index back and leaves the stack
\* exact.
LEMMA RemoveWellFormed ==
    ASSUME NEW S,
           NEW reg \in RegistryType(S),
           Clearable(S),
           WellFormed(reg),
           NEW index \in Indices, reg.slots[index].future # Null
    PROVE  WellFormed(registry_remove(reg, index))
<1> DEFINE new == registry_remove(reg, index)
           a == reg.available_indices
<1>1. ~RemoveAborts(reg, index)
  BY InUseLeavesRoom
<1>2. /\ new.slots = [reg.slots EXCEPT ![index] = ClearSlot(reg.slots[index])]
      /\ new.top = reg.top + 1
      /\ reg.top + 1 \in Indices
      /\ new.available_indices = [a EXCEPT ![reg.top + 1] = index]
      /\ ClearSlot(reg.slots[index]).future = Null
  BY <1>1, RemoveType
<1>3. /\ reg.slots \in [Indices -> S]
      /\ a \in [Indices -> Indices]
  BY DEF RegistryType
<1>3a. reg.top \in -1 .. (Size - 1) /\ reg.top + 1 \in 0 .. (Size - 1)
  BY <1>2 DEF RegistryType, Indices
<1>4. \A k \in 0 .. reg.top : k \in Indices /\ k # reg.top + 1
  BY <1>3a, SizePositive DEF Indices
<1>5. \A k \in 0 .. new.top : k \in 0 .. reg.top \/ k = reg.top + 1
  BY <1>2, <1>3a, SizePositive
<1>6. index \notin FreeIndices(reg)
  BY DEF WellFormed
<1>7. \A k \in 0 .. reg.top : new.available_indices[k] = a[k] /\ a[k] # index
  BY <1>2, <1>3, <1>4, <1>6 DEF FreeIndices
<1>8. new.available_indices[reg.top + 1] = index /\ reg.top + 1 \in 0 .. new.top
  <2>1. new.available_indices[reg.top + 1] = index
    BY <1>2, <1>3
  <2>2. reg.top + 1 \in 0 .. new.top
    BY <1>2, <1>3a, SizePositive
  <2> QED
    BY <2>1, <2>2
<1>9. \A j, k \in 0 .. new.top :
         new.available_indices[j] = new.available_indices[k] => j = k
  BY <1>5, <1>7, <1>8 DEF WellFormed
<1>10. FreeIndices(new) = FreeIndices(reg) \cup {index}
  <2>1. \A k \in 0 .. reg.top : k \in 0 .. new.top
    BY <1>2, <1>3a, SizePositive
  <2> QED
    BY <1>5, <1>7, <1>8, <2>1 DEF FreeIndices
<1>11. \A i \in Indices : i \in FreeIndices(new) <=> new.slots[i].future = Null
  BY <1>2, <1>3, <1>10 DEF WellFormed
<1> QED
  BY <1>9, <1>11 DEF WellFormed
=============================================================================
