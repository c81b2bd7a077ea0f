--------------------------- MODULE RegistryProofs ---------------------------
(***************************************************************************)
(* Proofs about the registry and its callers, for every registry size and   *)
(* every set of futures.                                                    *)
(***************************************************************************)
EXTENDS RegistryClient, RegistryTheorems

LEMMA NewSlot ==
    /\ ZeroSlot \in Slot
    /\ \A f \in Futures :
          LET slot == [ZeroSlot EXCEPT !.future = f, !.opcode = "OP"]
          IN  slot \in Slot /\ slot.future = f
BY DEF Slot, ZeroSlot

LEMMA SlotClears == Clearable(Slot)
BY DEF Clearable, ClearSlot, Slot

LEMMA RemoveSlots ==
    ASSUME NEW q \in RegistryType(Slot), NEW i \in Indices, ~RemoveAborts(q, i)
    PROVE  /\ registry_remove(q, i).slots = [q.slots EXCEPT ![i] = ClearSlot(q.slots[i])]
           /\ ClearSlot(q.slots[i]).future = Null
<1>1. registry_remove(q, i).slots = [q.slots EXCEPT ![i] = ClearSlot(q.slots[i])]
  BY DEF registry_remove, RegistryType
<1>2. ClearSlot(q.slots[i]).future = Null
  BY SlotClears DEF Clearable, RegistryType
<1> QED
  BY <1>1, <1>2

\* The type invariant is inductive: registry_add pops only a stack that is not
\* empty, and the abort() of registry_remove keeps the push inside the array,
\* whatever the callers remove.
LEMMA TypeInit == Init => TypeOK
BY NewRegistry, NewSlot DEF Init, TypeOK

LEMMA TypeStep == TypeOK /\ [Next]_vars => TypeOK'
<1> SUFFICES ASSUME TypeOK, [Next]_vars PROVE TypeOK'
  OBVIOUS
<1>1. CASE UNCHANGED vars
  BY <1>1 DEF TypeOK, vars
<1>2. ASSUME NEW f \in Futures, Add(f) PROVE TypeOK'
  <2>1. NextIndex(reg) \in Indices /\ reg' \in RegistryType(Slot)
    BY <1>2, AddType, NewSlot DEF TypeOK, Add
  <2> QED
    BY <1>2, <2>1 DEF TypeOK, Add
<1>3. ASSUME NEW i \in Indices, RemoveIndex(i), misused' \in BOOLEAN PROVE TypeOK'
  <2>1. CASE RemoveAborts(reg, i)
    BY <1>3, <2>1 DEF TypeOK, RemoveIndex
  <2>2. CASE ~RemoveAborts(reg, i)
    <3>1. reg \in RegistryType(Slot) /\ reg' = registry_remove(reg, i)
      BY <1>3, <2>2 DEF TypeOK, RemoveIndex
    <3>2. reg' \in RegistryType(Slot)
      BY <2>2, <3>1, RemoveType, SlotClears, Zenon
    <3> QED
      BY <1>3, <2>2, <3>2 DEF TypeOK, RemoveIndex
  <2> QED
    BY <2>1, <2>2
<1>4. ASSUME NEW i \in Indices, Remove(i) \/ DoubleRemove(i) PROVE TypeOK'
  <2>1. misused' \in BOOLEAN
    BY <1>4 DEF TypeOK, Remove, DoubleRemove
  <2> QED
    BY <1>3, <1>4, <2>1 DEF Remove, DoubleRemove
<1> QED
  BY <1>1, <1>2, <1>4 DEF Next

\* For callers of any discipline the indices and the stack of registry.c stay
\* within their arrays.
THEOREM TypeCorrect == Spec => []TypeOK
BY TypeInit, TypeStep, PTL DEF Spec

-----------------------------------------------------------------------------
(***************************************************************************)
(* The callers that remove only what they hold.  That no push meets a full  *)
(* stack (NoAbort) follows from the exactness of the stack by counting: a   *)
(* full stack without repetitions holds every index, the held ones too.     *)
(***************************************************************************)
IInv == TypeOK /\ StackMatchesSlots /\ HeldSlotsInUse /\ NoAbort

LEMMA InvInit == Init => IInv
<1> SUFFICES ASSUME Init PROVE IInv
  OBVIOUS
<1>1. WellFormed(reg) /\ \A i \in Indices : reg.slots[i] = ZeroSlot
  BY NewRegistry, NewSlot DEF Init
<1>2. InUse(reg) = {}
  BY <1>1 DEF InUse, ZeroSlot
<1> QED
  BY <1>1, <1>2, TypeInit DEF Init, IInv, StackMatchesSlots, HeldSlotsInUse, NoAbort

LEMMA AddKeepsInv ==
    ASSUME IInv, ~misused, NEW f \in Futures, Add(f) PROVE IInv'
<1> DEFINE n == NextIndex(reg)
           slot == [ZeroSlot EXCEPT !.future = f, !.opcode = "OP"]
<1>1. slot \in Slot /\ slot.future = f /\ f # Null
  BY NewSlot, FuturesAssumption
<1>2. reg \in RegistryType(Slot) /\ ~RegistryFull(reg) /\ reg' = registry_add(reg, slot)
  BY DEF IInv, TypeOK, Add
<1> HIDE DEF slot
<1>3. /\ n \in Indices
      /\ reg'.slots = [reg.slots EXCEPT ![n] = slot]
  BY <1>1, <1>2, AddType
<1>4. StackMatchesSlots'
  BY <1>1, <1>2, AddWellFormed DEF IInv, StackMatchesSlots
<1>5. reg.slots \in [Indices -> Slot]
  BY <1>2 DEF RegistryType
<1>6. InUse(reg)' = InUse(reg) \cup {n}
  BY <1>1, <1>3, <1>5 DEF InUse
<1>7. HeldSlotsInUse'
  BY <1>6 DEF IInv, HeldSlotsInUse, Add
<1>8. TypeOK'
  BY TypeStep DEF IInv, Next
<1> QED
  BY <1>4, <1>7, <1>8 DEF IInv, NoAbort, Add

LEMMA RemoveKeepsInv ==
    ASSUME IInv, ~misused, NEW i \in Indices, Remove(i) PROVE IInv'
<1>1. reg \in RegistryType(Slot) /\ WellFormed(reg) /\ reg.slots[i].future # Null
  BY DEF IInv, TypeOK, StackMatchesSlots, HeldSlotsInUse, Remove, InUse
<1>2. ~RemoveAborts(reg, i)
  BY <1>1, InUseLeavesRoom
<1>3. reg' = registry_remove(reg, i) /\ held' = held \ {i} /\ aborted' = aborted
  BY <1>2 DEF Remove, RemoveIndex
<1>4. /\ reg'.slots = [reg.slots EXCEPT ![i] = ClearSlot(reg.slots[i])]
      /\ ClearSlot(reg.slots[i]).future = Null
  BY <1>1, <1>2, <1>3, RemoveSlots
<1>5. StackMatchesSlots'
  BY <1>1, <1>3, RemoveWellFormed, SlotClears DEF StackMatchesSlots
<1>6. reg.slots \in [Indices -> Slot]
  BY <1>1 DEF RegistryType
<1>7. InUse(reg)' = InUse(reg) \ {i}
  BY <1>4, <1>6 DEF InUse
<1>8. HeldSlotsInUse'
  BY <1>3, <1>7 DEF IInv, HeldSlotsInUse
<1>9. TypeOK'
  BY TypeStep DEF IInv, Next
<1> QED
  BY <1>3, <1>5, <1>8, <1>9 DEF IInv, NoAbort

LEMMA InvStep == IInv /\ [Next]_vars => IInv'
<1> SUFFICES ASSUME IInv, [Next]_vars PROVE IInv'
  OBVIOUS
<1>1. CASE UNCHANGED vars
  BY <1>1 DEF IInv, TypeOK, StackMatchesSlots, HeldSlotsInUse, NoAbort, vars
<1>2. CASE misused'
  BY <1>2, TypeStep DEF IInv, StackMatchesSlots, HeldSlotsInUse, NoAbort
<1>3. CASE Next /\ ~misused'
  <2>1. ASSUME NEW f \in Futures, Add(f) PROVE IInv'
    BY <1>3, <2>1, AddKeepsInv DEF Add
  <2>2. ASSUME NEW i \in Indices, Remove(i) PROVE IInv'
    BY <1>3, <2>2, RemoveKeepsInv DEF Remove
  <2> QED
    BY <1>3, <2>1, <2>2 DEF Next, DoubleRemove
<1> QED
  BY <1>1, <1>2, <1>3

\* As long as no index is removed twice registry_add never hands out a slot in
\* use, registry_remove never loses one, and its abort() is unreachable.
THEOREM RegistrySafe == Spec => [](StackMatchesSlots /\ HeldSlotsInUse /\ NoAbort)
<1>1. IInv => StackMatchesSlots /\ HeldSlotsInUse /\ NoAbort
  BY DEF IInv
<1> QED
  BY <1>1, InvInit, InvStep, PTL DEF Spec

\* registry_remove finds room on the stack: its abort() (registry.c) is reached only by
\* callers that remove an index twice.
THEOREM RegistryNeverAborts == Spec => []NoAbort
<1>1. StackMatchesSlots /\ HeldSlotsInUse /\ NoAbort => NoAbort
  OBVIOUS
<1> QED
  BY <1>1, RegistrySafe, PTL

(***************************************************************************)
(* What is left of this for callers that remove an index twice.             *)
(***************************************************************************)
BoundInv == TypeOK /\ (aborted => reg.top = Size - 1)

LEMMA BoundStep == BoundInv /\ [Next]_vars => BoundInv'
<1> SUFFICES ASSUME BoundInv, [Next]_vars PROVE BoundInv'
  OBVIOUS
<1>1. TypeOK'
  BY TypeStep DEF BoundInv
<1>2. CASE UNCHANGED vars
  BY <1>1, <1>2 DEF BoundInv, vars
<1>3. ASSUME NEW f \in Futures, Add(f) PROVE BoundInv'
  BY <1>1, <1>3 DEF BoundInv, Add
<1>4. ASSUME NEW i \in Indices, RemoveIndex(i), ~aborted PROVE BoundInv'
  <2>1. CASE RemoveAborts(reg, i)
    <3>1. reg.top \in -1 .. (Size - 1) /\ reg.top >= Size - 1 /\ Size \in Nat \ {0}
      BY <2>1, SizePositive DEF BoundInv, TypeOK, RegistryType, RemoveAborts
    <3>2. reg.top = Size - 1
      BY <3>1
    <3> QED
      BY <1>1, <1>4, <2>1, <3>2 DEF BoundInv, RemoveIndex
  <2>2. CASE ~RemoveAborts(reg, i)
    BY <1>1, <1>4, <2>2 DEF BoundInv, RemoveIndex
  <2> QED
    BY <2>1, <2>2
<1> QED
  BY <1>2, <1>3, <1>4 DEF Next, Remove, DoubleRemove

\* Whatever the callers remove, and however often, the abort() of registry_remove
\* keeps every push inside the array of free indices.
THEOREM StackBounded == Spec => []StackInBounds
<1>1. Init => BoundInv
  BY TypeInit DEF Init, BoundInv
<1>2. BoundInv => StackInBounds
  BY SizePositive DEF BoundInv, StackInBounds, TypeOK, RegistryType
<1> QED
  BY <1>1, <1>2, BoundStep, PTL DEF Spec

-----------------------------------------------------------------------------
(***************************************************************************)
(* Refinement: the registry implements the pool of indices.                 *)
(***************************************************************************)
LEMMA PoolInitially == Init => Pool!PoolInit
<1> SUFFICES ASSUME Init PROVE Pool!PoolInit
  OBVIOUS
<1>1. \A i \in Indices : reg.slots[i] = ZeroSlot
  BY NewRegistry, NewSlot DEF Init
<1>2. ZeroSlot.future = Null
  BY DEF ZeroSlot
<1> QED
  BY <1>1, <1>2 DEF Pool!PoolInit, Holder

LEMMA PoolStep ==
    ASSUME IInv, [Next]_vars PROVE [misused' \/ Pool!PoolNext]_Holder
<1> SUFFICES ASSUME ~misused' PROVE [Pool!PoolNext]_Holder
  OBVIOUS
<1>0. reg \in RegistryType(Slot) /\ reg.slots \in [Indices -> Slot]
  BY DEF IInv, TypeOK, StackMatchesSlots, RegistryType
<1>1. CASE UNCHANGED vars
  BY <1>1 DEF vars, Holder
<1>2. ASSUME NEW f \in Futures, Add(f) PROVE Pool!PoolNext
  <2>0. WellFormed(reg)
    BY <1>2 DEF IInv, StackMatchesSlots, Add
  <2> DEFINE n == NextIndex(reg)
             slot == [ZeroSlot EXCEPT !.future = f, !.opcode = "OP"]
  <2>1. slot \in Slot /\ slot.future = f /\ f # Null
    BY NewSlot, FuturesAssumption
  <2>2. ~RegistryFull(reg) /\ reg' = registry_add(reg, slot)
    BY <1>2 DEF Add
  <2> HIDE DEF slot
  <2>3. n \in Indices /\ reg'.slots = [reg.slots EXCEPT ![n] = slot]
    BY <1>0, <2>1, <2>2, AddType
  <2>4. reg.slots[n].future = Null
    BY <1>0, <2>0, <2>1, <2>2, AddWellFormed
  <2>5. Holder' = [Holder EXCEPT ![n] = f]
    BY <1>0, <2>1, <2>3 DEF Holder
  <2>6. Pool!Acquire(n, f)
    BY <2>3, <2>4, <2>5 DEF Pool!Acquire, Holder
  <2> QED
    BY <2>3, <2>6 DEF Pool!PoolNext
<1>3. ASSUME NEW i \in Indices, Remove(i) PROVE Pool!PoolNext
  <2>1. reg.slots[i].future # Null /\ WellFormed(reg)
    BY <1>3 DEF IInv, StackMatchesSlots, HeldSlotsInUse, Remove, InUse
  <2>2. ~RemoveAborts(reg, i)
    BY <1>0, <2>1, InUseLeavesRoom
  <2>3. reg' = registry_remove(reg, i)
    BY <1>3, <2>2 DEF Remove, RemoveIndex
  <2>4. /\ reg'.slots = [reg.slots EXCEPT ![i] = ClearSlot(reg.slots[i])]
        /\ ClearSlot(reg.slots[i]).future = Null
    BY <1>0, <2>2, <2>3, RemoveSlots
  <2>5. Holder' = [Holder EXCEPT ![i] = Null]
    BY <1>0, <2>4 DEF Holder
  <2>6. Pool!Release(i)
    BY <2>1, <2>5 DEF Pool!Release, Holder
  <2> QED
    BY <2>6 DEF Pool!PoolNext
<1> QED
  BY <1>1, <1>2, <1>3 DEF Next, DoubleRemove

\* Until an index is removed twice the registry, with its stack and its array,
\* implements the pool of indices its callers rely on.
THEOREM RegistryImplementsPool == Spec => ImplementsPool
<1>1. Init => IInv /\ Pool!PoolInit
  BY InvInit, PoolInitially
<1>2. IInv /\ [Next]_vars => IInv' /\ [misused' \/ Pool!PoolNext]_Holder
  BY InvStep, PoolStep
<1> QED
  BY <1>1, <1>2, PTL DEF Spec, ImplementsPool
=============================================================================
