--------------------------- MODULE RegistryClient ---------------------------
(***************************************************************************)
(* The registry together with the callers of registry.c.  `held' is what    *)
(* the callers believe: the indices registry_add has returned to them that  *)
(* they have not passed to registry_remove yet.  A caller may also remove   *)
(* an index a second time; `misused' remembers that one has.                *)
(***************************************************************************)
EXTENDS Registry, FiniteSets

CONSTANT Futures    \* the futures of the callers

ASSUME FuturesAssumption == Null \notin Futures

VARIABLES
    reg,        \* the RequestRegistry
    held,       \* the indices the callers hold
    gone,       \* the indices they have held and removed
    aborted,    \* TRUE once registry_remove has called abort()
    misused     \* history: TRUE once an index was removed twice

vars == <<reg, held, gone, aborted, misused>>

Slot == [future : Futures \cup {Null}, opcode : {"NOP", "OP"},
         payload : {Null}, target : {Null}, stream : {"ONESHOT"}]

Init ==
    /\ reg = registry_new
    /\ held = {}
    /\ gone = {}
    /\ aborted = FALSE
    /\ misused = FALSE

\* registry_add succeeds: the caller gets the index on top of the stack.
Add(f) ==
    /\ ~aborted
    /\ ~RegistryFull(reg)
    /\ reg' = registry_add(reg, [ZeroSlot EXCEPT !.future = f, !.opcode = "OP"])
    /\ held' = held \cup {NextIndex(reg)}
    /\ gone' = gone \ {NextIndex(reg)}
    /\ UNCHANGED <<aborted, misused>>

\* registry_remove, for an index the caller may or may not still hold.
RemoveIndex(i) ==
    IF RemoveAborts(reg, i)
      THEN /\ aborted' = TRUE
           /\ UNCHANGED <<reg, held, gone>>
      ELSE /\ reg' = registry_remove(reg, i)
           /\ held' = held \ {i}
           /\ gone' = gone \cup {i}
           /\ UNCHANGED aborted

Remove(i) == ~aborted /\ i \in held /\ RemoveIndex(i) /\ UNCHANGED misused

DoubleRemove(i) == ~aborted /\ i \in gone /\ RemoveIndex(i) /\ misused' = TRUE

Next ==
    \/ \E f \in Futures : Add(f)
    \/ \E i \in Indices : Remove(i) \/ DoubleRemove(i)

Spec == Init /\ [][Next]_vars

-----------------------------------------------------------------------------
\* Type invariant of the registry and its callers.
TypeOK ==
    /\ reg \in RegistryType(Slot)
    /\ held \subseteq Indices
    /\ gone \subseteq Indices
    /\ aborted \in BOOLEAN
    /\ misused \in BOOLEAN

\* The stack of free indices (registry.c: available_indices, top) never holds
\* an index twice and never an index that is in use, after any sequence of
\* registry_add and registry_remove by callers that remove what they hold.
StackMatchesSlots == ~misused => WellFormed(reg)

\* The slots in use are the ones the callers hold: registry_add overwrites no
\* slot of a request in progress and registry_remove loses none.
HeldSlotsInUse == ~misused => InUse(reg) = held

\* Only callers that remove an index twice run into the abort() of
\* registry_remove.
NoAbort == aborted => misused

\* The abort() of registry_remove keeps every push inside the array of free
\* indices, even for callers that remove an index twice.
StackInBounds ==
    /\ reg.top <= Size - 1
    /\ DOMAIN reg.available_indices = Indices
    /\ aborted => reg.top = Size - 1

\* The registry implements the pool of indices.
Holder == [i \in Indices |-> reg.slots[i].future]

Pool == INSTANCE SlotPool WITH
            Index <- Indices, Future <- Futures, None <- Null, holder <- Holder

\* Until an index is removed twice, registry_add and registry_remove are the two
\* operations of the pool: an index is handed out only while no request holds it,
\* and no other slot changes hands.
ImplementsPool == Pool!PoolInit /\ [][misused' \/ Pool!PoolNext]_Holder
=============================================================================
