---------------------------- MODULE RequestProofs ----------------------------
(***************************************************************************)
(* Proofs about the life of a request, for every set of calls the handlers  *)
(* of uringio can make, any number of slots, SQEs and CQEs, with and without *)
(* failing submissions, linked timeouts, zero copy and PROVIDED contexts.   *)
(***************************************************************************)
EXTENDS RequestProperties, RegistryTheorems

LEMMA SlotClears == Clearable(SlotType)
BY DEF Clearable, ClearSlot, SlotType

LEMMA ZeroSlotType == ZeroSlot \in SlotType
BY DEF ZeroSlot, SlotType, StreamStrategies

LEMMA PayloadType ==
    ASSUME NEW c \in Calls, NEW r \in Reqs
    PROVE  /\ PayloadOf(c, r) \in {r, CtxPayload, Null}
           /\ PayloadOf(c, r) \in Payloads \cup {Null}
           /\ c.payload = "own" => PayloadOf(c, r) = r
           /\ c.payload # "own" => PayloadOf(c, r) # r
           /\ c.payload # "ctx" => PayloadOf(c, r) # CtxPayload
<1>1. c.payload \in {"own", "ctx", "none"}
  BY CallsAssumption DEF Operations
<1> QED
  BY <1>1, ReqsAssumption DEF PayloadOf, Payloads

\* The slot a handler fills in.
LEMMA NewSlotType ==
    ASSUME NEW c \in Calls, NEW r \in Reqs
    PROVE  /\ SlotOf(c, r) \in SlotType
           /\ SlotOf(c, r).future = r
           /\ SlotOf(c, r).payload = IF c.slotted THEN PayloadOf(c, r) ELSE Null
           /\ SlotOf(c, r).opcode = c.opcode
           /\ r # Null
<1>1. /\ c.opcode \in {op.opcode : op \in Calls}
      /\ c.target \in {"file", "socket", "new", "none"}
      /\ c.stream \in StreamStrategies
  BY CallsAssumption DEF Operations
<1> QED
  BY <1>1, PayloadType, ReqsAssumption DEF SlotOf, SlotType, Targets

-----------------------------------------------------------------------------
(***************************************************************************)
(* What the handlers do to the registry.                                    *)
(***************************************************************************)

\* A handler that succeeds takes a free slot.
LEMMA HandlerAdds ==
    ASSUME NEW q \in RegistryType(SlotType), ~RegistryFull(q),
           NEW c \in Calls, NEW r \in Reqs
    PROVE  LET n == NextIndex(q)
               new == registry_add(q, SlotOf(c, r))
           IN  /\ n \in Indices
               /\ new \in RegistryType(SlotType)
               /\ new.slots = [q.slots EXCEPT ![n] = SlotOf(c, r)]
               /\ WellFormed(q) => q.slots[n].future = Null /\ WellFormed(new)
<1> DEFINE slot == SlotOf(c, r)
<1>1. slot \in SlotType /\ slot.future # Null
  BY NewSlotType
<1> HIDE DEF slot
<1>2. /\ NextIndex(q) \in Indices
      /\ registry_add(q, slot) \in RegistryType(SlotType)
      /\ registry_add(q, slot).slots = [q.slots EXCEPT ![NextIndex(q)] = slot]
  BY <1>1, AddType
<1>3. WellFormed(q) => q.slots[NextIndex(q)].future = Null /\ WellFormed(registry_add(q, slot))
  BY <1>1, AddWellFormed
<1> QED
  BY <1>2, <1>3 DEF slot

\* A handler that fails gives its slot back and leaves the stack as it was.
LEMMA HandlerFails ==
    ASSUME NEW q \in RegistryType(SlotType), ~RegistryFull(q),
           NEW c \in Calls, NEW r \in Reqs
    PROVE  LET n == NextIndex(q)
               new == registry_remove(registry_add(q, SlotOf(c, r)), n)
           IN  /\ n \in Indices
               /\ new \in RegistryType(SlotType)
               /\ new.slots = [q.slots EXCEPT ![n] = ClearSlot(SlotOf(c, r))]
               /\ ClearSlot(SlotOf(c, r)).future = Null
               /\ ClearSlot(SlotOf(c, r)).payload = Null
               /\ new.top = q.top
               /\ new.available_indices = q.available_indices
               /\ WellFormed(q) => q.slots[n].future = Null /\ WellFormed(new)
<1> DEFINE slot == SlotOf(c, r)
           n == NextIndex(q)
           mid == registry_add(q, slot)
           new == registry_remove(mid, n)
<1>1. slot \in SlotType /\ slot.future # Null
  BY NewSlotType
<1> HIDE DEF slot
<1>2. /\ n \in Indices /\ mid \in RegistryType(SlotType)
      /\ mid.slots = [q.slots EXCEPT ![n] = slot]
      /\ mid.top = q.top - 1
      /\ mid.available_indices = q.available_indices
  BY <1>1, AddType
<1>3. /\ q.slots \in [Indices -> SlotType]
      /\ q.available_indices \in [Indices -> Indices]
      /\ q.top \in -1 .. (Size - 1) /\ ~(q.top < 0)
  BY DEF RegistryType, RegistryFull
<1>4. mid.slots[n] = slot
  BY <1>2, <1>3
<1>5. ~RemoveAborts(mid, n) /\ mid.top + 1 = q.top /\ q.top \in Indices
  BY <1>2, <1>3, SizePositive DEF RemoveAborts, Indices
<1> HIDE DEF mid, n
<1>6. /\ new \in RegistryType(SlotType)
      /\ new.slots = [mid.slots EXCEPT ![n] = ClearSlot(slot)]
      /\ new.top = mid.top + 1
      /\ new.available_indices = [mid.available_indices EXCEPT ![mid.top + 1] = n]
      /\ ClearSlot(slot).future = Null /\ ClearSlot(slot).payload = Null
  <2>1. /\ new \in RegistryType(SlotType)
        /\ new.slots = [mid.slots EXCEPT ![n] = ClearSlot(mid.slots[n])]
        /\ new.top = mid.top + 1
        /\ new.available_indices = [mid.available_indices EXCEPT ![mid.top + 1] = n]
        /\ ClearSlot(mid.slots[n]).future = Null
        /\ ClearSlot(mid.slots[n]).payload = Null
    <3>1. n \in Indices /\ mid \in RegistryType(SlotType) /\ ~RemoveAborts(mid, n)
      BY <1>2, <1>5
    <3> QED
      BY <3>1, RemoveType, SlotClears
  <2> QED
    BY <1>4, <2>1
<1>7. new.available_indices = q.available_indices
  BY <1>2, <1>3, <1>5, <1>6 DEF n, NextIndex
<1>8. new.slots = [q.slots EXCEPT ![n] = ClearSlot(slot)]
  BY <1>2, <1>3, <1>6
<1>9. ASSUME WellFormed(q) PROVE q.slots[n].future = Null /\ WellFormed(new)
  <2>1. q.slots[n].future = Null /\ WellFormed(mid)
    BY <1>1, <1>9, AddWellFormed DEF mid, n
  <2> QED
    BY <1>1, <1>2, <1>4, <2>1, RemoveWellFormed, SlotClears
<1> QED
  BY <1>2, <1>5, <1>6, <1>7, <1>8, <1>9 DEF slot, n, mid

-----------------------------------------------------------------------------
(***************************************************************************)
(* Types.                                                                   *)
(***************************************************************************)
SqType == [queued : SUBSET SqeType, entries : [0 .. (SqEntries - 1) -> SqeType],
           tail : 0 .. (SqEntries - 1)]

LEMMA TailWraps ==
    /\ \A k \in Nat : k % SqEntries \in 0 .. (SqEntries - 1)
    /\ 2 % SqEntries \in 0 .. (SqEntries - 1)
BY SqAssumption

LEMMA PutType ==
    ASSUME NEW q \in SqType, NEW e \in SqeType
    PROVE  Put(q, e) \in SqType
<1>1. q.tail \in 0 .. (SqEntries - 1) /\ q.tail + 1 \in Nat
  BY SqAssumption DEF SqType
<1>2. (q.tail + 1) % SqEntries \in 0 .. (SqEntries - 1)
  BY <1>1, TailWraps
<1> QED
  BY <1>2 DEF SqType, Put

LEMMA MainSqeType ==
    ASSUME NEW c \in Calls, NEW r \in Reqs, NEW i \in Indices, c.sqe.shape # "crash"
    PROVE  MainSqe(c, r, i) \in SqeType
<1>1. c.sqe.shape \in {"oneshot", "multishot", "zerocopy"}
  BY CallsAssumption DEF Operations
<1>2. i \in -1 .. Size
  BY SizePositive DEF Indices
<1>3. c.closes => c.target \in Targets
  BY CallsAssumption DEF Consistent, Targets
<1> QED
  BY <1>1, <1>2, <1>3, PayloadType DEF MainSqe, Sqe, SqeType

LEMMA AbandonedType ==
    ASSUME sq \in SqType, NEW r \in Reqs PROVE AbandonedSqe(r) \in SqeType
<1>1. AtTail(sq) \in SqeType
  BY DEF SqType, AtTail
<1> QED
  BY <1>1 DEF AbandonedSqe, SqeType

LEMMA LinkType ==
    ASSUME NEW q \in SqType, NEW r \in Reqs
    PROVE  /\ Sqe("link_timeout", AtTail(q).ud, Null, Null, r, "link") \in SqeType
           /\ WithLinkedTimeout(q, r) \in SqType
<1>1. AtTail(q) \in SqeType
  BY DEF SqType, AtTail
<1>2. Sqe("link_timeout", AtTail(q).ud, Null, Null, r, "link") \in SqeType
  BY <1>1 DEF Sqe, SqeType
<1> QED
  BY <1>2, PutType DEF WithLinkedTimeout

LEMMA QueueType ==
    ASSUME sq \in SqType, NEW c \in Calls, NEW r \in Reqs, NEW e \in SqeType
    PROVE  QueueSqes(c, r, e) \in SqType
BY PutType, LinkType DEF QueueSqes

LEMMA TypeInit == Init => TypeOK
<1> SUFFICES ASSUME Init PROVE TypeOK
  OBVIOUS
<1>1. reg \in RegistryType(SlotType)
  BY NewRegistry, ZeroSlotType DEF Init
<1>2. \A k \in 0 .. (SqEntries - 1) :
        Sqe(IF k < 2 THEN "oneshot" ELSE "nop",
            CASE k = 0 -> Size [] k = 1 -> -1 [] OTHER -> 0,
            Null, Null, Null, "main") \in SqeType
  BY SizePositive DEF Sqe, SqeType
<1>3. sq \in SqType
  BY <1>2, TailWraps DEF Init, InitialSq, SqType
<1>4. /\ fut \in [Reqs -> FutureStates]
      /\ delivered \in [Reqs -> Delivery \cup {Null}]
      /\ closed \in [Targets -> BOOLEAN]
      /\ mem \subseteq Payloads
  BY DEF Init, FutureStates, Payloads
<1>5. inflight \subseteq SqeType /\ cq \in Seq(CqeType)
  BY DEF Init
<1>6. /\ raised \subseteq Reqs /\ unheard \subseteq Reqs /\ dropped \subseteq Reqs
      /\ fd_closed \subseteq Targets
  BY DEF Init
<1>7. pyerr \in BOOLEAN /\ double_free \in BOOLEAN /\ phase \in Phases
  BY DEF Init, Phases
<1> QED
  BY <1>1, <1>3, <1>4, <1>5, <1>6, <1>7 DEF TypeOK, SqType

\* The outcome of one treatment of a CQE for the future r.
Outcome(r, cqe) ==
    \/ /\ fut[r] = "pending"
       /\ \E state \in {"result", "exception"} : fut' = [fut EXCEPT ![r] = state]
       /\ delivered' = [delivered EXCEPT ![r] = [req |-> cqe.req, part |-> cqe.part]]
       /\ unheard' \subseteq unheard \cup {r}
       /\ pyerr' \in BOOLEAN /\ (phase = "running" => pyerr' = pyerr)
       /\ UNCHANGED <<raised, dropped>>
    \/ /\ fut[r] # "pending"
       /\ raised' = raised \cup {r}
       /\ pyerr' = TRUE
       /\ UNCHANGED <<fut, delivered, unheard, dropped>>
    \/ /\ pyerr
       /\ dropped' = dropped \cup {r}
       /\ pyerr' = (phase # "running")
       /\ UNCHANGED <<fut, delivered, raised, unheard>>

LEMMA ResolveOutcome ==
    ASSUME pyerr \in BOOLEAN, NEW r, NEW cqe, NEW state \in {"result", "exception"},
           NEW refused \in BOOLEAN, phase = "running" => ~refused,
           ResolveFuture(r, state, cqe, refused)
    PROVE  Outcome(r, cqe)
<1>1. CASE fut[r] = "pending"
  <2>1. /\ fut' = [fut EXCEPT ![r] = state]
        /\ delivered' = [delivered EXCEPT ![r] = [req |-> cqe.req, part |-> cqe.part]]
        /\ unheard' \subseteq unheard \cup {r}
        /\ UNCHANGED <<raised, dropped>>
    BY <1>1 DEF ResolveFuture
  <2>2. pyerr' = (pyerr \/ refused)
    BY <1>1 DEF ResolveFuture
  <2>3. pyerr' \in BOOLEAN /\ (phase = "running" => pyerr' = pyerr)
    BY <2>2
  <2> QED
    BY <1>1, <2>1, <2>3 DEF Outcome
<1>2. CASE fut[r] # "pending"
  BY <1>2 DEF ResolveFuture, Outcome
<1> QED
  BY <1>1, <1>2

LEMMA FailOutcome ==
    ASSUME pyerr \in BOOLEAN, NEW r, NEW cqe, NEW refused \in BOOLEAN,
           phase = "running" => ~refused,
           FailFuture(r, cqe, phase = "running", refused)
    PROVE  Outcome(r, cqe)
<1>1. CASE pyerr
  BY <1>1 DEF FailFuture, Outcome
<1>2. CASE ~pyerr
  BY <1>2, ResolveOutcome DEF FailFuture
<1> QED
  BY <1>1, <1>2

LEMMA OutcomeType ==
    ASSUME TypeOK, NEW r \in Reqs, NEW cqe \in CqeType, Outcome(r, cqe)
    PROVE  /\ fut' \in [Reqs -> FutureStates]
           /\ delivered' \in [Reqs -> Delivery \cup {Null}]
           /\ raised' \subseteq Reqs /\ unheard' \subseteq Reqs /\ dropped' \subseteq Reqs
           /\ pyerr' \in BOOLEAN
<1>1. [req |-> cqe.req, part |-> cqe.part] \in Delivery
  BY DEF CqeType, Delivery
<1>2. fut' \in [Reqs -> FutureStates]
  BY DEF TypeOK, Outcome, FutureStates
<1>3. delivered' \in [Reqs -> Delivery \cup {Null}]
  BY <1>1 DEF TypeOK, Outcome
<1>4. raised' \subseteq Reqs /\ unheard' \subseteq Reqs /\ dropped' \subseteq Reqs
  BY DEF TypeOK, Outcome
<1>5. pyerr' \in BOOLEAN
  BY DEF TypeOK, Outcome
<1> QED
  BY <1>2, <1>3, <1>4, <1>5

\* The parts of the type that only calls change.
LEMMA CallFailsType ==
    ASSUME TypeOK, NEW c \in Calls, NEW r \in Reqs, ~RegistryFull(reg), CallFails(c, r)
    PROVE  /\ reg' \in RegistryType(SlotType)
           /\ fut' \in [Reqs -> FutureStates]
           /\ mem' \subseteq Payloads
           /\ closed' \in [Targets -> BOOLEAN]
<1>1. reg' \in RegistryType(SlotType)
  BY HandlerFails DEF TypeOK, CallFails
<1>2. fut' \in [Reqs -> FutureStates]
  BY DEF TypeOK, CallFails, FutureStates
<1>3. mem' \subseteq Payloads
  BY DEF TypeOK, CallFails, Payloads
<1>4. closed' \in [Targets -> BOOLEAN]
  BY DEF TypeOK, CallFails
<1> QED
  BY <1>1, <1>2, <1>3, <1>4

LEMMA HandlerType ==
    ASSUME TypeOK, NEW c \in Calls, NEW r \in Reqs, Handler(c, r) PROVE TypeOK'
<1>0. sq \in SqType /\ reg \in RegistryType(SlotType)
  BY DEF TypeOK, SqType
<1>1. CASE CallRefused(c, r)
  <2>1. fut' \in [Reqs -> FutureStates]
    BY <1>1 DEF TypeOK, CallRefused, FutureStates
  <2> QED
    BY <1>1, <2>1 DEF TypeOK, CallRefused, kernelVars, outcomeVars, memoryVars
<1>2. CASE CallCrashes(c, r) \/ CallOnClosedLoop(c, r)
  BY <1>2 DEF TypeOK, CallCrashes, CallOnClosedLoop, kernelVars, futureVars, outcomeVars,
              memoryVars, Phases
<1>3. ASSUME sq' \in SqType, ~RegistryFull(reg), CallFails(c, r),
             UNCHANGED <<inflight, cq, fd_closed>>
      PROVE  TypeOK'
  BY <1>3, CallFailsType DEF TypeOK, SqType, CallFails, outcomeVars
<1>4. CASE CallNoSqe(c, r)
  BY <1>0, <1>3, <1>4 DEF CallNoSqe, kernelVars
<1>5. CASE CallNoTimeoutSqe(c, r)
  <2>1. sq' \in SqType
    BY <1>0, <1>5, PutType, AbandonedType DEF CallNoTimeoutSqe
  <2> QED
    BY <1>3, <1>5, <2>1 DEF CallNoTimeoutSqe
<1>6. CASE CallBadDomain(c, r)
  <2>1. sq' \in SqType
    BY <1>0, <1>6, QueueType, AbandonedType DEF CallBadDomain
  <2> QED
    BY <1>3, <1>6, <2>1 DEF CallBadDomain
<1>7. CASE CallSubmitFails(c, r)
  <2>0. NextIndex(reg) \in Indices
    BY <1>0, <1>7, HandlerAdds DEF CallSubmitFails
  <2>1. sq' \in SqType
    BY <1>0, <1>7, <2>0, QueueType, MainSqeType DEF CallSubmitFails
  <2> QED
    BY <1>3, <1>7, <2>1 DEF CallSubmitFails
<1>8. CASE CallSubmitted(c, r)
  <2> DEFINE q == QueueSqes(c, r, MainSqe(c, r, NextIndex(reg)))
  <2>0. NextIndex(reg) \in Indices /\ reg' \in RegistryType(SlotType)
    BY <1>0, <1>8, HandlerAdds DEF CallSubmitted
  <2>1. q \in SqType
    BY <1>0, <1>8, <2>0, QueueType, MainSqeType DEF CallSubmitted
  <2>2. sq' = [q EXCEPT !.queued = {}] /\ inflight' = inflight \cup q.queued
    BY <1>8 DEF CallSubmitted
  <2> HIDE DEF q
  <2>3. sq' \in SqType /\ inflight' \subseteq SqeType
    BY <2>1, <2>2 DEF SqType, TypeOK
  <2>4. fut' \in [Reqs -> FutureStates]
    BY <1>8 DEF TypeOK, CallSubmitted, FutureStates
  <2>5. mem' \subseteq Payloads
    BY <1>8 DEF TypeOK, CallSubmitted, Payloads
  <2>6. closed' \in [Targets -> BOOLEAN]
    BY <1>8 DEF TypeOK, CallSubmitted
  <2>7. UNCHANGED <<cq, fd_closed, outcomeVars, double_free, phase>>
    BY <1>8 DEF CallSubmitted
  <2> QED
    BY <2>0, <2>3, <2>4, <2>5, <2>6, <2>7 DEF TypeOK, SqType, outcomeVars
<1> QED
  BY <1>1, <1>2, <1>4, <1>5, <1>6, <1>7, <1>8 DEF Handler

LEMMA PostType ==
    ASSUME TypeOK, NEW x \in SqeType, NEW ok \in BOOLEAN, NEW more \in BOOLEAN,
           Post(x, ok, more)
    PROVE  cq' \in Seq(CqeType)
<1>1. [ud |-> x.ud, req |-> x.req, part |-> x.part, ok |-> ok, more |-> more] \in CqeType
  BY DEF SqeType, CqeType
<1> QED
  BY <1>1 DEF TypeOK, Post

LEMMA KernelType ==
    ASSUME TypeOK, NEW x \in inflight, Kernel(x) PROVE TypeOK'
<1>0. x \in SqeType
  BY DEF TypeOK
<1>1. ASSUME NEW ok \in BOOLEAN, KernelCompletes(x, ok) PROVE TypeOK'
  <2>1. cq' \in Seq(CqeType)
    BY <1>0, <1>1, PostType DEF KernelCompletes
  <2>2. inflight' \subseteq SqeType /\ fd_closed' \subseteq Targets
    BY <1>0, <1>1 DEF KernelCompletes, TypeOK, SqeType
  <2> QED
    BY <1>1, <2>1, <2>2 DEF TypeOK, KernelCompletes, futureVars, outcomeVars, memoryVars
<1>2. CASE KernelPostsMore(x)
  <2>1. cq' \in Seq(CqeType)
    BY <1>0, <1>2, PostType DEF KernelPostsMore
  <2> QED
    BY <1>2, <2>1 DEF TypeOK, KernelPostsMore, futureVars, outcomeVars, memoryVars
<1>3. ASSUME NEW ok \in BOOLEAN, KernelSendsZeroCopy(x, ok) PROVE TypeOK'
  <2>1. cq' \in Seq(CqeType)
    BY <1>0, <1>3, PostType DEF KernelSendsZeroCopy
  <2>2. [x EXCEPT !.shape = "notification"] \in SqeType
    BY <1>0 DEF SqeType
  <2>3. inflight' \subseteq SqeType
    BY <1>3, <2>2 DEF KernelSendsZeroCopy, TypeOK
  <2> QED
    BY <1>3, <2>1, <2>3 DEF TypeOK, KernelSendsZeroCopy, futureVars, outcomeVars, memoryVars
<1> QED
  BY <1>1, <1>2, <1>3 DEF Kernel

\* The CQE at the head of the queue and the slot it leads to.
LEMMA HeadSlot ==
    ASSUME TypeOK, cq # << >>
    PROVE  /\ Head(cq) \in CqeType /\ Tail(cq) \in Seq(CqeType)
           /\ registry_get(reg, Head(cq).ud) # Null =>
                /\ Head(cq).ud \in Indices
                /\ registry_get(reg, Head(cq).ud) = reg.slots[Head(cq).ud]
           /\ \A i \in Indices : reg.slots[i] \in SlotType /\ reg.slots[i] # Null
<1>1. Head(cq) \in CqeType /\ Tail(cq) \in Seq(CqeType)
  BY DEF TypeOK
<1>2. \A i \in Indices : reg.slots[i] \in SlotType /\ reg.slots[i] # Null
  BY NullIsNoRecord DEF TypeOK, RegistryType
<1> QED
  BY <1>1, <1>2 DEF registry_get

\* What the reader does with a CQE whose slot is in use.
LEMMA ReaderEffect ==
    ASSUME TypeOK, ReaderResolves
    PROVE  LET cqe == Head(cq)
               slot == reg.slots[cqe.ud]
           IN  /\ phase = "running" /\ cq # << >>
               /\ cqe \in CqeType /\ cq' = Tail(cq) /\ cq' \in Seq(CqeType)
               /\ cqe.ud \in Indices /\ slot \in SlotType /\ slot.future \in Reqs
               /\ Outcome(slot.future, cqe)
               /\ IF RemoveAborts(reg, cqe.ud)
                    THEN phase' = "aborted" /\ reg' = reg
                    ELSE reg' = registry_remove(reg, cqe.ud) /\ phase' = phase
               /\ closed' \in [Targets -> BOOLEAN]
               /\ mem' \subseteq mem /\ double_free' \in BOOLEAN
               /\ UNCHANGED <<sq, inflight, fd_closed>>
<1> DEFINE cqe == Head(cq)
           slot == reg.slots[cqe.ud]
<1>0. phase = "running" /\ cq # << >> /\ HasFuture(cqe)
  BY DEF ReaderResolves
<1>1. registry_get(reg, cqe.ud) # Null /\ registry_get(reg, cqe.ud).future # Null
  BY <1>0 DEF HasFuture
<1>2. /\ cqe \in CqeType /\ Tail(cq) \in Seq(CqeType)
      /\ cqe.ud \in Indices
      /\ registry_get(reg, cqe.ud) = slot
      /\ slot \in SlotType
  BY <1>0, <1>1, HeadSlot
<1>3. slot.future \in Reqs
  BY <1>1, <1>2 DEF SlotType
<1>4. /\ IF cqe.ok THEN ResolveFuture(slot.future, "result", cqe, FALSE)
                   ELSE FailFuture(slot.future, cqe, TRUE, FALSE)
      /\ mem' \subseteq mem
      /\ IF RemoveAborts(reg, cqe.ud)
           THEN phase' = "aborted" /\ reg' = reg
           ELSE reg' = registry_remove(reg, cqe.ud) /\ phase' = phase
      /\ cq' = Tail(cq)
      /\ UNCHANGED <<sq, inflight, fd_closed>>
  BY <1>2 DEF ReaderResolves
<1>5. Outcome(slot.future, cqe)
  <2>0. pyerr \in BOOLEAN
    BY DEF TypeOK
  <2>1. CASE cqe.ok
    <3>1. ResolveFuture(slot.future, "result", cqe, FALSE)
      BY <1>4, <2>1
    <3> QED
      BY <2>0, <3>1, ResolveOutcome
  <2>2. CASE ~cqe.ok
    <3>1. FailFuture(slot.future, cqe, phase = "running", FALSE)
      BY <1>0, <1>4, <2>2 DEF FailFuture, ResolveFuture
    <3> QED
      BY <2>0, <3>1, FailOutcome
  <2> QED
    BY <2>1, <2>2
<1>6. closed' \in [Targets -> BOOLEAN]
  BY <1>2 DEF ReaderResolves, TypeOK
<1>7. double_free' \in BOOLEAN
  BY <1>2 DEF ReaderResolves, TypeOK
<1> QED
  BY <1>0, <1>2, <1>3, <1>4, <1>5, <1>6, <1>7

\* What the drain loop does with a CQE that leads to a slot.
LEMMA DrainEffect ==
    ASSUME TypeOK, DrainRemoves
    PROVE  LET cqe == Head(cq)
               slot == reg.slots[cqe.ud]
               freed == FreedBy(slot.payload, FALSE)
           IN  /\ phase = "draining" /\ cq # << >>
               /\ cqe \in CqeType /\ cq' = Tail(cq) /\ cq' \in Seq(CqeType)
               /\ cqe.ud \in Indices /\ slot \in SlotType
               /\ slot.future # Null => slot.future \in Reqs /\ Outcome(slot.future, cqe)
               /\ slot.future = Null => UNCHANGED futureVars
               /\ IF RemoveAborts(reg, cqe.ud)
                    THEN phase' = "aborted" /\ UNCHANGED <<reg, mem, double_free>>
                    ELSE /\ reg' = registry_remove(reg, cqe.ud) /\ phase' = phase
                         /\ mem' = mem \ freed
                         /\ double_free' = (double_free \/ ~(freed \subseteq mem))
               /\ UNCHANGED <<sq, inflight, fd_closed, closed>>
<1> DEFINE cqe == Head(cq)
           slot == reg.slots[cqe.ud]
<1>0. phase = "draining" /\ cq # << >> /\ registry_get(reg, cqe.ud) # Null
  BY DEF DrainRemoves
<1>2. /\ cqe \in CqeType /\ Tail(cq) \in Seq(CqeType)
      /\ cqe.ud \in Indices
      /\ registry_get(reg, cqe.ud) = slot
      /\ slot \in SlotType
  BY <1>0, HeadSlot
<1>3. slot.future # Null => slot.future \in Reqs
  BY <1>2 DEF SlotType
<1>4. /\ IF slot.future # Null
           THEN \E awaited \in BOOLEAN : FailFuture(slot.future, cqe, FALSE, awaited)
           ELSE UNCHANGED futureVars
      /\ IF RemoveAborts(reg, cqe.ud)
           THEN phase' = "aborted" /\ UNCHANGED <<reg, mem, double_free>>
           ELSE /\ reg' = registry_remove(reg, cqe.ud) /\ phase' = phase
                /\ mem' = mem \ FreedBy(slot.payload, FALSE)
                /\ double_free' = (double_free \/ ~(FreedBy(slot.payload, FALSE) \subseteq mem))
      /\ cq' = Tail(cq)
      /\ UNCHANGED <<sq, inflight, fd_closed, closed>>
  BY <1>2 DEF DrainRemoves, memoryVars
<1>5. slot.future # Null => Outcome(slot.future, cqe)
  <2> SUFFICES ASSUME slot.future # Null PROVE Outcome(slot.future, cqe)
    OBVIOUS
  <2>0. pyerr \in BOOLEAN
    BY DEF TypeOK
  <2>1. PICK awaited \in BOOLEAN : FailFuture(slot.future, cqe, FALSE, awaited)
    BY <1>4
  <2>2. FailFuture(slot.future, cqe, phase = "running", awaited)
    BY <1>0, <2>1 DEF FailFuture, ResolveFuture
  <2> QED
    BY <1>0, <2>0, <2>2, FailOutcome
<1> QED
  BY <1>0, <1>2, <1>3, <1>4, <1>5

\* registry_remove, as the reader and the drain loop call it.
LEMMA Removal ==
    ASSUME NEW q \in RegistryType(SlotType), NEW i \in Indices, ~RemoveAborts(q, i)
    PROVE  /\ registry_remove(q, i) \in RegistryType(SlotType)
           /\ registry_remove(q, i).slots = [q.slots EXCEPT ![i] = ClearSlot(q.slots[i])]
           /\ ClearSlot(q.slots[i]).future = Null
           /\ ClearSlot(q.slots[i]).payload = Null
<1>1. registry_remove(q, i) \in RegistryType(SlotType)
  BY RemoveType, SlotClears, Zenon
<1>2. registry_remove(q, i).slots = [q.slots EXCEPT ![i] = ClearSlot(q.slots[i])]
  BY DEF registry_remove, RegistryType
<1>3. ClearSlot(q.slots[i]).future = Null /\ ClearSlot(q.slots[i]).payload = Null
  BY SlotClears DEF Clearable, RegistryType
<1> QED
  BY <1>1, <1>2, <1>3

LEMMA TypeStep == TypeOK /\ [Next]_vars => TypeOK'
<1> SUFFICES ASSUME TypeOK, [Next]_vars PROVE TypeOK'
  OBVIOUS
<1>0. sq \in SqType
  BY DEF TypeOK, SqType
<1>1. CASE UNCHANGED vars
  BY <1>1 DEF TypeOK, vars
<1>2. ASSUME NEW r \in Reqs, NEW c \in Calls, Handler(c, r) PROVE TypeOK'
  BY <1>2, HandlerType
<1>3. ASSUME NEW r \in Reqs, CancelFuture(r) PROVE TypeOK'
  <2>1. fut' \in [Reqs -> FutureStates]
    BY <1>3 DEF TypeOK, CancelFuture, FutureStates
  <2> QED
    BY <1>3, <2>1 DEF TypeOK, CancelFuture, kernelVars, outcomeVars, memoryVars
<1>4. CASE RunOnceSubmits
  <2>1. sq' \in SqType /\ inflight' \subseteq SqeType
    BY <1>0, <1>4 DEF RunOnceSubmits, SqType, TypeOK
  <2> QED
    BY <1>4, <2>1 DEF TypeOK, SqType, RunOnceSubmits, futureVars, outcomeVars, memoryVars
<1>5. CASE RunOnceRaises
  BY <1>5 DEF TypeOK, RunOnceRaises, kernelVars, memoryVars
<1>6. ASSUME NEW ok \in BOOLEAN, ProvideBuffers(ok) PROVE TypeOK'
  <2> DEFINE x == Sqe("provide", AtTail(sq).ud, Null, Null, Null, "main")
  <2>1. AtTail(sq) \in SqeType
    BY <1>0 DEF SqType, AtTail
  <2>2. x \in SqeType
    BY <2>1 DEF Sqe, SqeType
  <2>3. [ud |-> x.ud, req |-> Null, part |-> "main", ok |-> ok, more |-> FALSE] \in CqeType
    BY <2>2 DEF SqeType, CqeType
  <2>4. /\ sq' = [Put(sq, x) EXCEPT !.queued = {}]
        /\ inflight' = inflight \cup sq.queued
        /\ cq' = Append(cq, [ud |-> x.ud, req |-> Null, part |-> "main",
                             ok |-> ok, more |-> FALSE])
    BY <1>6 DEF ProvideBuffers
  <2> HIDE DEF x
  <2>5. Put(sq, x) \in SqType
    BY <1>0, <2>2, PutType
  <2>6. sq' \in SqType /\ inflight' \subseteq SqeType /\ cq' \in Seq(CqeType)
    BY <1>0, <2>3, <2>4, <2>5 DEF SqType, TypeOK
  <2> QED
    BY <1>6, <2>6 DEF TypeOK, SqType, ProvideBuffers, futureVars, outcomeVars, memoryVars
<1>7. ASSUME NEW x \in inflight, Kernel(x) PROVE TypeOK'
  BY <1>7, KernelType
<1>8. CASE ReaderIgnores \/ DrainIgnores
  <2>1. cq' \in Seq(CqeType)
    BY <1>8, HeadSlot DEF ReaderIgnores, DrainIgnores
  <2> QED
    BY <1>8, <2>1 DEF TypeOK, ReaderIgnores, DrainIgnores, futureVars, outcomeVars, memoryVars
<1>9. CASE ReaderCrashes \/ Close
  BY <1>9 DEF TypeOK, ReaderCrashes, Close, kernelVars, futureVars, outcomeVars, memoryVars,
              Phases
<1>10. CASE ReaderResolves
  <2>1. reg' \in RegistryType(SlotType) /\ phase' \in Phases
    BY <1>10, ReaderEffect, Removal DEF TypeOK, Phases
  <2>2. /\ fut' \in [Reqs -> FutureStates]
        /\ delivered' \in [Reqs -> Delivery \cup {Null}]
        /\ raised' \subseteq Reqs /\ unheard' \subseteq Reqs /\ dropped' \subseteq Reqs
        /\ pyerr' \in BOOLEAN
    BY <1>10, ReaderEffect, OutcomeType
  <2>3. /\ cq' \in Seq(CqeType) /\ closed' \in [Targets -> BOOLEAN] /\ double_free' \in BOOLEAN
        /\ mem' \subseteq Payloads
        /\ UNCHANGED <<sq, inflight, fd_closed>>
    BY <1>10, ReaderEffect DEF TypeOK
  <2> QED
    BY <2>1, <2>2, <2>3 DEF TypeOK
<1>11. CASE DrainRemoves
  <2> DEFINE slot == reg.slots[Head(cq).ud]
  <2>1. reg' \in RegistryType(SlotType) /\ phase' \in Phases
    BY <1>11, DrainEffect, Removal DEF TypeOK, Phases
  <2>2. /\ fut' \in [Reqs -> FutureStates]
        /\ delivered' \in [Reqs -> Delivery \cup {Null}]
        /\ raised' \subseteq Reqs /\ unheard' \subseteq Reqs /\ dropped' \subseteq Reqs
        /\ pyerr' \in BOOLEAN
    <3>1. CASE slot.future # Null
      BY <1>11, <3>1, DrainEffect, OutcomeType
    <3>2. CASE slot.future = Null
      BY <1>11, <3>2, DrainEffect DEF TypeOK, futureVars, outcomeVars
    <3> QED
      BY <3>1, <3>2
  <2>3. /\ cq' \in Seq(CqeType) /\ mem' \subseteq Payloads
        /\ UNCHANGED <<sq, inflight, fd_closed, closed>>
    BY <1>11, DrainEffect DEF TypeOK
  <2>4. double_free' \in BOOLEAN
    BY <1>11, DrainEffect DEF TypeOK
  <2> QED
    BY <2>1, <2>2, <2>3, <2>4 DEF TypeOK
<1>12. CASE DestroyRegistry
  <2>1. mem' \subseteq Payloads
    BY <1>12 DEF DestroyRegistry, TypeOK
  <2>2. double_free' \in BOOLEAN /\ pyerr' \in BOOLEAN /\ phase' \in Phases
    BY <1>12 DEF DestroyRegistry, TypeOK, Phases
  <2> QED
    BY <1>12, <2>1, <2>2 DEF DestroyRegistry, TypeOK, kernelVars
<1>13. CASE DestroyRing
  BY <1>13 DEF DestroyRing, TypeOK, futureVars, outcomeVars, memoryVars, Phases
<1> QED
  BY <1>1, <1>2, <1>3, <1>4, <1>5, <1>6, <1>7, <1>8, <1>9, <1>10, <1>11, <1>12, <1>13
     DEF Next, Reader, Shutdown, Terminated

\* Every SQE, CQE, slot and future has its type: no call, CQE or shutdown step
\* moves an index, a queue or the state of a future outside its range.
THEOREM RequestTypeCorrect == Spec => []TypeOK
BY TypeInit, TypeStep, PTL DEF Spec

-----------------------------------------------------------------------------
(***************************************************************************)
(* The steps, by what they do to the slots, the futures and the payloads.   *)
(***************************************************************************)
Live == phase \in {"running", "draining"}

\* Neither slots nor futures nor payloads change.
Idle ==
    /\ UNCHANGED <<reg, fut, delivered, raised, unheard, dropped, mem, double_free>>
    /\ pyerr' => pyerr
    /\ Live' => Live
    /\ phase' = "running" => phase = "running"

\* The call of one of the actions that end in CallFails.
Fails(c, r) == MayCall(c, r) /\ ~RegistryFull(reg) /\ CallFails(c, r)

LEMMA StepCases ==
    ASSUME TypeOK, [Next]_vars
    PROVE  \/ Idle
           \/ \E r \in Reqs, c \in Calls : CallRefused(c, r) \/ Fails(c, r) \/ CallSubmitted(c, r)
           \/ \E r \in Reqs : CancelFuture(r)
           \/ ReaderResolves
           \/ DrainRemoves
           \/ DestroyRegistry
<1> USE DEF Idle, Live, futureVars, outcomeVars, memoryVars
<1>1. CASE UNCHANGED vars
  BY <1>1 DEF vars
<1>2. ASSUME NEW r \in Reqs, NEW c \in Calls, Handler(c, r)
      PROVE  Idle \/ CallRefused(c, r) \/ Fails(c, r) \/ CallSubmitted(c, r)
  <2>1. CASE CallCrashes(c, r) \/ CallOnClosedLoop(c, r)
    BY <2>1 DEF CallCrashes, CallOnClosedLoop
  <2>2. CASE \/ CallNoSqe(c, r) \/ CallNoTimeoutSqe(c, r)
             \/ CallBadDomain(c, r) \/ CallSubmitFails(c, r)
    BY <2>2 DEF Fails, CallNoSqe, CallNoTimeoutSqe, CallBadDomain, CallSubmitFails
  <2> QED
    BY <1>2, <2>1, <2>2 DEF Handler
<1>3. CASE RunOnceSubmits \/ RunOnceRaises \/ \E ok \in BOOLEAN : ProvideBuffers(ok)
  BY <1>3 DEF RunOnceSubmits, RunOnceRaises, ProvideBuffers
<1>4. ASSUME NEW x \in inflight, Kernel(x) PROVE Idle
  <2>1. ASSUME NEW ok \in BOOLEAN, KernelCompletes(x, ok) PROVE Idle
    BY <2>1 DEF KernelCompletes
  <2>2. ASSUME NEW ok \in BOOLEAN, KernelSendsZeroCopy(x, ok) PROVE Idle
    BY <2>2 DEF KernelSendsZeroCopy
  <2>3. CASE KernelPostsMore(x)
    BY <2>3 DEF KernelPostsMore
  <2> QED
    BY <1>4, <2>1, <2>2, <2>3 DEF Kernel
<1>5. CASE ReaderIgnores \/ ReaderCrashes \/ Close \/ DrainIgnores \/ DestroyRing \/ Terminated
  BY <1>5 DEF ReaderIgnores, ReaderCrashes, Close, DrainIgnores, DestroyRing, Terminated, vars
<1> QED
  BY <1>1, <1>2, <1>3, <1>4, <1>5 DEF Next, Reader, Shutdown

-----------------------------------------------------------------------------
(***************************************************************************)
(* The registry stays exact while the loop runs: the reader removes a slot  *)
(* only when it is in use, and a handler that fails removes its own.        *)
(***************************************************************************)
StackInv == TypeOK /\ StackMatchesSlots

\* The abort() of registry_remove is not reached by the reader.
LEMMA ReaderRemoves ==
    ASSUME StackInv, ReaderResolves
    PROVE  LET i == Head(cq).ud IN
           /\ ~RemoveAborts(reg, i)
           /\ reg' = registry_remove(reg, i)
           /\ phase' = "running"
           /\ WellFormed(reg')
           /\ reg' \in RegistryType(SlotType)
           /\ reg'.slots = [reg.slots EXCEPT ![i] = ClearSlot(reg.slots[i])]
           /\ ClearSlot(reg.slots[i]).future = Null
           /\ ClearSlot(reg.slots[i]).payload = Null
<1> DEFINE i == Head(cq).ud
<1>1. /\ phase = "running" /\ i \in Indices /\ reg.slots[i].future \in Reqs
      /\ ~RemoveAborts(reg, i) => reg' = registry_remove(reg, i) /\ phase' = phase
  BY ReaderEffect DEF StackInv
<1>2. reg \in RegistryType(SlotType) /\ WellFormed(reg) /\ reg.slots[i].future # Null
  BY <1>1, ReqsAssumption DEF StackInv, TypeOK, StackMatchesSlots
<1> HIDE DEF i
<1>3. ~RemoveAborts(reg, i)
  BY <1>1, <1>2, InUseLeavesRoom
<1>4. WellFormed(registry_remove(reg, i))
  BY <1>1, <1>2, RemoveWellFormed, SlotClears
<1>5. /\ registry_remove(reg, i) \in RegistryType(SlotType)
      /\ registry_remove(reg, i).slots = [reg.slots EXCEPT ![i] = ClearSlot(reg.slots[i])]
      /\ ClearSlot(reg.slots[i]).future = Null
      /\ ClearSlot(reg.slots[i]).payload = Null
  BY <1>1, <1>2, <1>3, Removal
<1> QED
  BY <1>1, <1>3, <1>4, <1>5 DEF i

LEMMA StackInit == Init => StackInv
<1> SUFFICES ASSUME Init PROVE StackInv
  OBVIOUS
<1>1. WellFormed(reg)
  BY NewRegistry, ZeroSlotType DEF Init
<1> QED
  BY <1>1, TypeInit DEF StackInv, StackMatchesSlots

LEMMA StackStep == StackInv /\ [Next]_vars => StackInv'
<1> SUFFICES ASSUME StackInv, [Next]_vars, phase' = "running" PROVE WellFormed(reg)'
  BY TypeStep DEF StackInv, StackMatchesSlots
<1>0. TypeOK /\ reg \in RegistryType(SlotType)
  BY DEF StackInv, TypeOK
<1>1. CASE Idle
  BY <1>1 DEF Idle, StackInv, StackMatchesSlots, WellFormed, FreeIndices
<1>2. ASSUME NEW r \in Reqs, NEW c \in Calls, CallRefused(c, r) PROVE WellFormed(reg)'
  BY <1>2 DEF CallRefused, MayCall, StackInv, StackMatchesSlots, WellFormed, FreeIndices
<1>3. ASSUME NEW r \in Reqs, NEW c \in Calls, Fails(c, r) PROVE WellFormed(reg)'
  <2>1. WellFormed(reg) /\ ~RegistryFull(reg)
    BY <1>3 DEF Fails, MayCall, StackInv, StackMatchesSlots
  <2>2. WellFormed(registry_remove(registry_add(reg, SlotOf(c, r)), NextIndex(reg)))
    BY <1>0, <2>1, HandlerFails
  <2> QED
    BY <1>3, <2>2 DEF Fails, CallFails
<1>4. ASSUME NEW r \in Reqs, NEW c \in Calls, CallSubmitted(c, r) PROVE WellFormed(reg)'
  <2>1. WellFormed(reg) /\ ~RegistryFull(reg)
    BY <1>4 DEF CallSubmitted, MayCall, StackInv, StackMatchesSlots
  <2>2. WellFormed(registry_add(reg, SlotOf(c, r)))
    BY <1>0, <2>1, HandlerAdds
  <2> QED
    BY <1>4, <2>2 DEF CallSubmitted
<1>5. ASSUME NEW r \in Reqs, CancelFuture(r) PROVE WellFormed(reg)'
  BY <1>5 DEF CancelFuture, StackInv, StackMatchesSlots, WellFormed, FreeIndices
<1>6. CASE ReaderResolves
  BY <1>6, ReaderRemoves
<1>7. CASE DrainRemoves \/ DestroyRegistry
  BY <1>0, <1>7, DrainEffect DEF DestroyRegistry
<1> QED
  BY <1>0, <1>1, <1>2, <1>3, <1>4, <1>5, <1>6, <1>7, StepCases

\* While the loop runs the stack of free indices is exact, whatever CQEs arrive:
\* also late ones, those of linked timeouts and of SQEs without user_data.
THEOREM RegistryStaysExact == Spec => []StackMatchesSlots
<1>1. StackInv => StackMatchesSlots
  BY DEF StackInv
<1> QED
  BY <1>1, StackInit, StackStep, PTL DEF Spec

-----------------------------------------------------------------------------
(***************************************************************************)
(* Who owns what.  Until the registry is destroyed every slot in use has a  *)
(* future of its own that no CQE has reached yet, and a payload that is     *)
(* allocated and that no other slot refers to, but for the context's.       *)
(***************************************************************************)
SlotOwned(i) ==
    LET slot == reg.slots[i] IN
    /\ slot.future # Null =>
          /\ fut[slot.future] \in {"pending", "cancelled"}
          /\ slot.future \notin raised
          /\ \A j \in Indices : reg.slots[j].future = slot.future => j = i
    /\ slot.payload # Null =>
          /\ slot.future # Null
          /\ slot.payload \in {slot.future, CtxPayload}
          /\ slot.payload \in mem
    /\ slot.opcode = "WRITE" => slot.payload # CtxPayload

SlotsOwned == Live => \A i \in Indices : SlotOwned(i)

MemoryInv == Live => CtxPayload \in mem /\ ~double_free

SlotInv == StackInv /\ SlotsOwned /\ MemoryInv /\ ResolvedOnce

LEMMA SlotsTyped ==
    ASSUME TypeOK
    PROVE  /\ reg.slots \in [Indices -> SlotType]
           /\ \A i \in Indices : /\ reg.slots[i].future \in Reqs \cup {Null}
                                 /\ reg.slots[i].payload \in Payloads \cup {Null}
<1>1. reg.slots \in [Indices -> SlotType]
  BY DEF TypeOK, RegistryType
<1> QED
  BY <1>1 DEF SlotType

LEMMA ClearedSlot ==
    ASSUME NEW slot \in SlotType
    PROVE  /\ ClearSlot(slot).future = Null
           /\ ClearSlot(slot).payload = Null
           /\ ClearSlot(slot).opcode = "NOP"
BY DEF ClearSlot, SlotType

\* The switch of the reader and registry_remove free a payload between them once.
LEMMA FreedBetweenThem ==
    ASSUME NEW slot, NEW ok \in BOOLEAN, slot.opcode = "WRITE" => slot.payload # CtxPayload
    PROVE  LET freed == SwitchFrees(slot, ok)
               removed == FreedBy(PayloadAfterSwitch(slot, ok), FALSE)
           IN  /\ freed \cup removed = FreedBy(slot.payload, FALSE)
               /\ freed \cap removed = {}
BY ReqsAssumption DEF SwitchFrees, FreedBy, PayloadAfterSwitch

LEMMA ReaderFrees ==
    ASSUME SlotInv, ReaderResolves
    PROVE  LET slot == reg.slots[Head(cq).ud]
           IN  mem' = mem \ FreedBy(slot.payload, FALSE) /\ ~double_free'
<1> DEFINE cqe == Head(cq)
           slot == reg.slots[cqe.ud]
<1>1. /\ phase = "running" /\ cqe.ud \in Indices /\ cqe \in CqeType /\ cq # << >>
      /\ slot \in SlotType /\ slot.future \in Reqs
  BY ReaderEffect DEF SlotInv, StackInv
<1>2. /\ slot.payload # Null => slot.payload \in mem
      /\ slot.opcode = "WRITE" => slot.payload # CtxPayload
      /\ ~double_free
  BY <1>1 DEF SlotInv, SlotsOwned, SlotOwned, MemoryInv, Live
<1>3. cqe.ok \in BOOLEAN
  BY <1>1 DEF CqeType
<1>4. registry_get(reg, cqe.ud) = slot
  BY <1>1 DEF registry_get
<1> DEFINE freed == SwitchFrees(slot, cqe.ok)
           removed == FreedBy(PayloadAfterSwitch(slot, cqe.ok), FALSE)
<1>5. /\ mem' = mem \ (freed \cup removed)
      /\ double_free' = (double_free \/ freed \cap removed # {}
                                     \/ ~((freed \cup removed) \subseteq mem))
  BY <1>4 DEF ReaderResolves
<1>6. freed \cup removed = FreedBy(slot.payload, FALSE) /\ freed \cap removed = {}
  BY <1>2, <1>3, FreedBetweenThem
<1>7. FreedBy(slot.payload, FALSE) \subseteq mem
  BY <1>2 DEF FreedBy
<1> HIDE DEF freed, removed
<1> QED
  BY <1>2, <1>5, <1>6, <1>7

\* A slot is cleared, its payload freed and its future told.
LEMMA ClearingKeepsSlots ==
    ASSUME TypeOK, Live, SlotsOwned, MemoryInv, ResolvedOnce, NEW i \in Indices, NEW cqe,
           reg'.slots = [reg.slots EXCEPT ![i] = ClearSlot(reg.slots[i])],
           mem' = mem \ FreedBy(reg.slots[i].payload, FALSE),
           reg.slots[i].future # Null => Outcome(reg.slots[i].future, cqe),
           reg.slots[i].future = Null => UNCHANGED futureVars
    PROVE  (\A j \in Indices : SlotOwned(j)') /\ CtxPayload \in mem'
<1>1. /\ reg.slots \in [Indices -> SlotType]
      /\ \A j \in Indices : reg.slots[j].future \in Reqs \cup {Null}
  BY SlotsTyped
<1>2. /\ reg'.slots[i].future = Null
      /\ reg'.slots[i].payload = Null
      /\ reg'.slots[i].opcode = "NOP"
      /\ \A j \in Indices : j # i => reg'.slots[j] = reg.slots[j]
  BY <1>1, ClearedSlot
<1>3. \A j \in Indices : SlotOwned(j)
  BY DEF SlotsOwned
<1>4. CtxPayload \in mem'
  BY DEF FreedBy, MemoryInv
<1>5. ASSUME NEW j \in Indices, j # i PROVE SlotOwned(j)'
  <2> DEFINE slot == reg.slots[j]
  <2>1. reg'.slots[j] = slot /\ SlotOwned(j)
    BY <1>2, <1>3, <1>5
  <2>2. ASSUME slot.future # Null
        PROVE  /\ slot.future \in Reqs /\ slot.future # reg.slots[i].future
               /\ fut'[slot.future] = fut[slot.future]
               /\ slot.future \in raised' => slot.future \in raised
    <3>1. slot.future \in Reqs /\ slot.future # reg.slots[i].future
      BY <1>1, <1>5, <2>1, <2>2 DEF SlotOwned
    <3>2. CASE reg.slots[i].future = Null
      BY <3>1, <3>2 DEF futureVars, outcomeVars
    <3>3. CASE reg.slots[i].future # Null
      BY <3>1, <3>3 DEF Outcome, TypeOK
    <3> QED
      BY <3>1, <3>2, <3>3
  <2>3. ASSUME slot.payload # Null PROVE slot.payload \in mem'
    <3>1. /\ slot.future # Null /\ slot.payload \in {slot.future, CtxPayload}
          /\ slot.payload \in mem
      BY <2>1, <2>3 DEF SlotOwned
    <3>2. reg.slots[i].payload \in {reg.slots[i].future, CtxPayload, Null}
      BY <1>3 DEF SlotOwned
    <3>3. slot.payload \notin FreedBy(reg.slots[i].payload, FALSE)
      BY <2>2, <3>1, <3>2, ReqsAssumption DEF FreedBy
    <3> QED
      BY <3>1, <3>3
  <2>4. \A k \in Indices : reg'.slots[k].future = slot.future /\ slot.future # Null => k = j
    BY <1>2, <2>1 DEF SlotOwned
  <2> QED
    BY <2>1, <2>2, <2>3, <2>4 DEF SlotOwned
<1>6. SlotOwned(i)'
  BY <1>2 DEF SlotOwned
<1> QED
  BY <1>4, <1>5, <1>6

LEMMA OutcomeKeepsResolvedOnce ==
    ASSUME TypeOK, ResolvedOnce, NEW r \in Reqs, NEW cqe, Outcome(r, cqe),
           fut[r] \in {"pending", "cancelled"}
    PROVE  ResolvedOnce'
BY DEF ResolvedOnce, Outcome, TypeOK

\* A slot is filled for a new request, or cleared before anybody has seen it.
LEMMA HandlerKeepsSlots ==
    ASSUME TypeOK, SlotsOwned, MemoryInv, ResolvedOnce, Live, WellFormed(reg),
           NEW c \in Calls, NEW r \in Reqs, Fails(c, r) \/ CallSubmitted(c, r)
    PROVE  (\A j \in Indices : SlotOwned(j)') /\ CtxPayload \in mem' /\ ResolvedOnce'
<1>0. ~RegistryFull(reg) /\ fut[r] = "unused" /\ reg \in RegistryType(SlotType)
  BY DEF Fails, CallSubmitted, MayCall, TypeOK
<1>1. /\ reg.slots \in [Indices -> SlotType]
      /\ \A j \in Indices : reg.slots[j].future \in Reqs \cup {Null}
  BY SlotsTyped
<1>2. PICK n \in Indices : n = NextIndex(reg) /\ reg.slots[n].future = Null
  BY <1>0, HandlerAdds
<1> DEFINE new == reg'.slots[n]
<1>3. /\ \A j \in Indices : j # n => reg'.slots[j] = reg.slots[j]
      /\ \/ new.future = Null /\ new.payload = Null
         \/ /\ new = SlotOf(c, r) /\ fut'[r] = "pending"
            /\ c.payload = "own" => r \in mem'
      /\ new.opcode = "WRITE" => c.payload # "ctx" \/ new.payload = Null
  <2>1. CASE Fails(c, r)
    <3>1. /\ reg'.slots = [reg.slots EXCEPT ![n] = ClearSlot(SlotOf(c, r))]
          /\ ClearSlot(SlotOf(c, r)).future = Null
          /\ ClearSlot(SlotOf(c, r)).payload = Null
      BY <1>0, <1>2, <2>1, HandlerFails DEF Fails, CallFails
    <3> QED
      BY <1>1, <1>2, <3>1
  <2>2. CASE CallSubmitted(c, r)
    <3>1. reg'.slots = [reg.slots EXCEPT ![n] = SlotOf(c, r)]
      BY <1>0, <1>2, <2>2, HandlerAdds DEF CallSubmitted
    <3>2. fut'[r] = "pending" /\ (c.payload = "own" => r \in mem')
      BY <2>2 DEF CallSubmitted, TypeOK
    <3>3. SlotOf(c, r).opcode = "WRITE" => c.payload # "ctx"
      BY NewSlotType, CallsAssumption DEF Consistent
    <3> QED
      BY <1>1, <1>2, <3>1, <3>2, <3>3
  <2> QED
    BY <2>1, <2>2
<1>4. /\ mem \subseteq mem' /\ raised' = raised
      /\ \A s \in Reqs : s # r => fut'[s] = fut[s]
  BY DEF Fails, CallFails, CallSubmitted, TypeOK, outcomeVars
<1>5. CtxPayload \in mem'
  BY <1>4 DEF MemoryInv
<1>6. r \notin raised
  BY <1>0 DEF ResolvedOnce
<1>7. ResolvedOnce'
  BY <1>4, <1>6 DEF ResolvedOnce
<1>8. \A j \in Indices : SlotOwned(j) /\ reg.slots[j].future # r
  BY <1>0, ReqsAssumption DEF SlotsOwned, SlotOwned
<1>9. ASSUME NEW j \in Indices, j # n PROVE SlotOwned(j)'
  <2>1. reg'.slots[j] = reg.slots[j] /\ SlotOwned(j) /\ reg.slots[j].future # r
    BY <1>3, <1>8, <1>9
  <2>2. reg.slots[j].future # Null => fut'[reg.slots[j].future] = fut[reg.slots[j].future]
    BY <1>1, <1>4, <2>1
  <2>3. new.future \in {Null, r}
    BY <1>3, NewSlotType
  <2>4. \A k \in Indices :
          reg'.slots[k].future = reg.slots[j].future /\ reg.slots[j].future # Null => k = j
    BY <1>3, <2>1, <2>3 DEF SlotOwned
  <2> QED
    BY <1>4, <2>1, <2>2, <2>4 DEF SlotOwned
<1>10. SlotOwned(n)'
  <2>1. CASE new.future = Null /\ new.payload = Null
    BY <2>1, ReqsAssumption DEF SlotOwned
  <2>2. CASE /\ new = SlotOf(c, r) /\ fut'[r] = "pending"
             /\ c.payload = "own" => r \in mem'
    <3>1. /\ new.future = r /\ r # Null
          /\ new.payload \in {PayloadOf(c, r), Null}
      BY <2>2, NewSlotType
    <3>2. new.payload \in {r, CtxPayload, Null}
      BY <3>1, PayloadType
    <3>3. new.payload # Null => new.payload \in mem'
      BY <1>5, <2>2, <3>1, PayloadType, ReqsAssumption
    <3>4. \A j \in Indices : reg'.slots[j].future = r => j = n
      BY <1>3, <1>8
    <3>5. new.opcode = "WRITE" => new.payload # CtxPayload
      BY <1>3, <3>1, PayloadType, ReqsAssumption
    <3> QED
      BY <1>4, <1>6, <2>2, <3>1, <3>2, <3>3, <3>4, <3>5 DEF SlotOwned
  <2> QED
    BY <1>3, <2>1, <2>2
<1> QED
  BY <1>5, <1>7, <1>9, <1>10

LEMMA SlotInit == Init => SlotInv
<1> SUFFICES ASSUME Init PROVE SlotInv
  OBVIOUS
<1>1. StackInv
  BY StackInit
<1>2. \A i \in Indices : reg.slots[i] = ZeroSlot
  BY NewRegistry, ZeroSlotType DEF Init
<1>3. SlotsOwned
  BY <1>2 DEF SlotsOwned, SlotOwned, ZeroSlot
<1> QED
  BY <1>1, <1>3 DEF Init, SlotInv, MemoryInv, ResolvedOnce

LEMMA SlotStep == SlotInv /\ [Next]_vars => SlotInv'
<1> SUFFICES ASSUME SlotInv, [Next]_vars PROVE SlotInv'
  OBVIOUS
<1>0. TypeOK /\ StackInv /\ StackInv' /\ SlotsOwned /\ MemoryInv /\ ResolvedOnce
  BY StackStep DEF SlotInv, StackInv
<1> SUFFICES SlotsOwned' /\ MemoryInv' /\ ResolvedOnce'
  BY <1>0 DEF SlotInv
<1>1. CASE Idle
  BY <1>0, <1>1 DEF Idle, SlotsOwned, SlotOwned, MemoryInv, ResolvedOnce
<1>2. ASSUME NEW r \in Reqs, NEW c \in Calls, CallRefused(c, r)
      PROVE  SlotsOwned' /\ MemoryInv' /\ ResolvedOnce'
  <2>1. /\ fut[r] = "unused" /\ Live
        /\ \A s \in Reqs : s # r => fut'[s] = fut[s]
        /\ UNCHANGED <<reg, mem, double_free, raised>>
    BY <1>0, <1>2 DEF CallRefused, MayCall, TypeOK, memoryVars, outcomeVars, Live
  <2>2. \A i \in Indices : reg.slots[i].future \in Reqs \cup {Null}
    BY <1>0, SlotsTyped
  <2>3. SlotsOwned'
    BY <1>0, <2>1, <2>2 DEF SlotsOwned, SlotOwned
  <2> QED
    BY <1>0, <2>1, <2>3 DEF MemoryInv, ResolvedOnce
<1>3. ASSUME NEW r \in Reqs, NEW c \in Calls, Fails(c, r) \/ CallSubmitted(c, r)
      PROVE  SlotsOwned' /\ MemoryInv' /\ ResolvedOnce'
  <2>1. Live /\ WellFormed(reg) /\ ~double_free /\ double_free' = double_free
    BY <1>0, <1>3 DEF Fails, CallFails, CallSubmitted, MayCall, StackInv, StackMatchesSlots,
                      MemoryInv, Live
  <2>2. (\A j \in Indices : SlotOwned(j)') /\ CtxPayload \in mem' /\ ResolvedOnce'
    BY <1>0, <1>3, <2>1, HandlerKeepsSlots
  <2> QED
    BY <2>1, <2>2 DEF SlotsOwned, MemoryInv
<1>4. ASSUME NEW r \in Reqs, CancelFuture(r)
      PROVE  SlotsOwned' /\ MemoryInv' /\ ResolvedOnce'
  <2>1. /\ fut' = [fut EXCEPT ![r] = "cancelled"] /\ fut[r] = "pending"
        /\ UNCHANGED <<reg, mem, double_free, raised, phase>>
    BY <1>4 DEF CancelFuture, memoryVars, outcomeVars
  <2>2. \A i \in Indices : reg.slots[i].future \in Reqs \cup {Null}
    BY <1>0, SlotsTyped
  <2>3. \A s \in Reqs : fut'[s] = IF s = r THEN "cancelled" ELSE fut[s]
    BY <1>0, <2>1 DEF TypeOK
  <2>4. SlotsOwned'
    BY <1>0, <2>1, <2>2, <2>3 DEF SlotsOwned, SlotOwned, Live
  <2> QED
    BY <1>0, <2>1, <2>3, <2>4 DEF MemoryInv, ResolvedOnce, Live
<1>5. CASE ReaderResolves
  <2>1. PICK i \in Indices :
          /\ i = Head(cq).ud
          /\ reg'.slots = [reg.slots EXCEPT ![i] = ClearSlot(reg.slots[i])]
          /\ mem' = mem \ FreedBy(reg.slots[i].payload, FALSE) /\ ~double_free'
          /\ reg.slots[i].future \in Reqs
          /\ Outcome(reg.slots[i].future, Head(cq))
          /\ Live
    BY <1>0, <1>5, ReaderEffect, ReaderRemoves, ReaderFrees DEF SlotInv, Live
  <2>2. PICK cqe : cqe = Head(cq)
    OBVIOUS
  <2>3. (\A j \in Indices : SlotOwned(j)') /\ CtxPayload \in mem'
    BY <1>0, <2>1, <2>2, ClearingKeepsSlots, ReqsAssumption
  <2>4. PICK r \in Reqs : r = reg.slots[i].future
    BY <2>1
  <2>5. fut[r] \in {"pending", "cancelled"}
    BY <1>0, <2>1, <2>4, ReqsAssumption DEF SlotsOwned, SlotOwned
  <2>6. ResolvedOnce'
    BY <1>0, <2>1, <2>2, <2>4, <2>5, OutcomeKeepsResolvedOnce
  <2> QED
    BY <2>1, <2>3, <2>6 DEF SlotsOwned, MemoryInv
<1>6. CASE DrainRemoves
  <2>1. PICK i \in Indices :
          /\ i = Head(cq).ud
          /\ reg.slots[i].future # Null =>
               reg.slots[i].future \in Reqs /\ Outcome(reg.slots[i].future, Head(cq))
          /\ reg.slots[i].future = Null => UNCHANGED futureVars
          /\ RemoveAborts(reg, i) => phase' = "aborted"
          /\ ~RemoveAborts(reg, i) =>
               /\ reg' = registry_remove(reg, i)
               /\ mem' = mem \ FreedBy(reg.slots[i].payload, FALSE)
               /\ double_free'
                    = (double_free \/ ~(FreedBy(reg.slots[i].payload, FALSE) \subseteq mem))
          /\ Live
    BY <1>0, <1>6, DrainEffect DEF Live
  <2>2. ResolvedOnce'
    <3>1. CASE reg.slots[i].future = Null
      BY <1>0, <2>1, <3>1 DEF ResolvedOnce, futureVars, outcomeVars
    <3>2. CASE reg.slots[i].future # Null
      <4>1. PICK r \in Reqs : r = reg.slots[i].future
        BY <2>1, <3>2
      <4>2. PICK cqe : cqe = Head(cq)
        OBVIOUS
      <4>3. fut[r] \in {"pending", "cancelled"}
        BY <1>0, <2>1, <4>1, ReqsAssumption DEF SlotsOwned, SlotOwned
      <4> QED
        BY <1>0, <2>1, <3>2, <4>1, <4>2, <4>3, OutcomeKeepsResolvedOnce
    <3> QED
      BY <3>1, <3>2
  <2>3. CASE RemoveAborts(reg, i)
    BY <2>1, <2>2, <2>3 DEF SlotsOwned, MemoryInv, Live
  <2>4. CASE ~RemoveAborts(reg, i)
    <3>0. reg \in RegistryType(SlotType) /\ reg' = registry_remove(reg, i)
      BY <1>0, <2>1, <2>4 DEF TypeOK
    <3>1. reg'.slots = [reg.slots EXCEPT ![i] = ClearSlot(reg.slots[i])]
      BY <2>4, <3>0, Removal
    <3>2. PICK cqe : cqe = Head(cq)
      OBVIOUS
    <3>3. (\A j \in Indices : SlotOwned(j)') /\ CtxPayload \in mem'
      BY <1>0, <2>1, <2>4, <3>1, <3>2, ClearingKeepsSlots
    <3>4. FreedBy(reg.slots[i].payload, FALSE) \subseteq mem /\ ~double_free
      BY <1>0, <2>1 DEF FreedBy, SlotsOwned, SlotOwned, MemoryInv
    <3> QED
      BY <2>1, <2>2, <2>4, <3>3, <3>4 DEF SlotsOwned, MemoryInv
  <2> QED
    BY <2>3, <2>4
<1>7. CASE DestroyRegistry
  BY <1>0, <1>7 DEF DestroyRegistry, SlotsOwned, MemoryInv, ResolvedOnce, Live
<1> QED
  BY <1>0, <1>1, <1>2, <1>3, <1>4, <1>5, <1>6, <1>7, StepCases

LEMMA SlotInvariant == Spec => []SlotInv
BY SlotInit, SlotStep, PTL DEF Spec

\* No CQE, however late and whosever it is, reaches a future that another CQE has
\* resolved: set_result and set_exception raise for cancelled futures only.
THEOREM FuturesResolvedOnce == Spec => []ResolvedOnce
<1>1. SlotInv => ResolvedOnce
  BY DEF SlotInv
<1> QED
  BY <1>1, SlotInvariant, PTL

\* Until the registry is destroyed no payload is freed twice: not by the switch of
\* on_uring_ready and registry_remove, and not by two slots.
THEOREM PayloadsFreedOnce == Spec => []NoDoubleFree
<1>1. SlotInv => NoDoubleFree
  BY DEF SlotInv, MemoryInv, NoDoubleFree, Live
<1> QED
  BY <1>1, SlotInvariant, PTL

-----------------------------------------------------------------------------
(***************************************************************************)
(* What a cancellation costs.  The error that set_result leaves behind is   *)
(* an allowance for one skipped future; the reader spends it when it skips  *)
(* one, since it prints and clears the error then.                          *)
(***************************************************************************)
CostInv ==
    phase = "running" =>
        /\ IsFiniteSet(raised) /\ IsFiniteSet(dropped)
        /\ Cardinality(dropped) + (IF pyerr THEN 1 ELSE 0) <= Cardinality(raised)

LEMMA CostStep == SlotInv /\ CostInv /\ [Next]_vars => CostInv'
<1> SUFFICES ASSUME SlotInv, CostInv, [Next]_vars, phase' = "running" PROVE CostInv'
  BY DEF CostInv
<1>0. TypeOK
  BY DEF SlotInv, StackInv
<1>1. CASE Idle
  <2>1. /\ IsFiniteSet(raised) /\ IsFiniteSet(dropped)
        /\ Cardinality(dropped) + (IF pyerr THEN 1 ELSE 0) <= Cardinality(raised)
        /\ raised' = raised /\ dropped' = dropped /\ (pyerr' => pyerr)
    BY <1>1 DEF CostInv, Idle
  <2>2. Cardinality(dropped) \in Nat /\ Cardinality(raised) \in Nat
    BY <2>1, FS_CardinalityType
  <2> QED
    BY <2>1, <2>2 DEF CostInv
<1>2. ASSUME NEW r \in Reqs, NEW c \in Calls,
             CallRefused(c, r) \/ Fails(c, r) \/ CallSubmitted(c, r)
      PROVE  CostInv'
  BY <1>2 DEF CallRefused, Fails, CallFails, CallSubmitted, MayCall, CostInv, outcomeVars
<1>3. ASSUME NEW r \in Reqs, CancelFuture(r) PROVE CostInv'
  BY <1>3 DEF CancelFuture, CostInv, outcomeVars
<1>4. CASE ReaderResolves
  <2>1. PICK r \in Reqs : /\ Outcome(r, Head(cq)) /\ r \notin raised
                          /\ phase = "running"
    <3>1. /\ phase = "running" /\ Head(cq).ud \in Indices
          /\ reg.slots[Head(cq).ud].future \in Reqs
          /\ Outcome(reg.slots[Head(cq).ud].future, Head(cq))
      BY <1>0, <1>4, ReaderEffect
    <3>2. reg.slots[Head(cq).ud].future \notin raised
      BY <3>1, ReqsAssumption DEF SlotInv, SlotsOwned, SlotOwned, Live
    <3> QED
      BY <3>1, <3>2
  <2>2. /\ IsFiniteSet(raised) /\ IsFiniteSet(dropped)
        /\ Cardinality(dropped) + (IF pyerr THEN 1 ELSE 0) <= Cardinality(raised)
    BY <2>1 DEF CostInv
  <2>3. Cardinality(dropped) \in Nat /\ Cardinality(raised) \in Nat
    BY <2>2, FS_CardinalityType
  <2>4. /\ IsFiniteSet(raised \cup {r}) /\ Cardinality(raised \cup {r}) = Cardinality(raised) + 1
        /\ IsFiniteSet(dropped \cup {r}) /\ Cardinality(dropped \cup {r}) \in Nat
        /\ Cardinality(dropped \cup {r}) <= Cardinality(dropped) + 1
    <3>1. ASSUME NEW S, IsFiniteSet(S)
          PROVE  /\ IsFiniteSet(S \cup {r})
                 /\ Cardinality(S \cup {r}) = Cardinality(S) \/ r \notin S
                 /\ Cardinality(S \cup {r}) = Cardinality(S) + 1 \/ r \in S
      <4>1. CASE r \in S
        <5>1. S \cup {r} = S
          BY <4>1
        <5> QED
          BY <3>1, <4>1, <5>1
      <4>2. CASE r \notin S
        BY <3>1, <4>2, FS_AddElement
      <4> QED
        BY <4>1, <4>2
    <3>2. /\ IsFiniteSet(raised \cup {r})
          /\ Cardinality(raised \cup {r}) = Cardinality(raised) + 1
      BY <2>1, <2>2, <3>1
    <3>3. /\ IsFiniteSet(dropped \cup {r})
          /\ \/ Cardinality(dropped \cup {r}) = Cardinality(dropped)
             \/ Cardinality(dropped \cup {r}) = Cardinality(dropped) + 1
      BY <2>2, <3>1
    <3> QED
      BY <2>3, <3>2, <3>3
  <2>5. CASE raised' = raised /\ dropped' = dropped /\ pyerr' = pyerr
    BY <2>2, <2>5 DEF CostInv
  <2>6. CASE raised' = raised \cup {r} /\ dropped' = dropped /\ pyerr' = TRUE
    BY <2>2, <2>3, <2>4, <2>6 DEF CostInv
  <2>7. CASE raised' = raised /\ dropped' = dropped \cup {r} /\ pyerr /\ pyerr' = FALSE
    BY <2>2, <2>3, <2>4, <2>7 DEF CostInv
  <2> QED
    BY <2>1, <2>5, <2>6, <2>7 DEF Outcome
<1>5. CASE DrainRemoves \/ DestroyRegistry
  BY <1>0, <1>5, DrainEffect DEF DestroyRegistry
<1> QED
  BY <1>0, <1>1, <1>2, <1>3, <1>4, <1>5, StepCases

\* While the loop runs, each cancelled request makes the reader skip at most one
\* other future, however the CQEs are batched and whatever they carry.
THEOREM CancellationIsBounded == Spec => []CancellationSkipsOne
<1>1. Init => CostInv
  BY FS_EmptySet DEF Init, CostInv
<1>2. CostInv => CancellationSkipsOne
  <2> SUFFICES ASSUME CostInv, phase = "running"
               PROVE  Cardinality(dropped) <= Cardinality(raised)
    BY DEF CancellationSkipsOne
  <2>1. Cardinality(dropped) \in Nat /\ Cardinality(raised) \in Nat
    BY FS_CardinalityType DEF CostInv
  <2> QED
    BY <2>1 DEF CostInv
<1> QED
  BY <1>1, <1>2, CostStep, SlotInvariant, PTL DEF Spec

-----------------------------------------------------------------------------
(***************************************************************************)
(* Leaks.  The slot of a sendto does not refer to its payload; the others   *)
(* lose no payload.                                                         *)
(***************************************************************************)
AllSlotted == \A c \in Calls : c.payload = "own" => c.slotted

Held(r) == \E i \in Indices : reg.slots[i].payload = r

LEMMA RemovalLeaksNothing ==
    ASSUME TypeOK, NEW i \in Indices,
           reg'.slots = [reg.slots EXCEPT ![i] = ClearSlot(reg.slots[i])],
           mem' = mem \ FreedBy(reg.slots[i].payload, FALSE),
           \A r \in mem \cap Reqs : Held(r)
    PROVE  \A r \in mem' \cap Reqs : Held(r)'
<1> SUFFICES ASSUME NEW r \in mem' \cap Reqs PROVE Held(r)'
  OBVIOUS
<1>1. PICK j \in Indices : reg.slots[j].payload = r
  BY DEF Held
<1>2. j # i
  BY <1>1, ReqsAssumption DEF FreedBy
<1>3. reg'.slots[j].payload = r
  BY <1>1, <1>2, SlotsTyped
<1> QED
  BY <1>3 DEF Held

LEMMA LeakStep == SlotInv /\ (AllSlotted => NoLeak) /\ [Next]_vars => (AllSlotted => NoLeak)'
<1> SUFFICES ASSUME SlotInv, AllSlotted, NoLeak, [Next]_vars, Live'
             PROVE  \A r \in mem' \cap Reqs : Held(r)'
  BY DEF NoLeak, AllSlotted, Held, Live
<1>0. TypeOK /\ StackInv
  BY DEF SlotInv, StackInv
<1>a. Live => \A r \in mem \cap Reqs : Held(r)
  BY DEF NoLeak, Held, Live
<1>1. CASE Idle
  BY <1>1, <1>a DEF Idle, Held
<1>2. ASSUME NEW s \in Reqs, NEW c \in Calls, CallRefused(c, s)
      PROVE  \A r \in mem' \cap Reqs : Held(r)'
  BY <1>2, <1>a DEF CallRefused, MayCall, memoryVars, Held, Live
<1>3. ASSUME NEW s \in Reqs, NEW c \in Calls, Fails(c, s) \/ CallSubmitted(c, s)
      PROVE  \A r \in mem' \cap Reqs : Held(r)'
  <2>0. /\ ~RegistryFull(reg) /\ reg \in RegistryType(SlotType) /\ WellFormed(reg) /\ Live
        /\ reg.slots \in [Indices -> SlotType]
    BY <1>0, <1>3, SlotsTyped DEF Fails, CallSubmitted, MayCall, TypeOK, StackInv,
                                  StackMatchesSlots, Live
  <2>1. PICK n \in Indices : n = NextIndex(reg) /\ reg.slots[n].future = Null
    BY <2>0, HandlerAdds
  <2>2. reg.slots[n].payload = Null
    BY <2>0, <2>1 DEF SlotInv, SlotsOwned, SlotOwned
  <2>3. \A j \in Indices : j # n => reg'.slots[j] = reg.slots[j]
    <3>1. CASE Fails(c, s)
      <4>1. reg'.slots = [reg.slots EXCEPT ![n] = ClearSlot(SlotOf(c, s))]
        BY <2>0, <2>1, <3>1, HandlerFails DEF Fails, CallFails
      <4> QED
        BY <2>0, <4>1
    <3>2. CASE CallSubmitted(c, s)
      <4>1. reg'.slots = [reg.slots EXCEPT ![n] = SlotOf(c, s)]
        BY <2>0, <2>1, <3>2, HandlerAdds DEF CallSubmitted
      <4> QED
        BY <2>0, <4>1
    <3> QED
      BY <1>3, <3>1, <3>2
  <2>4. \A r \in mem \cap Reqs : Held(r)'
    BY <1>a, <2>0, <2>2, <2>3, ReqsAssumption DEF Held
  <2>5. CASE Fails(c, s)
    BY <2>4, <2>5 DEF Fails, CallFails, AllSlotted
  <2>6. CASE CallSubmitted(c, s)
    <3>1. c.payload = "own" => reg'.slots[n].payload = s
      <4>1. reg'.slots = [reg.slots EXCEPT ![n] = SlotOf(c, s)]
        BY <2>0, <2>1, <2>6, HandlerAdds DEF CallSubmitted
      <4>2. c.payload = "own" => SlotOf(c, s).payload = s
        BY NewSlotType, PayloadType DEF AllSlotted
      <4> QED
        BY <2>0, <4>1, <4>2
    <3>2. mem' = IF c.payload = "own" THEN mem \cup {s} ELSE mem
      BY <2>6 DEF CallSubmitted
    <3> QED
      BY <2>1, <2>4, <3>1, <3>2 DEF Held
  <2> QED
    BY <1>3, <2>5, <2>6
<1>4. ASSUME NEW s \in Reqs, CancelFuture(s) PROVE \A r \in mem' \cap Reqs : Held(r)'
  BY <1>4, <1>a DEF CancelFuture, memoryVars, Held, Live
<1>5. CASE ReaderResolves
  <2>1. PICK i \in Indices :
          /\ reg'.slots = [reg.slots EXCEPT ![i] = ClearSlot(reg.slots[i])]
          /\ mem' = mem \ FreedBy(reg.slots[i].payload, FALSE)
          /\ Live
    BY <1>0, <1>5, ReaderEffect, ReaderRemoves, ReaderFrees DEF Live
  <2> QED
    BY <1>0, <1>a, <2>1, RemovalLeaksNothing
<1>6. CASE DrainRemoves
  <2>1. PICK i \in Indices :
          /\ ~RemoveAborts(reg, i)
          /\ reg' = registry_remove(reg, i)
          /\ mem' = mem \ FreedBy(reg.slots[i].payload, FALSE)
          /\ Live
    BY <1>0, <1>6, DrainEffect DEF Live
  <2>2. reg \in RegistryType(SlotType)
    BY <1>0 DEF TypeOK
  <2>3. reg'.slots = [reg.slots EXCEPT ![i] = ClearSlot(reg.slots[i])]
    BY <2>1, <2>2, Removal
  <2> QED
    BY <1>0, <1>a, <2>1, <2>3, RemovalLeaksNothing
<1>7. CASE DestroyRegistry
  BY <1>7 DEF DestroyRegistry, Live
<1> QED
  BY <1>0, <1>1, <1>2, <1>3, <1>4, <1>5, <1>6, <1>7, StepCases

\* Without sendto, whose slot forgets its payload, no path of a handler, of the
\* reader or of the drain loop drops a payload without freeing it.
THEOREM NothingLeaks == Spec => [](AllSlotted => NoLeak)
<1>1. Init => (AllSlotted => NoLeak)
  BY ReqsAssumption DEF Init, NoLeak
<1> QED
  BY <1>1, LeakStep, SlotInvariant, PTL DEF Spec

-----------------------------------------------------------------------------
(***************************************************************************)
(* A call that raises.  __aexit__ of a target that is closed already resets *)
(* `closed' when its submission fails; sendto leaks its payload.            *)
(***************************************************************************)
AllCheckClosed == \A c \in Calls : c.marks_closed => c.checks_closed /\ c.target \in Targets

\* Without sendto and __aexit__, a call that raises leaves the free indices, the
\* buffers and the closed flags as they were, whichever step of it has failed.
THEOREM RefusedCallsLeaveNoTrace ==
    AllSlotted /\ AllCheckClosed /\ Spec => RefusedCallLeavesNoTrace
<1> SUFFICES ASSUME AllSlotted, AllCheckClosed PROVE Spec => RefusedCallLeavesNoTrace
  OBVIOUS
<1>1. TypeOK /\ [Next]_vars =>
        [\A r \in Reqs : fut[r] = "unused" /\ fut'[r] = "refused" =>
         /\ reg'.top = reg.top
         /\ reg'.available_indices = reg.available_indices
         /\ mem' = mem
         /\ closed' = closed]_vars
  <2> SUFFICES ASSUME TypeOK, [Next]_vars,
                      NEW r \in Reqs, fut[r] = "unused", fut'[r] = "refused"
               PROVE  /\ reg'.top = reg.top
                      /\ reg'.available_indices = reg.available_indices
                      /\ mem' = mem
                      /\ closed' = closed
    OBVIOUS
  <2>1. CASE Idle
    BY <2>1 DEF Idle
  <2>2. ASSUME NEW s \in Reqs, NEW c \in Calls, CallRefused(c, s)
        PROVE  UNCHANGED <<reg, mem, closed>>
    BY <2>2 DEF CallRefused, memoryVars
  <2>3. ASSUME NEW s \in Reqs, NEW c \in Calls, Fails(c, s)
        PROVE  /\ reg'.top = reg.top
               /\ reg'.available_indices = reg.available_indices
               /\ mem' = mem
               /\ closed' = closed
    <3>1. reg'.top = reg.top /\ reg'.available_indices = reg.available_indices
      BY <2>3, HandlerFails DEF Fails, CallFails, TypeOK
    <3>2. mem' = mem
      BY <2>3 DEF Fails, CallFails, AllSlotted
    <3>3. closed' = closed
      BY <2>3 DEF Fails, CallFails, MayCall, AllCheckClosed, TypeOK
    <3> QED
      BY <3>1, <3>2, <3>3
  <2>4. ASSUME NEW s \in Reqs, NEW c \in Calls, CallSubmitted(c, s) PROVE FALSE
    BY <2>4 DEF CallSubmitted, TypeOK
  <2>5. ASSUME NEW s \in Reqs, CancelFuture(s) PROVE FALSE
    BY <2>5 DEF CancelFuture, TypeOK
  <2>6. CASE ReaderResolves
    BY <2>6, ReaderEffect DEF Outcome, TypeOK
  <2>7. CASE DrainRemoves
    BY <2>7, DrainEffect DEF Outcome, TypeOK, futureVars
  <2>8. CASE DestroyRegistry
    BY <2>8 DEF DestroyRegistry
  <2> QED
    BY <2>1, <2>2, <2>3, <2>4, <2>5, <2>6, <2>7, <2>8, StepCases
<1> QED
  BY <1>1, RequestTypeCorrect, PTL DEF Spec, RefusedCallLeavesNoTrace

-----------------------------------------------------------------------------
(***************************************************************************)
(* The steps, by what they do to the SQEs and the CQEs.                     *)
(***************************************************************************)
Consumes == ReaderIgnores \/ ReaderResolves \/ DrainIgnores \/ DrainRemoves

LEMMA QueueCases ==
    ASSUME TypeOK, [Next]_vars, Live'
    PROVE  \/ UNCHANGED <<inflight, cq>>
           \/ \E r \in Reqs, c \in Calls : CallSubmitted(c, r)
           \/ RunOnceSubmits
           \/ \E ok \in BOOLEAN : ProvideBuffers(ok)
           \/ \E x \in inflight : Kernel(x)
           \/ Consumes /\ inflight' = inflight /\ cq # << >> /\ cq' = Tail(cq)
<1>1. CASE UNCHANGED vars
  BY <1>1 DEF vars
<1>2. ASSUME NEW r \in Reqs, NEW c \in Calls, Handler(c, r)
      PROVE  UNCHANGED <<inflight, cq>> \/ CallSubmitted(c, r)
  BY <1>2 DEF Handler, CallRefused, CallCrashes, CallNoSqe, CallNoTimeoutSqe, CallBadDomain,
              CallSubmitFails, CallOnClosedLoop, kernelVars
<1>3. ASSUME NEW r \in Reqs, CancelFuture(r) PROVE UNCHANGED <<inflight, cq>>
  BY <1>3 DEF CancelFuture, kernelVars
<1>4. CASE RunOnceRaises \/ ReaderCrashes \/ Close \/ DestroyRegistry \/ Terminated
  BY <1>4 DEF RunOnceRaises, ReaderCrashes, Close, DestroyRegistry, Terminated, kernelVars, vars
<1>5. CASE DestroyRing
  BY <1>5 DEF DestroyRing, Live
<1>6. CASE Consumes
  BY <1>6 DEF Consumes, ReaderIgnores, ReaderResolves, DrainIgnores, DrainRemoves
<1> QED
  BY <1>1, <1>2, <1>3, <1>4, <1>5, <1>6 DEF Next, Reader, Shutdown, Consumes

\* A CQE stays in the queue when another one is appended, and all but the first
\* when the first is consumed.
LEMMA AppendKeeps ==
    ASSUME NEW s \in Seq(CqeType), NEW e \in CqeType
    PROVE  /\ Append(s, e) \in Seq(CqeType) /\ Len(Append(s, e)) = Len(s) + 1
           /\ \A k \in 1 .. Len(s) : Append(s, e)[k] = s[k]
           /\ Append(s, e)[Len(s) + 1] = e
           /\ Len(s) \in Nat
OBVIOUS

LEMMA AppendEqual ==
    ASSUME NEW s \in Seq(CqeType), NEW a \in CqeType, NEW b \in CqeType, Append(s, a) = Append(s, b)
    PROVE  a = b
BY AppendKeeps

LEMMA TailKeeps ==
    ASSUME NEW s \in Seq(CqeType), s # << >>
    PROVE  /\ Tail(s) \in Seq(CqeType) /\ Len(Tail(s)) = Len(s) - 1 /\ Len(s) \in Nat \ {0}
           /\ Head(s) = s[1]
           /\ \A k \in 1 .. Len(Tail(s)) : k + 1 \in 1 .. Len(s) /\ Tail(s)[k] = s[k + 1]
           /\ \A k \in 1 .. Len(s) : k # 1 => /\ k - 1 \in 1 .. Len(Tail(s))
                                              /\ Tail(s)[k - 1] = s[k]
OBVIOUS

\* The CQE that the kernel posts for the SQE x.
CqeOf(x, ok, more) == [ud |-> x.ud, req |-> x.req, part |-> x.part, ok |-> ok, more |-> more]

LEMMA CqeOfType ==
    ASSUME NEW x \in SqeType, NEW ok \in BOOLEAN, NEW more \in BOOLEAN
    PROVE  /\ CqeOf(x, ok, more) \in CqeType
           /\ CqeOf(x, ok, more).ud = x.ud
           /\ CqeOf(x, ok, more).req = x.req
           /\ CqeOf(x, ok, more).part = x.part
BY DEF CqeOf, CqeType, SqeType

\* A step of the kernel posts a CQE for an SQE, which leaves the kernel, stays or
\* turns into a notification.
LEMMA KernelEffect ==
    ASSUME TypeOK, NEW x \in inflight, Kernel(x)
    PROVE  /\ x \in SqeType
           /\ \E ok, more \in BOOLEAN : cq' = Append(cq, CqeOf(x, ok, more))
           /\ \/ inflight' = inflight \ {x} /\ x.shape # "zerocopy"
              \/ inflight' = inflight /\ x.shape = "multishot"
              \/ /\ inflight' = (inflight \ {x}) \cup {[x EXCEPT !.shape = "notification"]}
                 /\ x.shape = "zerocopy"
           /\ UNCHANGED <<reg, sq, fut, delivered, raised, dropped, mem, closed, phase>>
<1> USE DEF Post, CqeOf, futureVars, outcomeVars, memoryVars
<1>0. x \in SqeType
  BY DEF TypeOK
<1>1. ASSUME NEW ok \in BOOLEAN, KernelCompletes(x, ok)
      PROVE  /\ cq' = Append(cq, CqeOf(x, ok, FALSE))
             /\ inflight' = inflight \ {x} /\ x.shape # "zerocopy"
             /\ UNCHANGED <<reg, sq, fut, delivered, raised, dropped, mem, closed, phase>>
  BY <1>1 DEF KernelCompletes
<1>2. ASSUME NEW ok \in BOOLEAN, KernelSendsZeroCopy(x, ok)
      PROVE  /\ cq' = Append(cq, CqeOf(x, ok, TRUE))
             /\ inflight' = (inflight \ {x}) \cup {[x EXCEPT !.shape = "notification"]}
             /\ x.shape = "zerocopy"
             /\ UNCHANGED <<reg, sq, fut, delivered, raised, dropped, mem, closed, phase>>
  BY <1>2 DEF KernelSendsZeroCopy
<1>3. CASE KernelPostsMore(x)
  BY <1>0, <1>3 DEF KernelPostsMore
<1> HIDE DEF Post, CqeOf
<1>4. ASSUME NEW ok \in BOOLEAN, NEW more \in BOOLEAN, cq' = Append(cq, CqeOf(x, ok, more))
      PROVE  \E o, m \in BOOLEAN : cq' = Append(cq, CqeOf(x, o, m))
  BY <1>4
<1> QED
  BY <1>0, <1>1, <1>2, <1>3, <1>4 DEF Kernel

\* The SQE of a PROVIDED context takes what was left over to the kernel with it.
LEMMA ProvideEffect ==
    ASSUME TypeOK, NEW ok \in BOOLEAN, ProvideBuffers(ok)
    PROVE  /\ \E e \in CqeType : e.req = Null /\ cq' = Append(cq, e)
           /\ inflight' = inflight \cup sq.queued
           /\ sq'.queued = {}
<1>1. PICK ud \in Indices : ud = AtTail(sq).ud
  BY DEF ProvideBuffers
<1>2. ud \in -1 .. Size
  BY SizePositive DEF Indices
<1>3. PICK e \in CqeType :
        e = [ud |-> ud, req |-> Null, part |-> "main", ok |-> ok, more |-> FALSE]
  BY <1>2 DEF CqeType
<1>4. cq' = Append(cq, e) /\ inflight' = inflight \cup sq.queued
  BY <1>1, <1>3 DEF ProvideBuffers, Sqe
<1>5. sq'.queued = {}
  BY DEF ProvideBuffers, Put
<1> QED
  BY <1>3, <1>4, <1>5

\* The SQEs that a handler hands to the kernel: its own and what was left over.
LEMMA SubmitEffect ==
    ASSUME TypeOK, NEW c \in Calls, NEW r \in Reqs, CallSubmitted(c, r)
    PROVE  \E n \in Indices, link \in SqeType :
             /\ n = NextIndex(reg)
             /\ MainSqe(c, r, n) \in SqeType
             /\ link.req = r /\ link.part = "link" /\ link.buf = Null
             /\ link.shape = "link_timeout" /\ link.closes = Null
             /\ \/ inflight' = inflight \cup sq.queued \cup {MainSqe(c, r, n)}
                \/ /\ inflight' = inflight \cup sq.queued \cup {MainSqe(c, r, n), link}
                   /\ c.timeout # "none"
             /\ sq'.queued = {}
             /\ cq' = cq
<1>0. sq \in SqType /\ reg \in RegistryType(SlotType) /\ ~RegistryFull(reg)
  BY DEF TypeOK, SqType, CallSubmitted
<1>1. PICK n \in Indices : n = NextIndex(reg)
  BY <1>0, HandlerAdds
<1>2. PICK main \in SqeType : main = MainSqe(c, r, n)
  BY MainSqeType DEF CallSubmitted
<1>3. PICK q \in SqType : q = Put(sq, main)
  BY <1>0, PutType
<1>4. PICK link \in SqeType : link = Sqe("link_timeout", AtTail(q).ud, Null, Null, r, "link")
  BY LinkType
<1>5. /\ link.req = r /\ link.part = "link" /\ link.buf = Null
      /\ link.shape = "link_timeout" /\ link.closes = Null
  BY <1>4 DEF Sqe
<1>6. q.queued = sq.queued \cup {main}
  BY <1>3 DEF Put
<1>7. Put(q, link).queued = sq.queued \cup {main, link}
  BY <1>6 DEF Put
<1>8. \/ QueueSqes(c, r, main) = q
      \/ QueueSqes(c, r, main) = Put(q, link) /\ c.timeout # "none"
  BY <1>3, <1>4 DEF QueueSqes, WithLinkedTimeout
<1>9. /\ inflight' = inflight \cup QueueSqes(c, r, main).queued
      /\ sq' = [QueueSqes(c, r, main) EXCEPT !.queued = {}]
      /\ cq' = cq
  BY <1>1, <1>2 DEF CallSubmitted
<1>10. sq'.queued = {}
  <2>1. QueueSqes(c, r, main) \in SqType
    BY <1>0, QueueType
  <2> QED
    BY <1>9, <2>1 DEF SqType
<1>11. \/ inflight' = inflight \cup sq.queued \cup {main}
       \/ inflight' = inflight \cup sq.queued \cup {main, link} /\ c.timeout # "none"
  BY <1>6, <1>7, <1>8, <1>9
<1> QED
  BY <1>1, <1>2, <1>5, <1>9, <1>10, <1>11

-----------------------------------------------------------------------------
(***************************************************************************)
(* No future is lost: the SQE or the CQE that leads to a slot stays until    *)
(* the reader consumes it, and the slot stays until then.                   *)
(***************************************************************************)
Leads(x, i, r) == x.ud = i /\ x.req = r /\ x.part = "main"

Coming(i, r) ==
    \/ \E x \in inflight : Leads(x, i, r)
    \/ \E k \in 1 .. Len(cq) : Leads(cq[k], i, r)

Awaited(r) == \E i \in Indices : reg.slots[i].future = r /\ Coming(i, r)

LEMMA LostMeaning ==
    ASSUME NEW r \in Reqs PROVE Lost(r) <=> fut[r] = "pending" /\ ~Awaited(r)
BY DEF Lost, Carried, Carries, Awaited, Coming, Leads

LEMMA AppendKeepsComing ==
    ASSUME TypeOK, NEW e \in CqeType, cq' = Append(cq, e), NEW i, NEW r,
           \E k \in 1 .. Len(cq) : Leads(cq[k], i, r)
    PROVE  \E k \in 1 .. Len(cq') : Leads(cq'[k], i, r)
<1>1. PICK k \in 1 .. Len(cq) : Leads(cq[k], i, r)
  OBVIOUS
<1>2. cq \in Seq(CqeType)
  BY DEF TypeOK
<1>3. k \in 1 .. Len(cq') /\ cq'[k] = cq[k]
  BY <1>2, AppendKeeps
<1> QED
  BY <1>1, <1>3

\* What leads to a slot is still there after a step, unless the step consumes a
\* CQE with the user_data of that slot.
LEMMA ComingStays ==
    ASSUME TypeOK, [Next]_vars, Live', NEW i \in Indices, NEW r \in Reqs, Coming(i, r)
    PROVE  Coming(i, r)' \/ (Consumes /\ cq # << >> /\ Head(cq).ud = i)
<1>0. cq \in Seq(CqeType)
  BY DEF TypeOK
<1>1. CASE UNCHANGED <<inflight, cq>>
  BY <1>1 DEF Coming, Leads
<1>2. CASE inflight \subseteq inflight' /\ cq' = cq
  BY <1>2 DEF Coming, Leads
<1>3. ASSUME NEW s \in Reqs, NEW c \in Calls, CallSubmitted(c, s)
      PROVE  inflight \subseteq inflight' /\ cq' = cq
  BY <1>3, SubmitEffect
<1>4. CASE RunOnceSubmits
  BY <1>2, <1>4 DEF RunOnceSubmits
<1>5. ASSUME NEW ok \in BOOLEAN, ProvideBuffers(ok) PROVE Coming(i, r)'
  <2>3. PICK e \in CqeType : cq' = Append(cq, e) /\ inflight \subseteq inflight'
    BY <1>5, ProvideEffect
  <2>4. CASE \E x \in inflight : Leads(x, i, r)
    BY <2>3, <2>4 DEF Coming, Leads
  <2>5. CASE \E k \in 1 .. Len(cq) : Leads(cq[k], i, r)
    <3>1. \E k \in 1 .. Len(cq') : Leads(cq'[k], i, r)
      BY <2>3, <2>5, AppendKeepsComing
    <3> QED
      BY <3>1 DEF Coming, Leads
  <2> QED
    BY <2>4, <2>5 DEF Coming
<1>6. ASSUME NEW x \in inflight, Kernel(x) PROVE Coming(i, r)'
  <2>1. PICK ok \in BOOLEAN, more \in BOOLEAN : cq' = Append(cq, CqeOf(x, ok, more))
    BY <1>6, KernelEffect
  <2>2. x \in SqeType /\ inflight \ {x} \subseteq inflight'
    BY <1>6, KernelEffect
  <2>3. PICK e \in CqeType : /\ e = CqeOf(x, ok, more)
                             /\ e.ud = x.ud /\ e.req = x.req /\ e.part = x.part
    BY <2>2, CqeOfType
  <2>4. CASE Leads(x, i, r)
    <3>1. Len(cq) + 1 \in 1 .. Len(cq') /\ cq'[Len(cq) + 1] = e
      BY <1>0, <2>1, <2>3, AppendKeeps
    <3> QED
      BY <2>3, <2>4, <3>1 DEF Coming, Leads
  <2>5. CASE \E y \in inflight : Leads(y, i, r) /\ y # x
    BY <2>2, <2>5 DEF Coming, Leads
  <2>6. CASE \E k \in 1 .. Len(cq) : Leads(cq[k], i, r)
    <3>1. \E k \in 1 .. Len(cq') : Leads(cq'[k], i, r)
      BY <2>1, <2>3, <2>6, AppendKeepsComing
    <3> QED
      BY <3>1 DEF Coming, Leads
  <2> QED
    BY <2>4, <2>5, <2>6 DEF Coming
<1>7. ASSUME Consumes, inflight' = inflight, cq # << >>, cq' = Tail(cq), Head(cq).ud # i
      PROVE  Coming(i, r)'
  <2>1. CASE \E x \in inflight : Leads(x, i, r)
    BY <1>7, <2>1 DEF Coming, Leads
  <2>2. ASSUME NEW k \in 1 .. Len(cq), Leads(cq[k], i, r) PROVE Coming(i, r)'
    <3>1. k # 1
      BY <1>0, <1>7, <2>2, TailKeeps DEF Leads
    <3>2. k - 1 \in 1 .. Len(cq') /\ cq'[k - 1] = cq[k]
      BY <1>0, <1>7, <3>1, TailKeeps
    <3> QED
      BY <2>2, <3>2 DEF Coming, Leads
  <2> QED
    BY <2>1, <2>2 DEF Coming
<1> QED
  BY <1>1, <1>2, <1>3, <1>4, <1>5, <1>6, <1>7, QueueCases

LostInv == phase = "running" => \A r \in Reqs : fut[r] = "pending" => Awaited(r) \/ r \in dropped

LEMMA LostStep == SlotInv /\ LostInv /\ [Next]_vars => LostInv'
<1> SUFFICES ASSUME SlotInv, LostInv, [Next]_vars, phase' = "running",
                    NEW r \in Reqs, fut'[r] = "pending"
             PROVE  Awaited(r)' \/ r \in dropped'
  BY DEF LostInv
<1>0. TypeOK /\ StackInv /\ Live' /\ r # Null
  BY ReqsAssumption DEF SlotInv, StackInv, Live
<1>a. reg \in RegistryType(SlotType) /\ reg.slots \in [Indices -> SlotType]
  BY <1>0, SlotsTyped DEF TypeOK
\* The slot stays, and no CQE with its user_data is consumed.
<1>b. ASSUME NEW i \in Indices, Coming(i, r), reg'.slots[i].future = r,
             ~(Consumes /\ cq # << >> /\ Head(cq).ud = i)
      PROVE  Awaited(r)'
  <2>1. Coming(i, r)'
    BY <1>0, <1>b, ComingStays
  <2> QED
    BY <1>b, <2>1 DEF Awaited
<1>c. ASSUME NEW s \in Reqs, NEW c \in Calls, Fails(c, s) \/ CallSubmitted(c, s),
             fut[r] = "pending", r \notin dropped
      PROVE  Awaited(r)'
  <2>0. ~RegistryFull(reg) /\ WellFormed(reg) /\ phase = "running"
    BY <1>0, <1>c DEF Fails, CallSubmitted, MayCall, StackInv, StackMatchesSlots
  <2>1. PICK n \in Indices : n = NextIndex(reg) /\ reg.slots[n].future = Null
    BY <1>a, <2>0, HandlerAdds
  <2>2. \A j \in Indices : j # n => reg'.slots[j] = reg.slots[j]
    <3>1. CASE Fails(c, s)
      <4>1. reg'.slots = [reg.slots EXCEPT ![n] = ClearSlot(SlotOf(c, s))]
        BY <1>a, <2>0, <2>1, <3>1, HandlerFails DEF Fails, CallFails
      <4> QED
        BY <1>a, <4>1
    <3>2. CASE CallSubmitted(c, s)
      <4>1. reg'.slots = [reg.slots EXCEPT ![n] = SlotOf(c, s)]
        BY <1>a, <2>0, <2>1, <3>2, HandlerAdds DEF CallSubmitted
      <4> QED
        BY <1>a, <4>1
    <3> QED
      BY <1>c, <3>1, <3>2
  <2>3. PICK i \in Indices : reg.slots[i].future = r /\ Coming(i, r)
    BY <1>c, <2>0 DEF LostInv, Awaited
  <2>4. reg'.slots[i].future = r
    BY <1>0, <2>1, <2>2, <2>3
  <2>5. ~Consumes
    <3>1. fut[s] = "unused" /\ (fut'[s] = "refused" \/ fut'[s] = "pending")
      BY <1>0, <1>c DEF Fails, CallFails, CallSubmitted, MayCall, TypeOK
    <3>2. ASSUME ReaderResolves PROVE FALSE
      <4>1. PICK u \in Reqs : u = reg.slots[Head(cq).ud].future /\ Outcome(u, Head(cq))
        BY <1>0, <3>2, ReaderEffect
      <4> QED
        BY <1>0, <3>1, <4>1 DEF Outcome, TypeOK
    <3> QED
      BY <2>0, <3>1, <3>2 DEF Consumes, ReaderIgnores, DrainIgnores, DrainRemoves, futureVars
  <2> QED
    BY <1>b, <2>3, <2>4, <2>5
<1>1. CASE ReaderResolves
  <2>1. PICK h \in Indices, s \in Reqs :
          /\ h = Head(cq).ud /\ s = reg.slots[h].future /\ Outcome(s, Head(cq))
          /\ reg'.slots = [reg.slots EXCEPT ![h] = ClearSlot(reg.slots[h])]
          /\ phase = "running"
    BY <1>0, <1>1, ReaderEffect, ReaderRemoves
  <2>2. CASE r = s
    <3>1. PICK cqe : cqe = Head(cq)
      OBVIOUS
    <3> QED
      BY <1>0, <2>1, <2>2, <3>1 DEF Outcome, TypeOK
  <2>3. CASE r # s
    <3>1. fut[r] = "pending" /\ (r \in dropped => r \in dropped')
      BY <1>0, <2>1, <2>3 DEF Outcome, TypeOK
    <3>2. CASE r \in dropped
      BY <3>1, <3>2
    <3>3. CASE r \notin dropped
      <4>1. PICK i \in Indices : reg.slots[i].future = r /\ Coming(i, r)
        BY <2>1, <3>1, <3>3 DEF LostInv, Awaited
      <4>2. i # h
        BY <2>1, <2>3, <4>1
      <4>3. reg'.slots[i].future = r
        BY <1>a, <2>1, <4>1, <4>2
      <4> QED
        BY <1>b, <2>1, <4>1, <4>2, <4>3
    <3> QED
      BY <3>2, <3>3
  <2> QED
    BY <2>2, <2>3
<1>2. CASE Idle /\ ~ReaderResolves
  <2>1. /\ phase = "running" /\ fut[r] = "pending"
        /\ UNCHANGED <<reg, dropped>>
    BY <1>2 DEF Idle
  <2>2. CASE r \notin dropped
    <3>1. PICK i \in Indices : reg.slots[i].future = r /\ Coming(i, r)
      BY <2>1, <2>2 DEF LostInv, Awaited
    <3>2. ~(Consumes /\ cq # << >> /\ Head(cq).ud = i)
      <4>1. reg.slots[i] # Null /\ registry_get(reg, i) = reg.slots[i]
        BY <1>a, NullIsNoRecord DEF registry_get
      <4> QED
        BY <1>0, <1>2, <2>1, <3>1, <4>1
           DEF Consumes, ReaderIgnores, HasFuture, DrainIgnores, DrainRemoves
    <3> QED
      BY <1>b, <2>1, <3>1, <3>2
  <2> QED
    BY <2>1, <2>2
<1>3. ASSUME NEW s \in Reqs, NEW c \in Calls, CallRefused(c, s) PROVE Awaited(r)' \/ r \in dropped'
  <2>1. fut[r] = "pending" /\ UNCHANGED <<reg, inflight, cq, dropped>> /\ phase = "running"
    BY <1>0, <1>3 DEF CallRefused, MayCall, kernelVars, outcomeVars, TypeOK
  <2> QED
    BY <2>1 DEF LostInv, Awaited, Coming, Leads
<1>4. ASSUME NEW s \in Reqs, NEW c \in Calls, Fails(c, s) PROVE Awaited(r)' \/ r \in dropped'
  <2>1. fut[r] = "pending" /\ dropped' = dropped
    BY <1>0, <1>4 DEF Fails, CallFails, outcomeVars, TypeOK
  <2> QED
    BY <1>4, <1>c, <2>1
<1>5. ASSUME NEW s \in Reqs, NEW c \in Calls, CallSubmitted(c, s)
      PROVE  Awaited(r)' \/ r \in dropped'
  <2>1. CASE r # s
    <3>1. fut[r] = "pending" /\ dropped' = dropped
      BY <1>0, <1>5, <2>1 DEF CallSubmitted, outcomeVars, TypeOK
    <3> QED
      BY <1>5, <1>c, <3>1
  <2>2. CASE r = s
    <3>1. PICK n \in Indices : n = NextIndex(reg) /\ MainSqe(c, r, n) \in inflight'
      BY <1>0, <1>5, <2>2, SubmitEffect
    <3>2. reg'.slots = [reg.slots EXCEPT ![n] = SlotOf(c, r)]
      BY <1>a, <1>5, <2>2, <3>1, HandlerAdds DEF CallSubmitted
    <3>3. reg'.slots[n].future = r
      BY <1>a, <3>2, NewSlotType
    <3>4. Leads(MainSqe(c, r, n), n, r)
      BY DEF Leads, MainSqe, Sqe
    <3> QED
      BY <3>1, <3>3, <3>4 DEF Awaited, Coming, Leads
  <2> QED
    BY <2>1, <2>2
<1>6. ASSUME NEW s \in Reqs, CancelFuture(s) PROVE Awaited(r)' \/ r \in dropped'
  <2>1. fut[r] = "pending" /\ UNCHANGED <<reg, inflight, cq, dropped>> /\ phase = "running"
    BY <1>0, <1>6 DEF CancelFuture, kernelVars, outcomeVars, TypeOK
  <2> QED
    BY <2>1 DEF LostInv, Awaited, Coming, Leads
<1>7. CASE DrainRemoves \/ DestroyRegistry
  BY <1>0, <1>7, DrainEffect DEF DestroyRegistry
<1> QED
  BY <1>0, <1>1, <1>2, <1>3, <1>4, <1>5, <1>6, <1>7, StepCases

\* While the loop runs, a future that somebody may await keeps its slot and
\* something in the kernel or the completion queue that leads to it, whatever else
\* fails, is cancelled or arrives, unless the reader could not create its exception.
THEOREM NoFutureIsLost == Spec => []NoLostFuture
<1>1. Init => LostInv
  BY DEF Init, LostInv
<1>2. LostInv => NoLostFuture
  BY LostMeaning DEF LostInv, NoLostFuture
<1> QED
  BY <1>1, <1>2, LostStep, SlotInvariant, PTL DEF Spec

-----------------------------------------------------------------------------
(***************************************************************************)
(* The buffers the kernel works on.  An SQE that reaches the kernel without  *)
(* its call is the SQE of a call that was refused.  Any other is the only   *)
(* main SQE of its request, its buffer is the payload of that request or of *)
(* the context, and as long as the kernel has posted nothing for it no CQE  *)
(* of it is in the queue or has been delivered.                             *)
(***************************************************************************)
Own(r) == [req |-> r, part |-> "main"]

PostedFor(r) == \E k \in 1 .. Len(cq) : cq[k].req = r /\ cq[k].part = "main"

Fresh(r) ==
    /\ delivered[r] = Null
    /\ \A x \in inflight : x.req # r
    /\ \A k \in 1 .. Len(cq) : cq[k].req # r

SqeOwned(x) ==
    /\ x.buf \in {Null, x.req, CtxPayload}
    /\ x.part = "link" => x.buf = Null
    /\ x.shape \notin {"oneshot", "zerocopy", "notification"} => x.buf # x.req
    /\ x.part = "main" => \A y \in inflight : y.req = x.req /\ y.part = "main" => y = x
    /\ x.part = "main" /\ x.shape \in {"oneshot", "zerocopy"} =>
         delivered[x.req] # Own(x.req) /\ ~PostedFor(x.req)

LeftoverInv == \A x \in sq.queued : x.req \in Reqs /\ fut[x.req] = "refused"

FreshInv == Live => \A r \in Reqs : fut[r] = "unused" => Fresh(r)

OwnInv == Live => \A x \in inflight : x.req \in Reqs /\ (fut[x.req] = "refused" \/ SqeOwned(x))

KernelInv == LeftoverInv /\ FreshInv /\ OwnInv

\* How futures and their deliveries change in a step.
LEMMA FutureSteps ==
    ASSUME TypeOK, [Next]_vars, NEW r \in Reqs
    PROVE  /\ fut[r] = "refused" => fut'[r] = "refused"
           /\ fut'[r] = "unused" => fut[r] = "unused"
           /\ fut'[r] = "pending" => fut[r] \in {"unused", "pending"}
           /\ fut'[r] = "refused" => fut[r] \in {"unused", "refused"}
           /\ \/ delivered'[r] = delivered[r]
              \/ /\ Consumes /\ cq # << >> /\ fut[r] = "pending" /\ fut'[r] \in {"result", "exception"}
                 /\ delivered'[r] = [req |-> Head(cq).req, part |-> Head(cq).part]
           /\ Live' => Live
<1>1. CASE Idle
  BY <1>1 DEF Idle
<1>2. ASSUME NEW s \in Reqs, NEW c \in Calls,
             CallRefused(c, s) \/ Fails(c, s) \/ CallSubmitted(c, s)
      PROVE  /\ fut[r] = "refused" => fut'[r] = "refused"
             /\ fut'[r] = "unused" => fut[r] = "unused"
             /\ fut'[r] = "pending" => fut[r] \in {"unused", "pending"}
             /\ fut'[r] = "refused" => fut[r] \in {"unused", "refused"}
             /\ delivered'[r] = delivered[r]
             /\ Live' => Live
  BY <1>2 DEF CallRefused, Fails, CallFails, CallSubmitted, MayCall, outcomeVars, TypeOK, Live
<1>3. ASSUME NEW s \in Reqs, CancelFuture(s)
      PROVE  /\ fut[r] = "refused" => fut'[r] = "refused"
             /\ fut'[r] = "unused" => fut[r] = "unused"
             /\ fut'[r] = "pending" => fut[r] \in {"unused", "pending"}
             /\ fut'[r] = "refused" => fut[r] \in {"unused", "refused"}
             /\ delivered'[r] = delivered[r]
             /\ Live' => Live
  BY <1>3 DEF CancelFuture, outcomeVars, TypeOK, Live
<1>4. ASSUME NEW s \in Reqs, NEW cqe, Outcome(s, cqe)
      PROVE  /\ fut[r] = "refused" => fut'[r] = "refused"
             /\ fut'[r] = "unused" => fut[r] = "unused"
             /\ fut'[r] = "pending" => fut[r] \in {"unused", "pending"}
             /\ fut'[r] = "refused" => fut[r] \in {"unused", "refused"}
             /\ \/ delivered'[r] = delivered[r]
                \/ /\ fut[r] = "pending" /\ fut'[r] \in {"result", "exception"}
                   /\ delivered'[r] = [req |-> cqe.req, part |-> cqe.part]
  BY <1>4 DEF Outcome, TypeOK
<1>5. CASE ReaderResolves
  <2>1. PICK cqe : cqe = Head(cq)
    OBVIOUS
  <2>2. PICK s \in Reqs : Outcome(s, cqe) /\ cq # << >> /\ phase = "running"
    BY <1>5, <2>1, ReaderEffect
  <2> QED
    BY <1>4, <1>5, <2>1, <2>2 DEF Consumes, Live
<1>6. CASE DrainRemoves
  <2>1. PICK cqe : cqe = Head(cq)
    OBVIOUS
  <2>2. cq # << >> /\ phase = "draining"
    BY <1>6, DrainEffect
  <2>3. CASE UNCHANGED futureVars
    BY <2>2, <2>3 DEF futureVars, outcomeVars, Live
  <2>4. ASSUME NEW s \in Reqs, Outcome(s, cqe)
        PROVE  /\ fut[r] = "refused" => fut'[r] = "refused"
               /\ fut'[r] = "unused" => fut[r] = "unused"
               /\ fut'[r] = "pending" => fut[r] \in {"unused", "pending"}
               /\ fut'[r] = "refused" => fut[r] \in {"unused", "refused"}
               /\ \/ delivered'[r] = delivered[r]
                  \/ /\ Consumes /\ cq # << >> /\ fut[r] = "pending" /\ fut'[r] \in {"result", "exception"}
                     /\ delivered'[r] = [req |-> Head(cq).req, part |-> Head(cq).part]
               /\ Live' => Live
    BY <1>4, <1>6, <2>1, <2>2, <2>4 DEF Consumes, Live
  <2> QED
    BY <1>6, <2>1, <2>3, <2>4, DrainEffect
<1>7. CASE DestroyRegistry
  BY <1>7 DEF DestroyRegistry, Live
<1> QED
  BY <1>1, <1>2, <1>3, <1>5, <1>6, <1>7, StepCases

LEMMA LiveStays == ASSUME TypeOK, [Next]_vars, Live' PROVE Live
<1>1. CASE Reqs # {}
  BY <1>1, FutureSteps
<1>2. CASE Idle
  BY <1>2 DEF Idle
<1>3. CASE ReaderResolves \/ DrainRemoves \/ DestroyRegistry
  BY <1>3 DEF ReaderResolves, DrainRemoves, DestroyRegistry, Live
<1> QED
  BY <1>1, <1>2, <1>3, StepCases

\* What stays in the queue belongs to a call that is refused in the same step.
LEMMA LeftoverStep == TypeOK /\ LeftoverInv /\ [Next]_vars => LeftoverInv'
<1> SUFFICES ASSUME TypeOK, LeftoverInv, [Next]_vars PROVE LeftoverInv'
  OBVIOUS
<1>0. sq \in SqType
  BY DEF TypeOK, SqType
<1>a. ASSUME sq'.queued \subseteq sq.queued PROVE LeftoverInv'
  BY <1>a, FutureSteps DEF LeftoverInv
<1>b. ASSUME NEW r \in Reqs, NEW c \in Calls, CallFails(c, r),
             \A x \in sq'.queued : x \in sq.queued \/ x.req = r
      PROVE  LeftoverInv'
  <2>1. fut'[r] = "refused"
    BY <1>b DEF CallFails, TypeOK
  <2> QED
    BY <1>b, <2>1, FutureSteps DEF LeftoverInv
<1>c. ASSUME NEW r \in Reqs, NEW c \in Calls, NEW e \in SqeType, e.req = r
      PROVE  \A x \in QueueSqes(c, r, e).queued : x \in sq.queued \/ x.req = r
  BY <1>c DEF QueueSqes, WithLinkedTimeout, Put, Sqe
<1>1. ASSUME NEW r \in Reqs, NEW c \in Calls, Handler(c, r) PROVE LeftoverInv'
  <2>1. CASE CallRefused(c, r) \/ CallCrashes(c, r) \/ CallNoSqe(c, r) \/ CallOnClosedLoop(c, r)
    BY <1>a, <2>1 DEF CallRefused, CallCrashes, CallNoSqe, CallOnClosedLoop, kernelVars
  <2>2. AbandonedSqe(r) \in SqeType /\ AbandonedSqe(r).req = r
    <3>1. AtTail(sq) \in SqeType
      BY <1>0 DEF SqType, AtTail
    <3> QED
      BY <1>0, <3>1, AbandonedType DEF AbandonedSqe, SqeType
  <2>3. CASE CallNoTimeoutSqe(c, r)
    <3>1. sq' = Put(sq, AbandonedSqe(r)) /\ CallFails(c, r)
      BY <2>3 DEF CallNoTimeoutSqe
    <3>2. \A x \in sq'.queued : x \in sq.queued \/ x.req = r
      BY <2>2, <3>1 DEF Put
    <3> QED
      BY <1>b, <3>1, <3>2
  <2>4. CASE CallBadDomain(c, r)
    <3>1. sq' = QueueSqes(c, r, AbandonedSqe(r)) /\ CallFails(c, r)
      BY <2>4 DEF CallBadDomain
    <3>2. \A x \in sq'.queued : x \in sq.queued \/ x.req = r
      BY <1>c, <2>2, <3>1
    <3> QED
      BY <1>b, <3>1, <3>2
  <2>5. CASE CallSubmitFails(c, r)
    <3>1. /\ sq' = QueueSqes(c, r, MainSqe(c, r, NextIndex(reg))) /\ CallFails(c, r)
          /\ NextIndex(reg) \in Indices /\ c.sqe.shape # "crash"
      BY <2>5, HandlerAdds DEF CallSubmitFails, TypeOK
    <3>2. PICK e \in SqeType : e = MainSqe(c, r, NextIndex(reg)) /\ e.req = r
      BY <3>1, MainSqeType DEF MainSqe, Sqe
    <3>3. \A x \in sq'.queued : x \in sq.queued \/ x.req = r
      BY <1>c, <3>1, <3>2
    <3> QED
      BY <1>b, <3>1, <3>3
  <2>6. CASE CallSubmitted(c, r)
    BY <1>a, <2>6, SubmitEffect
  <2> QED
    BY <1>1, <2>1, <2>3, <2>4, <2>5, <2>6 DEF Handler
<1>2. ASSUME NEW r \in Reqs, CancelFuture(r) PROVE LeftoverInv'
  BY <1>2, <1>a DEF CancelFuture, kernelVars
<1>3. CASE RunOnceSubmits
  <2>1. sq'.queued = {}
    BY <1>0, <1>3 DEF RunOnceSubmits, SqType
  <2> QED
    BY <1>a, <2>1
<1>4. ASSUME NEW ok \in BOOLEAN, ProvideBuffers(ok) PROVE LeftoverInv'
  BY <1>4, <1>a, ProvideEffect
<1>5. ASSUME NEW x \in inflight, Kernel(x) PROVE LeftoverInv'
  BY <1>5, <1>a, KernelEffect
<1>6. CASE sq' = sq
  BY <1>6, <1>a
<1> QED
  BY <1>1, <1>2, <1>3, <1>4, <1>5, <1>6
     DEF Next, Reader, Shutdown, RunOnceRaises, ReaderIgnores, ReaderCrashes, ReaderResolves, Close,
         DrainIgnores, DrainRemoves, DestroyRegistry, DestroyRing, Terminated, kernelVars, vars

\* Where the SQEs and the CQEs of a step come from.
LEMMA SqesFrom ==
    ASSUME TypeOK, [Next]_vars, Live', NEW y \in inflight'
    PROVE  \/ y \in inflight \cup sq.queued
           \/ \E x \in inflight : y.req = x.req
           \/ y.req \in Reqs /\ fut'[y.req] = "pending"
<1>1. ASSUME NEW r \in Reqs, NEW c \in Calls, CallSubmitted(c, r)
      PROVE  y \in inflight \cup sq.queued \/ (y.req = r /\ fut'[r] = "pending")
  <2>1. fut'[r] = "pending"
    BY <1>1 DEF CallSubmitted, TypeOK
  <2>2. \A n \in Indices : MainSqe(c, r, n).req = r
    BY DEF MainSqe, Sqe
  <2> QED
    BY <1>1, <2>1, <2>2, SubmitEffect
<1>2. CASE RunOnceSubmits
  BY <1>2 DEF RunOnceSubmits
<1>3. ASSUME NEW ok \in BOOLEAN, ProvideBuffers(ok) PROVE y \in inflight \cup sq.queued
  BY <1>3, ProvideEffect
<1>4. ASSUME NEW x \in inflight, Kernel(x) PROVE y \in inflight \/ y.req = x.req
  <2>1. [x EXCEPT !.shape = "notification"].req = x.req
    BY DEF TypeOK, SqeType
  <2> QED
    BY <1>4, <2>1, KernelEffect
<1> QED
  BY <1>1, <1>2, <1>3, <1>4, QueueCases

LEMMA CqesFrom ==
    ASSUME TypeOK, [Next]_vars, Live', NEW k \in 1 .. Len(cq')
    PROVE  \/ \E j \in 1 .. Len(cq) : cq'[k] = cq[j]
           \/ \E x \in inflight : /\ Kernel(x)
                                  /\ cq'[k].req = x.req /\ cq'[k].part = x.part
           \/ cq'[k].req = Null
<1>0. cq \in Seq(CqeType)
  BY DEF TypeOK
<1>a. ASSUME NEW e \in CqeType, cq' = Append(cq, e)
      PROVE  (\E j \in 1 .. Len(cq) : cq'[k] = cq[j]) \/ cq'[k] = e
  <2>1. CASE k \in 1 .. Len(cq)
    BY <1>0, <1>a, <2>1, AppendKeeps
  <2>2. CASE k \notin 1 .. Len(cq)
    BY <1>0, <1>a, <2>2, AppendKeeps
  <2> QED
    BY <2>1, <2>2
<1>1. CASE cq' = cq
  BY <1>1
<1>2. ASSUME NEW ok \in BOOLEAN, ProvideBuffers(ok)
      PROVE  (\E j \in 1 .. Len(cq) : cq'[k] = cq[j]) \/ cq'[k].req = Null
  BY <1>2, <1>a, ProvideEffect
<1>3. ASSUME NEW x \in inflight, Kernel(x)
      PROVE  \/ \E j \in 1 .. Len(cq) : cq'[k] = cq[j]
             \/ cq'[k].req = x.req /\ cq'[k].part = x.part
  <2>1. PICK ok \in BOOLEAN, more \in BOOLEAN : cq' = Append(cq, CqeOf(x, ok, more))
    BY <1>3, KernelEffect
  <2>2. PICK e \in CqeType : e = CqeOf(x, ok, more) /\ e.req = x.req /\ e.part = x.part
    BY <1>3, KernelEffect, CqeOfType
  <2> QED
    BY <1>a, <2>1, <2>2
<1>4. ASSUME cq # << >>, cq' = Tail(cq) PROVE \E j \in 1 .. Len(cq) : cq'[k] = cq[j]
  BY <1>0, <1>4, TailKeeps
<1>5. ASSUME NEW r \in Reqs, NEW c \in Calls, CallSubmitted(c, r) PROVE cq' = cq
  BY <1>5 DEF CallSubmitted
<1>6. CASE RunOnceSubmits
  BY <1>1, <1>6 DEF RunOnceSubmits
<1> QED
  BY <1>1, <1>2, <1>3, <1>4, <1>5, <1>6, QueueCases

LEMMA FreshStep == TypeOK /\ KernelInv /\ [Next]_vars => FreshInv'
<1> SUFFICES ASSUME TypeOK, KernelInv, [Next]_vars, Live', NEW r \in Reqs, fut'[r] = "unused"
             PROVE  Fresh(r)'
  BY DEF FreshInv
<1>1. fut[r] = "unused" /\ delivered'[r] = delivered[r] /\ Live
  BY FutureSteps
<1>2. Fresh(r) /\ \A x \in inflight : x.req \in Reqs
  BY <1>1 DEF KernelInv, FreshInv, OwnInv
<1>3. \A x \in sq.queued : x.req # r
  BY <1>1 DEF KernelInv, LeftoverInv
<1>4. ASSUME NEW y \in inflight' PROVE y.req # r
  BY <1>2, <1>3, SqesFrom DEF Fresh
<1>5. ASSUME NEW k \in 1 .. Len(cq') PROVE cq'[k].req # r
  BY <1>2, CqesFrom, ReqsAssumption DEF Fresh
<1> QED
  BY <1>1, <1>2, <1>4, <1>5 DEF Fresh

\* A delivery of a request's own CQE takes it from the queue.
LEMMA DeliveredFrom ==
    ASSUME TypeOK, [Next]_vars, NEW r \in Reqs, delivered'[r] = Own(r)
    PROVE  delivered[r] = Own(r) \/ PostedFor(r)
<1>1. CASE delivered'[r] = delivered[r]
  BY <1>1
<1>2. CASE /\ cq # << >>
           /\ delivered'[r] = [req |-> Head(cq).req, part |-> Head(cq).part]
  <2>1. Head(cq).req = r /\ Head(cq).part = "main"
    BY <1>2 DEF Own
  <2>2. Head(cq) = cq[1] /\ 1 \in 1 .. Len(cq)
    BY <1>2, TailKeeps DEF TypeOK
  <2> QED
    BY <2>1, <2>2 DEF PostedFor
<1> QED
  BY <1>1, <1>2, FutureSteps

\* An SQE keeps its place when no other main SQE of its request joins it and the
\* kernel posts nothing for it.
LEMMA OwnedStays ==
    ASSUME TypeOK, [Next]_vars, Live', NEW x \in inflight, x.req \in Reqs, SqeOwned(x),
           x.part = "main" => \A y \in inflight' : y.req = x.req /\ y.part = "main" => y = x,
           x.part = "main" /\ x.shape \in {"oneshot", "zerocopy"} =>
               \A z \in inflight : Kernel(z) => z.req # x.req \/ z.part # "main"
    PROVE  SqeOwned(x)'
<1>1. ASSUME x.part = "main", x.shape \in {"oneshot", "zerocopy"}
      PROVE  delivered'[x.req] # Own(x.req) /\ ~PostedFor(x.req)'
  <2>1. delivered[x.req] # Own(x.req) /\ ~PostedFor(x.req)
    BY <1>1 DEF SqeOwned
  <2>2. delivered'[x.req] # Own(x.req)
    BY <2>1, DeliveredFrom
  <2>3. ASSUME NEW k \in 1 .. Len(cq'), cq'[k].req = x.req, cq'[k].part = "main" PROVE FALSE
    BY <1>1, <2>1, <2>3, CqesFrom, ReqsAssumption DEF PostedFor
  <2> QED
    BY <2>2, <2>3 DEF PostedFor
<1> QED
  BY <1>1 DEF SqeOwned, Own

LEMMA OwnStep == TypeOK /\ KernelInv /\ [Next]_vars => OwnInv'
<1> SUFFICES ASSUME TypeOK, KernelInv, [Next]_vars, Live', NEW y \in inflight'
             PROVE  y.req \in Reqs /\ (fut'[y.req] = "refused" \/ SqeOwned(y)')
  BY DEF OwnInv
<1>0. /\ Live
      /\ \A x \in inflight : x.req \in Reqs /\ (fut[x.req] = "refused" \/ SqeOwned(x))
      /\ \A x \in sq.queued : x.req \in Reqs /\ fut[x.req] = "refused"
      /\ \A r \in Reqs : fut[r] = "unused" => Fresh(r)
      /\ \A x \in inflight : x \in SqeType
  <2>1. Live
    BY LiveStays
  <2> QED
    BY <2>1 DEF KernelInv, LeftoverInv, FreshInv, OwnInv, TypeOK
<1>a. \A r \in Reqs : fut[r] = "refused" => fut'[r] = "refused"
  BY FutureSteps
\* What was left over is refused; it shares its request with no SQE that is not.
<1>b. ASSUME y \in sq.queued PROVE y.req \in Reqs /\ fut'[y.req] = "refused"
  BY <1>0, <1>a, <1>b
<1>c. ASSUME y \in inflight, \A z \in inflight : ~Kernel(z),
             \A w \in inflight' : w \in inflight \/ fut[w.req] # fut[y.req]
      PROVE  y.req \in Reqs /\ (fut'[y.req] = "refused" \/ SqeOwned(y)')
  <2>1. CASE fut[y.req] = "refused"
    BY <1>0, <1>a, <1>c, <2>1
  <2>2. CASE SqeOwned(y)
    <3>1. y.part = "main" => \A w \in inflight' : w.req = y.req /\ w.part = "main" => w = y
      BY <1>c, <2>2 DEF SqeOwned
    <3> QED
      BY <1>0, <1>c, <2>2, <3>1, OwnedStays
  <2> QED
    BY <1>0, <1>c, <2>1, <2>2
<1>1. ASSUME NEW x \in inflight, Kernel(x)
      PROVE  y.req \in Reqs /\ (fut'[y.req] = "refused" \/ SqeOwned(y)')
  <2> DEFINE note == [x EXCEPT !.shape = "notification"]
  <2>1. /\ \/ inflight' = inflight \ {x}
           \/ inflight' = inflight /\ x.shape = "multishot"
           \/ inflight' = (inflight \ {x}) \cup {note}
        /\ UNCHANGED fut
    BY <1>1, KernelEffect
  <2>2. /\ note.req = x.req /\ note.part = x.part /\ note.buf = x.buf
        /\ note.shape = "notification"
    BY <1>0 DEF SqeType
  <2> HIDE DEF note
  <2>3. CASE y \in inflight /\ y # x
    <3>1. CASE fut[y.req] = "refused"
      BY <1>0, <1>a, <2>3, <3>1
    <3>2. CASE SqeOwned(y)
      <4>1. \A w \in inflight : y.part = "main" /\ w.req = y.req /\ w.part = "main" => w = y
        BY <3>2 DEF SqeOwned
      <4>2. y.part = "main" => x.req # y.req \/ x.part # "main"
        BY <1>1, <2>3, <4>1
      <4>3. y.part = "main" => \A w \in inflight' : w.req = y.req /\ w.part = "main" => w = y
        BY <2>1, <2>2, <4>1, <4>2
      <4>4. \A z \in inflight : Kernel(z) => z.req # y.req \/ z.part # "main" \/ y.part # "main"
        <5> SUFFICES ASSUME NEW z \in inflight, Kernel(z), z.req = y.req, z.part = "main",
                            y.part = "main"
                     PROVE  FALSE
          OBVIOUS
        <5>1. z = y
          BY <4>1
        <5>2. PICK ok \in BOOLEAN, more \in BOOLEAN : cq' = Append(cq, CqeOf(y, ok, more))
          BY <5>1, KernelEffect
        <5>3. PICK okx \in BOOLEAN, morex \in BOOLEAN : cq' = Append(cq, CqeOf(x, okx, morex))
          BY <1>1, KernelEffect
        <5>4. CqeOf(y, ok, more) = CqeOf(x, okx, morex)
          <6>1. /\ CqeOf(y, ok, more) \in CqeType /\ CqeOf(x, okx, morex) \in CqeType
                /\ cq \in Seq(CqeType)
            BY <1>0, <2>3, CqeOfType DEF TypeOK
          <6> QED
            BY <5>2, <5>3, <6>1, AppendEqual
        <5>5. y.req = x.req /\ y.part = x.part
          BY <1>0, <2>3, <5>4, CqeOfType
        <5> QED
          BY <4>2, <5>5
      <4> QED
        BY <1>0, <2>3, <3>2, <4>3, <4>4, OwnedStays
    <3> QED
      BY <1>0, <2>3, <3>1, <3>2
  <2>4. CASE y \in {x, note}
    <3>0. y.req = x.req /\ y.part = x.part /\ y.buf = x.buf /\ x.req \in Reqs
      BY <1>0, <2>2, <2>4
    <3>1. CASE fut[x.req] = "refused"
      BY <1>a, <3>0, <3>1
    <3>2. CASE SqeOwned(x)
      <4>0. CASE y = x /\ inflight' = (inflight \ {x}) \cup {note} /\ y # note
        BY <4>0
      <4>1. CASE y = x /\ inflight' = inflight /\ x.shape = "multishot"
        <5>1. SqeOwned(x)'
          BY <3>2, <4>1 DEF SqeOwned
        <5> QED
          BY <3>0, <4>1, <5>1
      <4>2. CASE y = note
        <5>1. \A w \in inflight' : x.part = "main" /\ w.req = x.req /\ w.part = "main" => w = note
          BY <2>1, <2>2, <3>2, <4>2 DEF SqeOwned
        <5> QED
          BY <2>2, <3>0, <3>2, <4>2, <5>1 DEF SqeOwned
      <4> QED
        BY <2>1, <2>4, <4>0, <4>1, <4>2
    <3> QED
      BY <1>0, <3>0, <3>1, <3>2
  <2> QED
    BY <2>1, <2>3, <2>4
<1>2. ASSUME \A z \in inflight : ~Kernel(z), inflight' \subseteq inflight \cup sq.queued
      PROVE  y.req \in Reqs /\ (fut'[y.req] = "refused" \/ SqeOwned(y)')
  <2>1. CASE y \in sq.queued
    BY <1>b, <2>1
  <2>2. CASE y \in inflight /\ fut[y.req] = "refused"
    BY <1>0, <1>a, <2>2
  <2>3. CASE y \in inflight /\ fut[y.req] # "refused"
    BY <1>0, <1>2, <1>c, <2>3
  <2> QED
    BY <1>2, <2>1, <2>2, <2>3
<1>3. ASSUME \A z \in inflight : ~Kernel(z),
             NEW r \in Reqs, NEW c \in Calls, CallSubmitted(c, r)
      PROVE  y.req \in Reqs /\ (fut'[y.req] = "refused" \/ SqeOwned(y)')
  <2>1. PICK n \in Indices, link \in SqeType :
          /\ link.req = r /\ link.part = "link" /\ link.buf = Null
          /\ link.shape = "link_timeout"
          /\ \/ inflight' = inflight \cup sq.queued \cup {MainSqe(c, r, n)}
             \/ inflight' = inflight \cup sq.queued \cup {MainSqe(c, r, n), link}
          /\ cq' = cq
    BY <1>3, SubmitEffect
  <2>m. PICK main : main = MainSqe(c, r, n)
    OBVIOUS
  <2>2. /\ main = MainSqe(c, r, n) /\ main.req = r /\ main.part = "main"
        /\ main.buf \in {Null, PayloadOf(c, r)} /\ main.shape = c.sqe.shape
        /\ main.buf # Null => c.sqe.buffers
    BY <2>m DEF MainSqe, Sqe
  <2>3. fut[r] = "unused" /\ Fresh(r) /\ delivered' = delivered
    BY <1>0, <1>3 DEF CallSubmitted, MayCall, outcomeVars
  <2>4. \A x \in inflight \cup sq.queued : x.req # r
    BY <1>0, <2>3 DEF Fresh
  <2>5. CASE y \in inflight \cup sq.queued
    <3>1. CASE y \in sq.queued
      BY <1>b, <3>1
    <3>2. CASE y \in inflight /\ fut[y.req] = "refused"
      BY <1>0, <1>a, <3>2
    <3>3. CASE y \in inflight /\ fut[y.req] # "refused"
      <4>1. SqeOwned(y) /\ y.req \in Reqs
        BY <1>0, <3>3
      <4>2. y.part = "main" => \A w \in inflight' : w.req = y.req /\ w.part = "main" => w = y
        BY <1>0, <2>1, <2>2, <2>4, <3>3, <4>1 DEF SqeOwned
      <4> QED
        BY <1>3, <3>3, <4>1, <4>2, OwnedStays
    <3> QED
      BY <2>5, <3>1, <3>2, <3>3
  <2>6. CASE y = link
    BY <2>1, <2>6, ReqsAssumption DEF SqeOwned
  <2>7. CASE y = main
    <3>1. main.buf \in {Null, r, CtxPayload}
      BY <2>2, PayloadType
    <3>2. c.sqe.shape \in {"oneshot", "multishot", "zerocopy"}
      BY <1>3, CallsAssumption DEF CallSubmitted, Operations
    <3>3. main.shape \notin {"oneshot", "zerocopy", "notification"} => main.buf # r
      <4>1. CASE c.sqe.shape = "multishot" /\ main.buf # Null
        <5>1. c.payload = "ctx"
          BY <2>2, <4>1, CallsAssumption DEF Consistent
        <5> QED
          BY <2>2, <4>1, <5>1, PayloadType, ReqsAssumption
      <4> QED
        BY <2>2, <3>2, <4>1, ReqsAssumption
    <3>4. \A w \in inflight' : w.req = r /\ w.part = "main" => w = main
      BY <2>1, <2>2, <2>4
    <3>5. delivered'[r] # Own(r)
      <4>1. Own(r) \in Delivery
        BY DEF Own, Delivery
      <4> QED
        BY <2>3, <4>1, NullIsNoRecord DEF Fresh
    <3>6. ~PostedFor(r)'
      BY <2>1, <2>3 DEF PostedFor, Fresh
    <3>7. SqeOwned(main)'
      BY <2>2, <3>1, <3>3, <3>4, <3>5, <3>6 DEF SqeOwned, Own
    <3> QED
      BY <2>2, <2>7, <3>7
  <2> QED
    BY <2>1, <2>2, <2>5, <2>6, <2>7
<1>4. ASSUME NEW ok \in BOOLEAN, ProvideBuffers(ok)
      PROVE  inflight' \subseteq inflight \cup sq.queued
  BY <1>4, ProvideEffect
<1>5. CASE RunOnceSubmits
  <2>1. inflight' \subseteq inflight \cup sq.queued
    BY <1>5 DEF RunOnceSubmits
  <2> QED
    BY <1>1, <1>2, <2>1
<1> QED
  BY <1>1, <1>2, <1>3, <1>4, <1>5, QueueCases

LEMMA KernelInvariant == Spec => []KernelInv
<1>1. Init => KernelInv
  BY ReqsAssumption DEF Init, InitialSq, KernelInv, LeftoverInv, FreshInv, Fresh, OwnInv
<1>2. TypeOK /\ KernelInv /\ [Next]_vars => KernelInv'
  BY LeftoverStep, FreshStep, OwnStep DEF KernelInv
<1> QED
  BY <1>1, <1>2, RequestTypeCorrect, PTL DEF Spec

\* Why the kernel may work on a buffer that is gone.
Explained(x) ==
    \/ x.shape = "notification"
    \/ fut[x.req] = "refused"
    \/ delivered[x.req] \notin {Null, Own(x.req)}
    \/ x.req \in raised \cup dropped

\* What takes the payload of a request away takes its slot, for a CQE that ends up
\* in the history of its future.
LEMMA PayloadGone ==
    ASSUME SlotInv, [Next]_vars, Live', NEW r \in Reqs, r \in mem, r \notin mem'
    PROVE  /\ Consumes /\ cq # << >>
           /\ \/ delivered'[r] = [req |-> Head(cq).req, part |-> Head(cq).part]
              \/ r \in raised' \cup dropped'
<1>0. TypeOK /\ StackInv
  BY DEF SlotInv, StackInv
<1>1. ASSUME NEW i \in Indices, NEW cqe, r \in FreedBy(reg.slots[i].payload, FALSE), Live,
             reg.slots[i].future # Null => Outcome(reg.slots[i].future, cqe)
      PROVE  \/ delivered'[r] = [req |-> cqe.req, part |-> cqe.part]
             \/ r \in raised' \cup dropped'
  <2>1. reg.slots[i].payload = r
    BY <1>1 DEF FreedBy
  <2>2. reg.slots[i].future = r
    BY <1>1, <2>1, ReqsAssumption DEF SlotInv, SlotsOwned, SlotOwned
  <2> QED
    BY <1>0, <1>1, <2>2, ReqsAssumption DEF Outcome, TypeOK
<1>2. CASE ReaderResolves
  <2>0. PICK cqe : cqe = Head(cq)
    OBVIOUS
  <2>1. PICK i \in Indices :
          /\ cqe = Head(cq) /\ i = Head(cq).ud
          /\ mem' = mem \ FreedBy(reg.slots[i].payload, FALSE)
          /\ Outcome(reg.slots[i].future, cqe)
          /\ Live /\ cq # << >>
    BY <1>0, <1>2, <2>0, ReaderEffect, ReaderFrees DEF Live
  <2> QED
    BY <1>1, <1>2, <2>1 DEF Consumes
<1>3. CASE DrainRemoves
  <2>0. PICK cqe : cqe = Head(cq)
    OBVIOUS
  <2>1. PICK i \in Indices :
          /\ cqe = Head(cq) /\ i = Head(cq).ud
          /\ mem' = mem \/ mem' = mem \ FreedBy(reg.slots[i].payload, FALSE)
          /\ reg.slots[i].future # Null => Outcome(reg.slots[i].future, cqe)
          /\ Live /\ cq # << >>
    BY <1>0, <1>3, <2>0, DrainEffect DEF Live
  <2> QED
    BY <1>1, <1>3, <2>1 DEF Consumes
<1>4. CASE Idle
  BY <1>4 DEF Idle
<1>5. ASSUME NEW s \in Reqs, NEW c \in Calls,
             CallRefused(c, s) \/ Fails(c, s) \/ CallSubmitted(c, s)
      PROVE  FALSE
  BY <1>5 DEF CallRefused, Fails, CallFails, CallSubmitted, memoryVars
<1>6. ASSUME NEW s \in Reqs, CancelFuture(s) PROVE FALSE
  BY <1>6 DEF CancelFuture, memoryVars
<1>7. CASE DestroyRegistry
  BY <1>7 DEF DestroyRegistry, Live
<1> QED
  BY <1>0, <1>2, <1>3, <1>4, <1>5, <1>6, <1>7, StepCases

DeliveryInv == \A r \in Reqs : fut[r] \in {"unused", "pending"} => delivered[r] = Null

LEMMA DeliveryStep == TypeOK /\ DeliveryInv /\ [Next]_vars => DeliveryInv'
BY FutureSteps DEF DeliveryInv

DanglingInv == Live => \A x \in inflight : x.buf # Null /\ x.buf \notin mem => Explained(x)

LEMMA ExplainedStays ==
    ASSUME TypeOK, DeliveryInv, [Next]_vars, NEW x, x.req \in Reqs, Explained(x), NEW y,
           y.req = x.req, x.shape = "notification" => y.shape = "notification"
    PROVE  Explained(y)'
<1>1. fut[x.req] = "refused" => fut'[x.req] = "refused"
  BY FutureSteps
<1>2. raised \subseteq raised' /\ dropped \subseteq dropped'
  <2>1. ASSUME NEW r, NEW cqe, Outcome(r, cqe)
        PROVE  raised \subseteq raised' /\ dropped \subseteq dropped'
    BY <2>1 DEF Outcome
  <2>2. PICK cqe : cqe = Head(cq)
    OBVIOUS
  <2>3. CASE ReaderResolves
    BY <2>1, <2>2, <2>3, ReaderEffect
  <2>4. CASE DrainRemoves
    BY <2>1, <2>2, <2>4, DrainEffect DEF futureVars, outcomeVars
  <2> QED
    BY <2>3, <2>4, StepCases DEF Idle, CallRefused, Fails, CallFails, CallSubmitted, CancelFuture,
                                 DestroyRegistry, outcomeVars
<1>3. delivered[x.req] # Null => delivered'[x.req] = delivered[x.req]
  BY FutureSteps DEF DeliveryInv
<1> QED
  BY <1>1, <1>2, <1>3 DEF Explained, Own

LEMMA DanglingStep ==
    SlotInv /\ KernelInv /\ DeliveryInv /\ DanglingInv /\ [Next]_vars => DanglingInv'
<1> SUFFICES ASSUME SlotInv, KernelInv, DeliveryInv, DanglingInv, [Next]_vars, Live',
                    NEW y \in inflight', y.buf # Null, y.buf \notin mem'
             PROVE  Explained(y)'
  BY DEF DanglingInv
<1>0. TypeOK /\ SlotInv' /\ OwnInv' /\ OwnInv /\ LeftoverInv
  BY SlotStep, OwnStep DEF SlotInv, StackInv, KernelInv
<1>1. Live /\ y.req \in Reqs /\ (fut'[y.req] = "refused" \/ SqeOwned(y)')
  BY <1>0, LiveStays DEF OwnInv
<1>2. CASE fut'[y.req] = "refused"
  BY <1>2 DEF Explained
<1>3. CASE y.shape = "notification"
  BY <1>3 DEF Explained
<1>4. CASE SqeOwned(y)' /\ y.shape # "notification" /\ fut'[y.req] # "refused"
  <2>1. y.buf = y.req
    <3>1. y.buf # CtxPayload
      BY <1>0 DEF SlotInv, MemoryInv
    <3> QED
      BY <1>4, <3>1 DEF SqeOwned
  <2>2. /\ y.part # "link" /\ y.shape \in {"oneshot", "zerocopy"}
        /\ y.part = "main" => delivered'[y.req] # Own(y.req)
    BY <1>4, <2>1 DEF SqeOwned, Own
  <2>3. y.part = "main"
    BY <1>0, <2>2 DEF SlotInv, StackInv, TypeOK, SqeType
  <2>4. CASE y \in inflight
    <3>1. CASE y.buf \notin mem
      <4>1. Explained(y)
        BY <1>1, <2>4, <3>1 DEF DanglingInv
      <4> QED
        BY <1>0, <1>1, <4>1, ExplainedStays
    <3>2. CASE y.buf \in mem
      <4>1. \/ delivered'[y.req] = [req |-> Head(cq).req, part |-> Head(cq).part]
            \/ y.req \in raised' \cup dropped'
        BY <1>1, <2>1, <3>2, PayloadGone
      <4>2. [req |-> Head(cq).req, part |-> Head(cq).part] # Null
        <5>1. cq # << >>
          BY <1>1, <2>1, <3>2, PayloadGone
        <5>2. Head(cq) \in CqeType
          BY <1>0, <5>1, HeadSlot
        <5>3. [req |-> Head(cq).req, part |-> Head(cq).part] \in Delivery
          BY <5>2 DEF CqeType, Delivery
        <5> QED
          BY <5>3, NullIsNoRecord
      <4> QED
        BY <2>2, <2>3, <4>1, <4>2 DEF Explained, Own
    <3> QED
      BY <3>1, <3>2
  <2>5. CASE y \notin inflight
    <3>1. ASSUME NEW r \in Reqs, NEW c \in Calls, CallSubmitted(c, r) PROVE FALSE
      <4>1. PICK n \in Indices, link \in SqeType :
              /\ link.buf = Null
              /\ \/ inflight' = inflight \cup sq.queued \cup {MainSqe(c, r, n)}
                 \/ inflight' = inflight \cup sq.queued \cup {MainSqe(c, r, n), link}
        BY <1>0, <3>1, SubmitEffect
      <4>2. y \notin sq.queued
        BY <1>0, <1>4, FutureSteps DEF LeftoverInv
      <4>3. y = MainSqe(c, r, n)
        BY <2>5, <4>1, <4>2
      <4>4. y.req = r /\ y.buf = PayloadOf(c, r)
        BY <4>3 DEF MainSqe, Sqe
      <4>5. c.payload = "own"
        BY <2>1, <4>4, PayloadType
      <4> QED
        BY <2>1, <3>1, <4>4, <4>5 DEF CallSubmitted
    <3>2. ASSUME NEW x \in inflight, Kernel(x) PROVE FALSE
      <4>1. x \in SqeType /\ (inflight' \subseteq inflight \cup {[x EXCEPT !.shape = "notification"]})
        BY <1>0, <3>2, KernelEffect
      <4>2. [x EXCEPT !.shape = "notification"].shape = "notification"
        BY <4>1 DEF SqeType
      <4> QED
        BY <1>4, <2>5, <4>1, <4>2
    <3>3. y \notin sq.queued
      BY <1>0, <1>4, FutureSteps DEF LeftoverInv
    <3>4. ASSUME NEW ok \in BOOLEAN, ProvideBuffers(ok) PROVE FALSE
      BY <1>0, <2>5, <3>3, <3>4, ProvideEffect
    <3>5. CASE RunOnceSubmits
      BY <2>5, <3>3, <3>5 DEF RunOnceSubmits
    <3> QED
      BY <1>0, <2>5, <3>1, <3>2, <3>4, <3>5, QueueCases
  <2> QED
    BY <2>4, <2>5
<1> QED
  BY <1>1, <1>2, <1>3, <1>4

\* Whatever the calls, the failures and the order of the CQEs: the kernel works on a
\* freed buffer only for the notification of a zero copy send, for a call that was
\* refused after it took its SQE, or after a CQE of another SQE took the slot.
THEOREM DanglingBuffersAreExplained == Spec => []DanglingBuffersExplained
<1>1. Init => DeliveryInv /\ DanglingInv
  BY DEF Init, DeliveryInv, DanglingInv
<1>2. SlotInv => TypeOK
  BY DEF SlotInv, StackInv
<1>3. DanglingInv => DanglingBuffersExplained
  BY DEF DanglingInv, DanglingBuffersExplained, Explained, Own, Live
<1> QED
  BY <1>1, <1>2, <1>3, DeliveryStep, DanglingStep, SlotInvariant, KernelInvariant, PTL DEF Spec
=============================================================================
