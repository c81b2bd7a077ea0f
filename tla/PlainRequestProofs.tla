------------------------- MODULE PlainRequestProofs --------------------------
(***************************************************************************)
(* Proofs about the requests of a program that uses only the operations     *)
(* with one SQE and one CQE each, while io_uring_submit does not fail: every *)
(* SQE and every CQE leads to the slot of its own request, for any number   *)
(* of slots, requests and operations.                                       *)
(***************************************************************************)
EXTENDS RequestProofs

OnlyPlain ==
    /\ \A c \in Calls : Plain(c)
    /\ ~SubmitMayFail
    /\ ~ProvidedMode

Started(r) == fut[r] \notin {"unused", "refused"}

PlainSqe(x) ==
    /\ x.shape = "oneshot" /\ x.part = "main"
    /\ x.req \in Reqs /\ Started(x.req)
    /\ x.ud \in Indices /\ reg.slots[x.ud].future = x.req
    /\ x.buf \in {Null, x.req, CtxPayload}

PlainCqe(e) ==
    /\ e.part = "main" /\ e.req \in Reqs
    /\ e.ud \in Indices /\ reg.slots[e.ud].future = e.req

\* A request has one SQE in the kernel, or one CQE in the queue, or neither.
OnePlace ==
    /\ \A x, y \in inflight : x.req = y.req => x = y
    /\ \A j, k \in 1 .. Len(cq) : cq[j].req = cq[k].req => j = k
    /\ \A x \in inflight, k \in 1 .. Len(cq) : x.req # cq[k].req

PlainQueues ==
    /\ sq.queued = {}
    /\ \A x \in inflight : PlainSqe(x)
    /\ \A k \in 1 .. Len(cq) : PlainCqe(cq[k])

\* The registry is exact in the drain loop too, and the buffers are alive.
PlainMemory == Live => WellFormed(reg) /\ BuffersAlive

PlainInv == PlainQueues /\ OnePlace /\ PlainMemory /\ NoMisdelivery

-----------------------------------------------------------------------------
(***************************************************************************)
(* The steps that are left.                                                 *)
(***************************************************************************)
Quiet ==
    /\ UNCHANGED <<reg, sq, inflight, cq, fd_closed, fut, delivered, raised, dropped, mem, closed>>
    /\ Live' => Live

Dies == ReaderCrashes \/ \E r \in Reqs, c \in Calls : CallOnClosedLoop(c, r)

LEMMA PlainSteps ==
    ASSUME OnlyPlain, TypeOK, PlainQueues, [Next]_vars
    PROVE  \/ Quiet /\ (phase' \in {"aborted", "crashed"} => phase \in {"aborted", "crashed"} \/ Dies)
           \/ \E r \in Reqs, c \in Calls : CallRefused(c, r) \/ CallSubmitted(c, r)
           \/ \E r \in Reqs : CancelFuture(r)
           \/ \E x \in inflight, ok \in BOOLEAN : KernelCompletes(x, ok)
           \/ ReaderResolves
           \/ DrainRemoves
           \/ DestroyRegistry
           \/ DestroyRing
<1> USE DEF futureVars, outcomeVars, memoryVars, kernelVars
<1>0. SqeAvailable(1) /\ ~(\E c \in Calls : c.sqe.shape # "oneshot" \/ c.timeout # "none" \/ c.bad_domain)
  <2>1. Cardinality(sq.queued) = 0
    BY FS_EmptySet DEF PlainQueues
  <2> QED
    BY <2>1, SqAssumption DEF SqeAvailable, OnlyPlain, Plain
<1>1. CASE UNCHANGED vars
  BY <1>1 DEF vars, Quiet, Live
<1>2. ASSUME NEW r \in Reqs, NEW c \in Calls, Handler(c, r)
      PROVE  CallRefused(c, r) \/ CallSubmitted(c, r) \/ CallOnClosedLoop(c, r)
  BY <1>0, <1>2 DEF Handler, CallCrashes, CallNoSqe, CallNoTimeoutSqe, CallBadDomain,
                    CallSubmitFails, OnlyPlain
<1>3. ASSUME NEW r \in Reqs, NEW c \in Calls, CallOnClosedLoop(c, r) PROVE Quiet /\ Dies
  BY <1>3 DEF CallOnClosedLoop, Quiet, Dies, Live
<1>4. ASSUME RunOnceSubmits \/ \E ok \in BOOLEAN : ProvideBuffers(ok) PROVE FALSE
  BY <1>4 DEF RunOnceSubmits, ProvideBuffers, PlainQueues, OnlyPlain
<1>5. CASE RunOnceRaises \/ Close \/ Terminated
  BY <1>5 DEF RunOnceRaises, Close, Terminated, Quiet, Live, vars
<1>6. CASE ReaderCrashes
  BY <1>6 DEF ReaderCrashes, Quiet, Dies, Live
<1>7. ASSUME NEW x \in inflight, Kernel(x) PROVE \E ok \in BOOLEAN : KernelCompletes(x, ok)
  BY <1>7 DEF Kernel, KernelPostsMore, KernelSendsZeroCopy, PlainQueues, PlainSqe
\* No CQE is ignored: each leads to a slot that is in use.
<1>8. ASSUME ReaderIgnores \/ DrainIgnores PROVE FALSE
  <2>1. cq # << >> /\ cq \in Seq(CqeType)
    BY <1>8 DEF ReaderIgnores, DrainIgnores, TypeOK
  <2>2. PICK e : e = Head(cq) /\ PlainCqe(e)
    BY <2>1, TailKeeps DEF PlainQueues
  <2>3. registry_get(reg, e.ud) = reg.slots[e.ud] /\ reg.slots[e.ud] # Null
    BY <2>1, <2>2, HeadSlot DEF PlainCqe, registry_get
  <2> QED
    BY <1>8, <2>2, <2>3, ReqsAssumption DEF ReaderIgnores, DrainIgnores, HasFuture, PlainCqe
<1> QED
  BY <1>1, <1>2, <1>3, <1>4, <1>5, <1>6, <1>7, <1>8 DEF Next, Reader, Shutdown

-----------------------------------------------------------------------------
(***************************************************************************)
(* The invariant.                                                           *)
(***************************************************************************)

\* A step that leaves the slots and the queues alone and starts no future anew.
LEMMA PlainQueuesStay ==
    ASSUME PlainQueues, OnePlace, UNCHANGED <<reg, sq, inflight, cq>>,
           \A r \in Reqs : Started(r) => Started(r)'
    PROVE  PlainQueues' /\ OnePlace'
BY DEF PlainQueues, OnePlace, PlainSqe, PlainCqe

LEMMA StartedStays ==
    ASSUME TypeOK, [Next]_vars, NEW r \in Reqs, Started(r) PROVE Started(r)'
BY FutureSteps DEF Started

\* What a plain call that succeeds does: main is its SQE, n its slot.
PlainSubmission(c, r, n, main) ==
    /\ n = NextIndex(reg) /\ main = MainSqe(c, r, n)
    /\ main.shape = "oneshot" /\ main.part = "main" /\ main.req = r /\ main.ud = n
    /\ main.buf \in {Null, r, CtxPayload}
    /\ main.buf # Null => main.buf = PayloadOf(c, r)
    /\ inflight' = inflight \cup {main}
    /\ sq'.queued = {} /\ cq' = cq
    /\ reg.slots[n].future = Null
    /\ reg'.slots = [reg.slots EXCEPT ![n] = SlotOf(c, r)]
    /\ WellFormed(reg')

LEMMA PlainSubmits ==
    ASSUME OnlyPlain, SlotInv, PlainQueues, NEW c \in Calls, NEW r \in Reqs, CallSubmitted(c, r)
    PROVE  \E n \in Indices, main \in SqeType : PlainSubmission(c, r, n, main)
<1>0. /\ TypeOK /\ reg \in RegistryType(SlotType) /\ ~RegistryFull(reg) /\ WellFormed(reg)
      /\ c.timeout = "none" /\ c.sqe.shape = "oneshot" /\ sq.queued = {}
  BY DEF SlotInv, StackInv, StackMatchesSlots, TypeOK, CallSubmitted, MayCall, OnlyPlain, Plain,
         PlainQueues
<1>1. PICK n \in Indices : /\ n = NextIndex(reg) /\ MainSqe(c, r, n) \in SqeType
                           /\ inflight' = inflight \cup sq.queued \cup {MainSqe(c, r, n)}
                           /\ sq'.queued = {} /\ cq' = cq
  BY <1>0, SubmitEffect
<1>2. PICK main \in SqeType : main = MainSqe(c, r, n)
  BY <1>1
<1>3. /\ main.shape = "oneshot" /\ main.part = "main" /\ main.req = r /\ main.ud = n
      /\ main.buf = IF c.sqe.buffers THEN PayloadOf(c, r) ELSE Null
  BY <1>0, <1>2 DEF MainSqe, Sqe
<1>4. /\ reg.slots[n].future = Null
      /\ registry_add(reg, SlotOf(c, r)).slots = [reg.slots EXCEPT ![n] = SlotOf(c, r)]
      /\ WellFormed(registry_add(reg, SlotOf(c, r)))
  BY <1>0, <1>1, HandlerAdds
<1>5. reg' = registry_add(reg, SlotOf(c, r))
  BY DEF CallSubmitted
<1>6. main.buf \in {Null, r, CtxPayload}
  BY <1>3, PayloadType
<1>7. inflight' = inflight \cup {main}
  BY <1>0, <1>1, <1>2
<1> QED
  BY <1>1, <1>2, <1>3, <1>4, <1>5, <1>6, <1>7 DEF PlainSubmission

LEMMA PlainSubmitStep ==
    ASSUME OnlyPlain, SlotInv, PlainInv, [Next]_vars,
           NEW c \in Calls, NEW r \in Reqs, CallSubmitted(c, r)
    PROVE  PlainQueues' /\ OnePlace' /\ BuffersAlive'
<1>0. /\ TypeOK /\ fut[r] = "unused" /\ reg.slots \in [Indices -> SlotType] /\ Live
      /\ CtxPayload \in mem
  BY SlotsTyped DEF SlotInv, StackInv, CallSubmitted, MayCall, Live, MemoryInv
<1>a. PlainQueues /\ OnePlace /\ BuffersAlive
  BY <1>0 DEF PlainInv, PlainMemory
<1>b. PICK n \in Indices, main \in SqeType : PlainSubmission(c, r, n, main)
  BY <1>a, PlainSubmits
<1>1. /\ main.shape = "oneshot" /\ main.part = "main" /\ main.req = r /\ main.ud = n
      /\ main.buf \in {Null, r, CtxPayload}
      /\ main.buf # Null => main.buf = PayloadOf(c, r)
      /\ inflight' = inflight \cup {main}
      /\ sq'.queued = {} /\ cq' = cq
      /\ reg.slots[n].future = Null
      /\ reg'.slots = [reg.slots EXCEPT ![n] = SlotOf(c, r)]
  BY <1>b DEF PlainSubmission
<1>2. /\ reg'.slots[n].future = r
      /\ \A j \in Indices : j # n => reg'.slots[j] = reg.slots[j]
      /\ Started(r)'
  <2>1. reg'.slots[n].future = r
    BY <1>0, <1>1, NewSlotType
  <2>2. Started(r)'
    BY <1>0 DEF CallSubmitted, TypeOK, Started
  <2> QED
    BY <1>0, <1>1, <2>1, <2>2
\* No SQE and no CQE concerns the request or the slot before the call.
<1>3. ASSUME NEW x \in inflight PROVE x.req # r /\ x.ud # n
  BY <1>0, <1>1, <1>a, <1>3, ReqsAssumption DEF PlainQueues, PlainSqe, Started
<1>4. ASSUME NEW k \in 1 .. Len(cq) PROVE cq[k].req # r /\ cq[k].ud # n
  <2>1. PlainCqe(cq[k])
    BY <1>a DEF PlainQueues
  <2>2. cq[k].req # r
    BY <1>0, <2>1, ReqsAssumption DEF PlainCqe, SlotInv, SlotsOwned, SlotOwned
  <2> QED
    BY <1>1, <2>1, <2>2, ReqsAssumption DEF PlainCqe
<1>5. PlainQueues'
  <2>1. ASSUME NEW x \in inflight PROVE PlainSqe(x)'
    <3>1. PlainSqe(x)
      BY <1>a DEF PlainQueues
    <3>2. Started(x.req)'
      BY <1>0, <3>1, StartedStays DEF PlainSqe
    <3> QED
      BY <1>2, <1>3, <3>1, <3>2 DEF PlainSqe
  <2>2. PlainSqe(main)'
    BY <1>1, <1>2 DEF PlainSqe
  <2>3. ASSUME NEW k \in 1 .. Len(cq) PROVE PlainCqe(cq[k])'
    <3>1. PICK e : e = cq[k] /\ PlainCqe(e)
      BY <1>a DEF PlainQueues
    <3>2. PlainCqe(e)'
      BY <1>2, <1>4, <3>1 DEF PlainCqe
    <3>3. e = cq'[k]
      BY <1>1, <3>1
    <3> QED
      BY <1>1, <3>1, <3>2, <3>3 DEF PlainCqe
  <2>4. \A x \in inflight' : PlainSqe(x)'
    BY <1>1, <2>1, <2>2
  <2>5. \A k \in 1 .. Len(cq') : PlainCqe(cq[k])'
    BY <1>1, <2>3 DEF PlainCqe
  <2> QED
    BY <1>1, <2>4, <2>5 DEF PlainQueues
<1>6. OnePlace'
  <2>1. \A x, y \in inflight' : x.req = y.req => x = y
    BY <1>1, <1>3, <1>a DEF OnePlace
  <2>2. \A j, k \in 1 .. Len(cq') : cq'[j].req = cq'[k].req => j = k
    BY <1>1, <1>a DEF OnePlace
  <2>3. \A x \in inflight', k \in 1 .. Len(cq') : x.req # cq'[k].req
    BY <1>1, <1>4, <1>a DEF OnePlace
  <2> QED
    BY <2>1, <2>2, <2>3 DEF OnePlace
<1>7. BuffersAlive'
  <2>1. mem \subseteq mem' /\ (c.payload = "own" => r \in mem')
    BY DEF CallSubmitted
  <2>2. main.buf # Null => main.buf \in mem'
    BY <1>0, <1>1, <2>1, PayloadType
  <2> QED
    BY <1>1, <1>a, <2>1, <2>2 DEF BuffersAlive
<1> QED
  BY <1>5, <1>6, <1>7

LEMMA PlainKernelStep ==
    ASSUME TypeOK, PlainInv, NEW x \in inflight, NEW ok \in BOOLEAN, KernelCompletes(x, ok)
    PROVE  PlainQueues' /\ OnePlace' /\ (BuffersAlive => BuffersAlive')
<1>0. PlainQueues /\ OnePlace /\ cq \in Seq(CqeType) /\ x \in SqeType
  BY DEF PlainInv, TypeOK
<1>1. /\ inflight' = inflight \ {x}
      /\ UNCHANGED <<reg, sq, fut, mem>>
  BY DEF KernelCompletes, futureVars, memoryVars
<1>2. PICK e \in CqeType : /\ cq' = Append(cq, e)
                           /\ e.ud = x.ud /\ e.req = x.req /\ e.part = x.part
  BY <1>0, CqeOfType DEF KernelCompletes, Post, CqeOf
<1>3. /\ Len(cq') = Len(cq) + 1 /\ Len(cq) \in Nat
      /\ \A k \in 1 .. Len(cq) : cq'[k] = cq[k]
      /\ cq'[Len(cq) + 1] = e
  BY <1>0, <1>2, AppendKeeps
<1>4. \A k \in 1 .. Len(cq') : k \in 1 .. Len(cq) \/ k = Len(cq) + 1
  BY <1>3
<1>5. \A y \in inflight' : PlainSqe(y)'
  BY <1>0, <1>1 DEF PlainQueues, PlainSqe, Started
<1>6. \A d \in CqeType : PlainCqe(d) <=> PlainCqe(d)'
  BY <1>1 DEF PlainCqe
<1>7. PlainCqe(e)
  BY <1>0, <1>2 DEF PlainQueues, PlainSqe, PlainCqe
<1>8. \A k \in 1 .. Len(cq') : PlainCqe(cq[k])'
  BY <1>0, <1>1, <1>3, <1>4, <1>7 DEF PlainQueues, PlainCqe
<1>9. PlainQueues'
  BY <1>0, <1>1, <1>5, <1>8 DEF PlainQueues
<1>10. OnePlace'
  <2>1. \A y, z \in inflight' : y.req = z.req => y = z
    BY <1>0, <1>1 DEF OnePlace
  <2>2. \A j \in 1 .. Len(cq) : cq[j].req # e.req
    BY <1>0, <1>2 DEF OnePlace
  <2>3. \A y \in inflight' : y.req # e.req
    BY <1>0, <1>1, <1>2 DEF OnePlace
  <2>4. \A j, k \in 1 .. Len(cq') : cq'[j].req = cq'[k].req => j = k
    BY <1>0, <1>3, <1>4, <2>2 DEF OnePlace
  <2>5. \A y \in inflight', k \in 1 .. Len(cq') : y.req # cq'[k].req
    BY <1>0, <1>1, <1>3, <1>4, <2>3 DEF OnePlace
  <2> QED
    BY <2>1, <2>4, <2>5 DEF OnePlace
<1> QED
  BY <1>1, <1>9, <1>10 DEF BuffersAlive

\* The reader and the drain loop: the CQE at the head takes the slot of its request,
\* which no other SQE or CQE concerns.
LEMMA PlainConsumeStep ==
    ASSUME SlotInv, PlainInv, [Next]_vars, Live, NEW e, e = Head(cq), cq # << >>,
           cq' = Tail(cq), UNCHANGED <<sq, inflight>>,
           NEW i \in Indices, i = e.ud,
           reg'.slots = [reg.slots EXCEPT ![i] = ClearSlot(reg.slots[i])],
           mem' = mem \ FreedBy(reg.slots[i].payload, FALSE)
    PROVE  PlainQueues' /\ OnePlace' /\ BuffersAlive'
<1>0. /\ TypeOK /\ PlainQueues /\ OnePlace /\ BuffersAlive /\ cq \in Seq(CqeType)
      /\ reg.slots \in [Indices -> SlotType]
  BY SlotsTyped DEF SlotInv, StackInv, PlainInv, PlainMemory, TypeOK
<1>1. /\ e = cq[1] /\ 1 \in 1 .. Len(cq)
      /\ \A k \in 1 .. Len(cq') : k + 1 \in 1 .. Len(cq) /\ cq'[k] = cq[k + 1] /\ k + 1 # 1
  BY <1>0, TailKeeps
<1>2. PlainCqe(e)
  BY <1>0, <1>1 DEF PlainQueues
<1>3. \A j \in Indices : j # i => reg'.slots[j] = reg.slots[j]
  BY <1>0
<1>4. ASSUME NEW x \in inflight PROVE PlainSqe(x)' /\ x.req # e.req
  <2>1. PlainSqe(x) /\ x.req # e.req
    BY <1>0, <1>1 DEF PlainQueues, OnePlace
  <2>2. x.ud # i
    BY <1>2, <2>1 DEF PlainSqe, PlainCqe
  <2>3. Started(x.req)'
    BY <1>0, <2>1, StartedStays DEF PlainSqe
  <2> QED
    BY <1>3, <2>1, <2>2, <2>3 DEF PlainSqe
<1>5. ASSUME NEW k \in 1 .. Len(cq') PROVE PlainCqe(cq[k])'
  <2>1. PICK d : d = cq[k + 1] /\ PlainCqe(d) /\ d.req # e.req /\ d = cq'[k]
    BY <1>0, <1>1 DEF PlainQueues, OnePlace
  <2>2. d.ud # i
    BY <1>2, <2>1 DEF PlainCqe
  <2> QED
    BY <1>3, <2>1, <2>2 DEF PlainCqe
<1>6. PlainQueues'
  BY <1>0, <1>4, <1>5 DEF PlainQueues
<1>7. OnePlace'
  BY <1>0, <1>1 DEF OnePlace
<1>8. BuffersAlive'
  <2> SUFFICES ASSUME NEW x \in inflight, x.buf # Null PROVE x.buf \in mem'
    BY DEF BuffersAlive
  <2>1. x.buf \in {x.req, CtxPayload} /\ x.buf \in mem /\ x.req # e.req
    BY <1>0, <1>4 DEF PlainQueues, PlainSqe, BuffersAlive
  <2>2. reg.slots[i].payload \in {Null, e.req, CtxPayload}
    BY <1>2, ReqsAssumption DEF PlainCqe, SlotInv, SlotsOwned, SlotOwned
  <2> QED
    BY <2>1, <2>2, ReqsAssumption DEF FreedBy
<1> QED
  BY <1>6, <1>7, <1>8

\* What the reader and the drain loop do with a plain CQE: the future of its own
\* request is resolved, its slot is removed, and abort() is not reached.
LEMMA PlainConsumes ==
    ASSUME SlotInv, PlainInv, ReaderResolves \/ DrainRemoves
    PROVE  \E i \in Indices, e \in CqeType :
             /\ e = Head(cq) /\ i = e.ud /\ cq # << >> /\ PlainCqe(e)
             /\ cq' = Tail(cq) /\ UNCHANGED <<sq, inflight, fd_closed>>
             /\ Outcome(e.req, e)
             /\ \A x \in inflight : x.req # e.req
             /\ reg'.slots = [reg.slots EXCEPT ![i] = ClearSlot(reg.slots[i])]
             /\ WellFormed(reg')
             /\ mem' = mem \ FreedBy(reg.slots[i].payload, FALSE)
             /\ Live /\ phase' = phase
<1>0. TypeOK /\ StackInv /\ PlainQueues /\ OnePlace /\ cq \in Seq(CqeType)
  BY DEF SlotInv, StackInv, PlainInv, TypeOK
<1>1. /\ cq # << >> /\ cq' = Tail(cq) /\ UNCHANGED <<sq, inflight, fd_closed>> /\ Live
      /\ Head(cq) \in CqeType
  BY <1>0, ReaderEffect, DrainEffect DEF Live
<1>2. PICK e \in CqeType : e = Head(cq) /\ PlainCqe(e) /\ \A x \in inflight : x.req # e.req
  <2>1. Head(cq) = cq[1] /\ 1 \in 1 .. Len(cq)
    BY <1>0, <1>1, TailKeeps
  <2> QED
    BY <1>0, <1>1, <2>1 DEF PlainQueues, OnePlace
<1>3. PICK i \in Indices : i = e.ud /\ reg.slots[i].future = e.req /\ e.req \in Reqs
  BY <1>2 DEF PlainCqe
<1>4. WellFormed(reg) /\ reg \in RegistryType(SlotType) /\ reg.slots[i].future # Null
  BY <1>0, <1>1, <1>3, ReqsAssumption DEF PlainInv, PlainMemory, TypeOK
<1>5. ~RemoveAborts(reg, i)
  BY <1>4, InUseLeavesRoom
<1>6. Outcome(e.req, e) /\ reg' = registry_remove(reg, i) /\ phase' = phase
  <2>1. CASE ReaderResolves
    BY <1>0, <1>2, <1>3, <1>5, <2>1, ReaderEffect
  <2>2. CASE DrainRemoves
    BY <1>0, <1>2, <1>3, <1>4, <1>5, <2>2, DrainEffect
  <2> QED
    BY <2>1, <2>2
<1>7. mem' = mem \ FreedBy(reg.slots[i].payload, FALSE)
  <2>1. CASE ReaderResolves
    BY <1>2, <1>3, <2>1, ReaderFrees
  <2>2. CASE DrainRemoves
    BY <1>0, <1>2, <1>3, <1>5, <2>2, DrainEffect
  <2> QED
    BY <2>1, <2>2
<1>8. WellFormed(registry_remove(reg, i))
  BY <1>4, RemoveWellFormed, SlotClears
<1>9. registry_remove(reg, i).slots = [reg.slots EXCEPT ![i] = ClearSlot(reg.slots[i])]
  BY <1>4, <1>5, Removal
<1> QED
  BY <1>1, <1>2, <1>3, <1>6, <1>7, <1>8, <1>9

LEMMA PlainInit == Init => PlainInv
<1> SUFFICES ASSUME Init PROVE PlainInv
  OBVIOUS
<1>1. WellFormed(reg)
  BY NewRegistry, ZeroSlotType DEF Init
<1>2. PlainQueues
  BY DEF Init, PlainQueues, InitialSq
<1>3. OnePlace /\ NoMisdelivery /\ BuffersAlive
  BY DEF Init, OnePlace, NoMisdelivery, BuffersAlive
<1> QED
  BY <1>1, <1>2, <1>3 DEF PlainInv, PlainMemory

LEMMA PlainStep ==
    ASSUME OnlyPlain PROVE SlotInv /\ PlainInv /\ [Next]_vars => PlainInv'
<1> SUFFICES ASSUME SlotInv, PlainInv, [Next]_vars PROVE PlainInv'
  OBVIOUS
<1>0. TypeOK /\ PlainQueues /\ OnePlace /\ PlainMemory /\ NoMisdelivery
  BY DEF SlotInv, StackInv, PlainInv
<1>a. \A r \in Reqs : Started(r) => Started(r)'
  BY <1>0, StartedStays
<1>1. CASE Quiet
  <2>1. PlainQueues' /\ OnePlace'
    BY <1>0, <1>1, <1>a, PlainQueuesStay DEF Quiet
  <2>2. PlainMemory' /\ NoMisdelivery'
    BY <1>0, <1>1 DEF Quiet, PlainMemory, BuffersAlive, WellFormed, FreeIndices, NoMisdelivery
  <2> QED
    BY <2>1, <2>2 DEF PlainInv
<1>2. ASSUME \/ \E r \in Reqs, c \in Calls : CallRefused(c, r)
             \/ \E r \in Reqs : CancelFuture(r)
      PROVE  PlainInv'
  <2>0. UNCHANGED <<reg, sq, inflight, cq, mem, delivered, phase>>
    BY <1>2 DEF CallRefused, CancelFuture, kernelVars, outcomeVars, memoryVars
  <2>1. PlainQueues' /\ OnePlace'
    BY <1>0, <1>a, <2>0, PlainQueuesStay
  <2>2. PlainMemory' /\ NoMisdelivery'
    BY <1>0, <2>0 DEF PlainMemory, Live, BuffersAlive, WellFormed, FreeIndices, NoMisdelivery
  <2> QED
    BY <2>1, <2>2 DEF PlainInv
<1>3. ASSUME NEW r \in Reqs, NEW c \in Calls, CallSubmitted(c, r) PROVE PlainInv'
  <2>1. PlainQueues' /\ OnePlace' /\ BuffersAlive'
    BY <1>3, PlainSubmitStep
  <2>a. PICK n \in Indices, main \in SqeType : PlainSubmission(c, r, n, main)
    BY <1>0, <1>3, PlainSubmits
  <2>2. WellFormed(reg)'
    BY <2>a DEF PlainSubmission, WellFormed, FreeIndices
  <2>3. NoMisdelivery'
    BY <1>0, <1>3 DEF CallSubmitted, outcomeVars, NoMisdelivery
  <2> QED
    BY <2>1, <2>2, <2>3 DEF PlainInv, PlainMemory
<1>4. ASSUME NEW x \in inflight, NEW ok \in BOOLEAN, KernelCompletes(x, ok) PROVE PlainInv'
  <2>1. PlainQueues' /\ OnePlace' /\ (BuffersAlive => BuffersAlive')
    BY <1>0, <1>4, PlainKernelStep
  <2>2. UNCHANGED <<reg, phase, delivered>>
    BY <1>4 DEF KernelCompletes, futureVars, outcomeVars
  <2>3. NoMisdelivery' /\ (WellFormed(reg) => WellFormed(reg)') /\ (Live' => Live)
    BY <1>0, <2>2 DEF NoMisdelivery, WellFormed, FreeIndices, Live
  <2> QED
    BY <1>0, <2>1, <2>3 DEF PlainInv, PlainMemory
<1>5. CASE ReaderResolves \/ DrainRemoves
  <2>1. PICK i \in Indices, e \in CqeType :
             /\ e = Head(cq) /\ i = e.ud /\ cq # << >> /\ PlainCqe(e)
             /\ cq' = Tail(cq) /\ UNCHANGED <<sq, inflight>>
             /\ Outcome(e.req, e)
             /\ reg'.slots = [reg.slots EXCEPT ![i] = ClearSlot(reg.slots[i])]
             /\ WellFormed(reg')
             /\ mem' = mem \ FreedBy(reg.slots[i].payload, FALSE)
             /\ Live
    BY <1>5, PlainConsumes
  <2>2. PlainQueues' /\ OnePlace' /\ BuffersAlive'
    BY <2>1, PlainConsumeStep
  <2>3. WellFormed(reg)'
    BY <2>1 DEF WellFormed, FreeIndices
  <2>4. NoMisdelivery'
    BY <1>0, <2>1 DEF Outcome, PlainCqe, NoMisdelivery, TypeOK
  <2> QED
    BY <2>2, <2>3, <2>4 DEF PlainInv, PlainMemory
<1>6. CASE DestroyRegistry
  <2>1. UNCHANGED <<reg, sq, inflight, cq, delivered>> /\ ~Live'
    BY <1>6 DEF DestroyRegistry, kernelVars, Live
  <2>2. PlainQueues' /\ OnePlace'
    BY <1>0, <1>a, <2>1, PlainQueuesStay
  <2> QED
    BY <1>0, <2>1, <2>2 DEF PlainInv, PlainMemory, NoMisdelivery
<1>7. CASE DestroyRing
  <2>1. /\ UNCHANGED <<reg, sq, cq, fut, delivered>> /\ ~Live'
        /\ inflight' \subseteq inflight
    BY <1>7 DEF DestroyRing, futureVars, outcomeVars, Live
  <2>2. PlainQueues'
    BY <1>0, <2>1 DEF PlainQueues, PlainSqe, PlainCqe, Started
  <2>3. OnePlace'
    BY <1>0, <2>1 DEF OnePlace
  <2> QED
    BY <1>0, <2>1, <2>2, <2>3 DEF PlainInv, PlainMemory, NoMisdelivery
<1> QED
  BY <1>0, <1>1, <1>2, <1>3, <1>4, <1>5, <1>6, <1>7, PlainSteps

LEMMA PlainInvariant == OnlyPlain /\ Spec => []PlainInv
<1> SUFFICES ASSUME OnlyPlain PROVE Spec => []PlainInv
  OBVIOUS
<1>1. SlotInv /\ PlainInv /\ [Next]_vars => PlainInv'
  BY PlainStep
<1> QED
  BY <1>1, PlainInit, SlotInvariant, PTL DEF Spec

\* A future is resolved by the CQE of its own SQE: the reader maps a CQE to the
\* request it was submitted for, however slots are reused and futures cancelled.
THEOREM CompletionsReachTheirFuture == OnlyPlain /\ Spec => []NoMisdelivery
<1>1. PlainInv => NoMisdelivery
  BY DEF PlainInv
<1> QED
  BY <1>1, PlainInvariant, PTL

\* Until the registry is destroyed the kernel works on buffers that are allocated,
\* also on those of cancelled requests and in the drain loop.
THEOREM BuffersOutliveTheirRequests == OnlyPlain /\ Spec => []BuffersAliveUntilShutdown
<1>1. PlainInv => BuffersAliveUntilShutdown
  BY DEF PlainInv, PlainMemory, BuffersAliveUntilShutdown, Live
<1> QED
  BY <1>1, PlainInvariant, PTL

-----------------------------------------------------------------------------
(***************************************************************************)
(* The process does not die.  Left out are the calls whose completion       *)
(* dereferences a NULL pointer in the switch of the reader (a readv into    *)
(* the buffers of a context, a MULTISHOT recvmsg) and __aexit__, which may  *)
(* run after the loop was closed.                                           *)
(***************************************************************************)
NoFatalCall ==
    \A c \in Calls :
        /\ c.target \in Targets => c.checks_closed
        /\ ~(c.opcode = "READV" /\ c.payload = "ctx")
        /\ ~(c.opcode = "RECVMSG" /\ c.stream = "MULTISHOT")

SwitchSafe ==
    \A i \in Indices :
        /\ ~(reg.slots[i].opcode = "READV" /\ reg.slots[i].payload = CtxPayload)
        /\ ~(reg.slots[i].opcode = "RECVMSG" /\ reg.slots[i].stream = "MULTISHOT")

AliveInv == NoCrash /\ SwitchSafe

LEMMA AliveStep ==
    ASSUME OnlyPlain, NoFatalCall
    PROVE  SlotInv /\ PlainInv /\ AliveInv /\ [Next]_vars => AliveInv'
<1> SUFFICES ASSUME SlotInv, PlainInv, AliveInv, [Next]_vars PROVE AliveInv'
  OBVIOUS
<1>0. /\ TypeOK /\ PlainQueues /\ NoCrash /\ SwitchSafe
      /\ reg.slots \in [Indices -> SlotType]
  BY SlotsTyped DEF SlotInv, StackInv, PlainInv, AliveInv
<1>1. ASSUME Dies PROVE FALSE
  <2>1. ASSUME NEW r \in Reqs, NEW c \in Calls, CallOnClosedLoop(c, r) PROVE FALSE
    BY <2>1 DEF CallOnClosedLoop, NoFatalCall
  <2>2. ASSUME ReaderCrashes PROVE FALSE
    <3>1. registry_get(reg, Head(cq).ud) # Null /\ cq # << >>
      BY <2>2 DEF ReaderCrashes, HasFuture
    <3>2. Head(cq).ud \in Indices /\ registry_get(reg, Head(cq).ud) = reg.slots[Head(cq).ud]
      BY <1>0, <3>1, HeadSlot
    <3> QED
      BY <1>0, <2>2, <3>2 DEF ReaderCrashes, SwitchCrashes, SwitchSafe
  <2> QED
    BY <1>1, <2>1, <2>2 DEF Dies
<1>2. CASE Quiet /\ (phase' \in {"aborted", "crashed"} => phase \in {"aborted", "crashed"} \/ Dies)
  BY <1>0, <1>1, <1>2 DEF Quiet, AliveInv, NoCrash, SwitchSafe
<1>3. ASSUME \/ \E r \in Reqs, c \in Calls : CallRefused(c, r)
             \/ \E r \in Reqs : CancelFuture(r)
             \/ \E x \in inflight, ok \in BOOLEAN : KernelCompletes(x, ok)
      PROVE  AliveInv'
  BY <1>0, <1>3 DEF CallRefused, CancelFuture, KernelCompletes, AliveInv, NoCrash, SwitchSafe
<1>4. ASSUME NEW r \in Reqs, NEW c \in Calls, CallSubmitted(c, r) PROVE AliveInv'
  <2>0. PICK n \in Indices, main \in SqeType : PlainSubmission(c, r, n, main)
    BY <1>0, <1>4, PlainSubmits
  <2>1. reg'.slots = [reg.slots EXCEPT ![n] = SlotOf(c, r)]
    BY <2>0 DEF PlainSubmission
  <2>2. /\ ~(SlotOf(c, r).opcode = "READV" /\ SlotOf(c, r).payload = CtxPayload)
        /\ ~(SlotOf(c, r).opcode = "RECVMSG" /\ SlotOf(c, r).stream = "MULTISHOT")
    <3>1. SlotOf(c, r).payload = CtxPayload => c.payload = "ctx"
      BY NewSlotType, PayloadType, ReqsAssumption
    <3>2. SlotOf(c, r).opcode = c.opcode /\ SlotOf(c, r).stream = c.stream
      BY DEF SlotOf
    <3> QED
      BY <3>1, <3>2 DEF NoFatalCall
  <2>3. SwitchSafe'
    BY <1>0, <2>1, <2>2 DEF SwitchSafe
  <2>4. NoCrash'
    BY <1>0, <1>4 DEF CallSubmitted, NoCrash
  <2> QED
    BY <2>3, <2>4 DEF AliveInv
<1>5. CASE ReaderResolves \/ DrainRemoves
  <2>1. PICK i \in Indices :
          /\ reg'.slots = [reg.slots EXCEPT ![i] = ClearSlot(reg.slots[i])]
          /\ phase' = phase
    BY <1>5, PlainConsumes
  <2>2. ClearSlot(reg.slots[i]).opcode = "NOP"
    BY <1>0, ClearedSlot
  <2>3. SwitchSafe'
    BY <1>0, <2>1, <2>2 DEF SwitchSafe
  <2> QED
    BY <1>0, <2>1, <2>3 DEF AliveInv, NoCrash
<1>6. CASE DestroyRegistry \/ DestroyRing
  BY <1>0, <1>6 DEF DestroyRegistry, DestroyRing, AliveInv, NoCrash, SwitchSafe
<1> QED
  BY <1>0, <1>2, <1>3, <1>4, <1>5, <1>6, PlainSteps

\* Neither abort() nor a NULL pointer is reached: the stack of free indices is
\* never full when a slot is removed, in the drain loop neither.
THEOREM ProcessSurvives == OnlyPlain /\ NoFatalCall /\ Spec => []NoCrash
<1> SUFFICES ASSUME OnlyPlain, NoFatalCall PROVE Spec => []NoCrash
  OBVIOUS
<1>1. Init => AliveInv
  BY DEF Init, AliveInv, NoCrash, SwitchSafe, registry_new, ZeroSlot
<1>2. SlotInv /\ PlainInv /\ AliveInv /\ [Next]_vars => AliveInv'
  BY AliveStep
<1>3. AliveInv => NoCrash
  BY DEF AliveInv
<1>4. Spec => []PlainInv
  BY PlainInvariant
<1> QED
  BY <1>1, <1>2, <1>3, <1>4, SlotInvariant, PTL DEF Spec

-----------------------------------------------------------------------------
(***************************************************************************)
(* Closing.  Every call that closes checks `closed' and sets it before it   *)
(* submits, as UringioSocket_close does; UringioFile_close sets it only     *)
(* when its CQE has arrived.                                                *)
(***************************************************************************)
ClosesMark ==
    \A c \in Calls : c.closes => c.checks_closed /\ c.marks_closed

CloseInv ==
    /\ ClosedOnce
    /\ \A t \in fd_closed : closed[t]
    /\ \A x \in inflight : x.closes # Null => x.closes \in Targets /\ closed[x.closes]

LEMMA CloseStep ==
    ASSUME OnlyPlain, ClosesMark
    PROVE  SlotInv /\ PlainInv /\ CloseInv /\ [Next]_vars => CloseInv'
<1> SUFFICES ASSUME SlotInv, PlainInv, CloseInv, [Next]_vars PROVE CloseInv'
  OBVIOUS
<1>0. TypeOK /\ PlainQueues /\ closed \in [Targets -> BOOLEAN] /\ fd_closed \subseteq Targets
  BY DEF SlotInv, StackInv, PlainInv, TypeOK
<1>1. CASE Quiet
  BY <1>1 DEF Quiet, CloseInv, ClosedOnce
<1>2. ASSUME \/ \E r \in Reqs, c \in Calls : CallRefused(c, r)
             \/ \E r \in Reqs : CancelFuture(r)
      PROVE  CloseInv'
  BY <1>2 DEF CallRefused, CancelFuture, kernelVars, CloseInv, ClosedOnce
<1>3. ASSUME NEW r \in Reqs, NEW c \in Calls, CallSubmitted(c, r) PROVE CloseInv'
  <2>0. PICK n \in Indices, main \in SqeType : PlainSubmission(c, r, n, main)
    BY <1>0, <1>3, PlainSubmits
  <2>1. inflight' = inflight \cup {main} /\ main = MainSqe(c, r, n)
    BY <2>0 DEF PlainSubmission
  <2>6. /\ c.closes => main.closes = c.target
        /\ ~c.closes => main.closes = Null
    BY <2>1 DEF MainSqe, Sqe
  <2>2. /\ closed' = IF c.marks_closed THEN [closed EXCEPT ![c.target] = TRUE] ELSE closed
        /\ fd_closed' = fd_closed
        /\ c.checks_closed => ~closed[c.target]
    BY <1>3 DEF CallSubmitted, MayCall
  <2>3. \A t \in Targets : closed[t] => closed'[t]
    BY <1>0, <2>2
  <2>4. CASE ~c.closes
    BY <1>0, <2>1, <2>6, <2>2, <2>3, <2>4 DEF CloseInv, ClosedOnce
  <2>5. CASE c.closes
    <3>1. c.target \in Targets /\ ~closed[c.target] /\ closed'[c.target] /\ c.target # Null
      BY <1>0, <2>2, <2>5, CallsAssumption, TargetsAssumption DEF Consistent, Targets, ClosesMark
    <3>2. c.target \notin fd_closed /\ \A x \in inflight : x.closes # c.target
      BY <3>1 DEF CloseInv
    <3> QED
      BY <1>0, <2>1, <2>6, <2>2, <2>3, <2>5, <3>1, <3>2 DEF CloseInv, ClosedOnce
  <2> QED
    BY <2>4, <2>5
<1>4. ASSUME NEW x \in inflight, NEW ok \in BOOLEAN, KernelCompletes(x, ok) PROVE CloseInv'
  <2>1. /\ inflight' = inflight \ {x} /\ closed' = closed
        /\ fd_closed' = IF ok /\ x.closes # Null THEN fd_closed \cup {x.closes} ELSE fd_closed
    BY <1>4 DEF KernelCompletes
  <2> QED
    BY <2>1 DEF CloseInv, ClosedOnce
<1>5. CASE ReaderResolves \/ DrainRemoves
  <2>1. UNCHANGED <<inflight, fd_closed>>
    BY <1>5, PlainConsumes
  <2>2. \A t \in Targets : closed[t] => closed'[t]
    BY <1>0, <1>5 DEF ReaderResolves, DrainRemoves
  <2> QED
    BY <1>0, <2>1, <2>2 DEF CloseInv, ClosedOnce
<1>6. CASE DestroyRegistry \/ DestroyRing
  BY <1>6 DEF DestroyRegistry, DestroyRing, kernelVars, CloseInv, ClosedOnce
<1> QED
  BY <1>0, <1>1, <1>2, <1>3, <1>4, <1>5, <1>6, PlainSteps

\* A descriptor is closed at most once, whatever the order of the calls and of the
\* CQEs, during the shutdown of the loop too.
THEOREM DescriptorsClosedOnce == OnlyPlain /\ ClosesMark /\ Spec => []ClosedOnce
<1> SUFFICES ASSUME OnlyPlain, ClosesMark PROVE Spec => []ClosedOnce
  OBVIOUS
<1>1. Init => CloseInv
  BY DEF Init, CloseInv, ClosedOnce
<1>2. SlotInv /\ PlainInv /\ CloseInv /\ [Next]_vars => CloseInv'
  BY CloseStep
<1>3. CloseInv => ClosedOnce
  BY DEF CloseInv
<1>4. Spec => []PlainInv
  BY PlainInvariant
<1> QED
  BY <1>1, <1>2, <1>3, <1>4, SlotInvariant, PTL DEF Spec

-----------------------------------------------------------------------------
(***************************************************************************)
(* The refinement of module Completion.                                     *)
(***************************************************************************)
StateOf(f) == IF f \in {"result", "exception"} THEN "resolved" ELSE f

AbstractState == [r \in Reqs |-> StateOf(fut[r])]

AbstractFinished == {r \in Reqs : Started(r) /\ \A x \in inflight : x.req # r}

LEMMA AbstractMeaning ==
    /\ Abstract!vars = <<AbstractState, AbstractFinished>>
    /\ Abstract!Init <=> /\ AbstractState = [r \in Reqs |-> "unused"]
                         /\ AbstractFinished = {}
    /\ \A r \in Reqs :
         /\ Abstract!Refuse(r) <=>
              /\ AbstractState[r] = "unused"
              /\ AbstractState' = [AbstractState EXCEPT ![r] = "refused"]
              /\ AbstractFinished' = AbstractFinished
         /\ Abstract!Start(r) <=>
              /\ AbstractState[r] = "unused"
              /\ AbstractState' = [AbstractState EXCEPT ![r] = "pending"]
              /\ AbstractFinished' = AbstractFinished
         /\ Abstract!Cancel(r) <=>
              /\ AbstractState[r] = "pending"
              /\ AbstractState' = [AbstractState EXCEPT ![r] = "cancelled"]
              /\ AbstractFinished' = AbstractFinished
         /\ Abstract!Resolve(r) <=>
              /\ AbstractState[r] = "pending"
              /\ r \in AbstractFinished
              /\ AbstractState' = [AbstractState EXCEPT ![r] = "resolved"]
              /\ AbstractFinished' = AbstractFinished
    /\ \A S \in SUBSET Reqs :
         Abstract!Finish(S) <=>
              /\ S # {}
              /\ \A r \in S : AbstractState[r] \notin {"unused", "refused"}
                              /\ r \notin AbstractFinished
              /\ AbstractFinished' = AbstractFinished \cup S
              /\ AbstractState' = AbstractState
BY DEF AbstractState, AbstractFinished, StateOf, Started, Abstract!vars, Abstract!Init,
       Abstract!Refuse, Abstract!Start, Abstract!Cancel, Abstract!Resolve, Abstract!Finish,
       Abstract!Started

\* How a change of one future shows in the abstract state.
LEMMA AbstractChange ==
    ASSUME TypeOK, NEW r \in Reqs, NEW f, fut' = [fut EXCEPT ![r] = f]
    PROVE  AbstractState' = [AbstractState EXCEPT ![r] = StateOf(f)]
BY DEF TypeOK, AbstractState

LEMMA RefinementStep ==
    ASSUME OnlyPlain
    PROVE  SlotInv /\ PlainInv /\ [Next]_vars => [Abstract!Next]_(Abstract!vars)
<1> SUFFICES ASSUME SlotInv, PlainInv, [Next]_vars
             PROVE  Abstract!Next \/ Abstract!vars' = Abstract!vars
  OBVIOUS
<1>0. /\ TypeOK /\ PlainQueues /\ OnePlace /\ fut \in [Reqs -> FutureStates]
  BY DEF SlotInv, StackInv, PlainInv, TypeOK
<1>a. \A r \in Reqs : AbstractState[r] = StateOf(fut[r])
  BY DEF AbstractState
<1>b. ASSUME fut' = fut, inflight' = inflight PROVE Abstract!vars' = Abstract!vars
  BY <1>b DEF Abstract!vars
<1>1. CASE Quiet
  BY <1>1, <1>b DEF Quiet
<1>2. ASSUME NEW r \in Reqs, NEW c \in Calls, CallRefused(c, r) PROVE Abstract!Next
  <2>1. fut[r] = "unused" /\ fut' = [fut EXCEPT ![r] = "refused"] /\ inflight' = inflight
    BY <1>2 DEF CallRefused, MayCall, kernelVars
  <2>2. AbstractState' = [AbstractState EXCEPT ![r] = "refused"]
    BY <1>0, <2>1, AbstractChange DEF StateOf
  <2>3. AbstractFinished' = AbstractFinished
    BY <1>0, <2>1 DEF AbstractFinished, Started
  <2>4. AbstractState[r] = "unused"
    BY <1>a, <2>1 DEF StateOf
  <2>5. Abstract!Refuse(r)
    BY <2>2, <2>3, <2>4, AbstractMeaning
  <2> QED
    BY <2>5 DEF Abstract!Next
<1>3. ASSUME NEW r \in Reqs, NEW c \in Calls, CallSubmitted(c, r) PROVE Abstract!Next
  <2>1. fut[r] = "unused" /\ fut' = [fut EXCEPT ![r] = "pending"]
    BY <1>3 DEF CallSubmitted, MayCall
  <2>2. AbstractState' = [AbstractState EXCEPT ![r] = "pending"]
    BY <1>0, <2>1, AbstractChange DEF StateOf
  <2>0. PICK n \in Indices, main \in SqeType : PlainSubmission(c, r, n, main)
    BY <1>0, <1>3, PlainSubmits
  <2>3. main.req = r /\ inflight' = inflight \cup {main}
    BY <2>0 DEF PlainSubmission
  <2>4. AbstractFinished' = AbstractFinished
    BY <1>0, <2>1, <2>3 DEF AbstractFinished, Started
  <2>5. AbstractState[r] = "unused"
    BY <1>a, <2>1 DEF StateOf
  <2>6. Abstract!Start(r)
    BY <2>2, <2>4, <2>5, AbstractMeaning
  <2> QED
    BY <2>6 DEF Abstract!Next
<1>4. ASSUME NEW r \in Reqs, CancelFuture(r) PROVE Abstract!Next
  <2>1. fut[r] = "pending" /\ fut' = [fut EXCEPT ![r] = "cancelled"] /\ inflight' = inflight
    BY <1>4 DEF CancelFuture, kernelVars
  <2>2. AbstractState' = [AbstractState EXCEPT ![r] = "cancelled"]
    BY <1>0, <2>1, AbstractChange DEF StateOf
  <2>3. AbstractFinished' = AbstractFinished
    BY <1>0, <2>1 DEF AbstractFinished, Started
  <2>4. AbstractState[r] = "pending"
    BY <1>a, <2>1 DEF StateOf
  <2>5. Abstract!Cancel(r)
    BY <2>2, <2>3, <2>4, AbstractMeaning
  <2> QED
    BY <2>5 DEF Abstract!Next
\* The kernel is finished with the requests whose only SQE it drops.
<1>5. ASSUME NEW S \in SUBSET Reqs, S # {}, UNCHANGED fut,
             \A r \in S : Started(r) /\ \E x \in inflight : x.req = r,
             inflight' = {x \in inflight : x.req \notin S}
      PROVE  Abstract!Next
  <2>1. AbstractState' = AbstractState
    BY <1>5 DEF AbstractState
  <2>2. AbstractFinished' = AbstractFinished \cup S
    BY <1>5 DEF AbstractFinished, Started
  <2>3. \A r \in S : AbstractState[r] \notin {"unused", "refused"} /\ r \notin AbstractFinished
    BY <1>a, <1>5 DEF AbstractFinished, Started, StateOf
  <2>4. Abstract!Finish(S)
    BY <1>5, <2>1, <2>2, <2>3, AbstractMeaning
  <2> QED
    BY <2>4 DEF Abstract!Next
<1>6. ASSUME NEW x \in inflight, NEW ok \in BOOLEAN, KernelCompletes(x, ok) PROVE Abstract!Next
  <2>1. UNCHANGED fut /\ inflight' = inflight \ {x}
    BY <1>6 DEF KernelCompletes, futureVars
  <2>2. x.req \in Reqs /\ Started(x.req)
    BY <1>0 DEF PlainQueues, PlainSqe
  <2>3. inflight' = {y \in inflight : y.req \notin {x.req}}
    BY <1>0, <2>1 DEF OnePlace
  <2> QED
    BY <1>5, <2>1, <2>2, <2>3
<1>7. ASSUME ReaderResolves \/ DrainRemoves
      PROVE  Abstract!Next \/ Abstract!vars' = Abstract!vars
  <2>1. PICK i \in Indices, e \in CqeType :
          /\ PlainCqe(e) /\ Outcome(e.req, e) /\ inflight' = inflight
          /\ \A x \in inflight : x.req # e.req
    BY <1>7, PlainConsumes
  <2>2. CASE fut' = fut
    BY <1>b, <2>1, <2>2
  <2>3. ASSUME NEW f \in {"result", "exception"}, fut[e.req] = "pending",
               fut' = [fut EXCEPT ![e.req] = f]
        PROVE  Abstract!Next
    <3>0. e.req \in Reqs
      BY <2>1 DEF PlainCqe
    <3>1. AbstractState' = [AbstractState EXCEPT ![e.req] = "resolved"]
      BY <1>0, <2>3, <3>0, AbstractChange DEF StateOf
    <3>2. AbstractFinished' = AbstractFinished /\ e.req \in AbstractFinished
      BY <1>0, <2>1, <2>3, <3>0 DEF AbstractFinished, Started
    <3>3. AbstractState[e.req] = "pending"
      BY <1>a, <2>3, <3>0 DEF StateOf
    <3>4. Abstract!Resolve(e.req)
      BY <3>0, <3>1, <3>2, <3>3, AbstractMeaning
    <3> QED
      BY <3>0, <3>4 DEF Abstract!Next
  <2> QED
    BY <2>1, <2>2, <2>3 DEF Outcome
<1>8. CASE DestroyRegistry
  BY <1>8, <1>b DEF DestroyRegistry, kernelVars
<1>9. CASE DestroyRing
  <2>1. UNCHANGED fut /\ (inflight' = {} \/ inflight' = inflight)
    BY <1>9 DEF DestroyRing, futureVars
  <2>2. CASE inflight' = inflight
    BY <1>b, <2>1, <2>2
  <2>3. CASE inflight' = {} /\ inflight # {}
    <3> DEFINE S == {x.req : x \in inflight}
    <3>1. /\ S \in SUBSET Reqs /\ S # {}
          /\ \A r \in S : Started(r) /\ \E x \in inflight : x.req = r
      BY <1>0, <2>3 DEF PlainQueues, PlainSqe
    <3>2. inflight' = {x \in inflight : x.req \notin S}
      BY <2>3
    <3> QED
      BY <1>5, <2>1, <3>1, <3>2
  <2> QED
    BY <2>1, <2>2, <2>3
<1> QED
  BY <1>0, <1>1, <1>2, <1>3, <1>4, <1>6, <1>7, <1>8, <1>9, PlainSteps

\* The plain requests implement module Completion: a future is resolved at most
\* once, only after the kernel is finished with the request and its buffers, and
\* a cancellation is final, through slots, queues, the reader and the shutdown.
THEOREM PlainRequestsImplementCompletion == OnlyPlain /\ Spec => ImplementsCompletion
<1> SUFFICES ASSUME OnlyPlain PROVE Spec => ImplementsCompletion
  OBVIOUS
<1>1. Init => Abstract!Init
  <2> SUFFICES ASSUME Init PROVE Abstract!Init
    OBVIOUS
  <2>1. AbstractState = [r \in Reqs |-> "unused"]
    BY DEF Init, AbstractState, StateOf
  <2>2. AbstractFinished = {}
    BY DEF Init, AbstractFinished, Started
  <2> QED
    BY <2>1, <2>2, AbstractMeaning
<1>2. SlotInv /\ PlainInv /\ [Next]_vars => [Abstract!Next]_(Abstract!vars)
  BY RefinementStep
<1>3. Spec => []PlainInv
  BY PlainInvariant
<1> QED
  BY <1>1, <1>2, <1>3, SlotInvariant, PTL DEF Spec, ImplementsCompletion, Abstract!Spec
=============================================================================
