-------------------------- MODULE RequestLifecycle --------------------------
(***************************************************************************)
(* The life of a request: a Python-layer handler takes a slot of the        *)
(* registry and submits an SQE, the kernel posts CQEs, the reader maps them *)
(* to slots, resolves the futures and frees slots and buffers; at the end   *)
(* the loop is closed.  The loop runs in one thread, so a handler, the      *)
(* treatment of one CQE by on_uring_ready and one round of the drain loop   *)
(* of graceful_shutdown are atomic; the kernel works concurrently, between  *)
(* any two of them.  The futures' callbacks run after on_uring_ready has    *)
(* returned; a call between two CQEs of one batch is a call before the      *)
(* second CQE was posted.                                                   *)
(*                                                                          *)
(* A request is identified with its future.  The fields req and part of an  *)
(* SQE or a CQE are history: they name the call that put the SQE in the     *)
(* queue, and whether it is its main SQE or its linked timeout.  The        *)
(* program sees only the user_data, ud.                                     *)
(***************************************************************************)
EXTENDS Registry, Ops, Sequences, FiniteSets

CONSTANTS
    Reqs,           \* the calls that can be made, one request each
    Calls,          \* the operations they may be (a set of Operations)
    CtxPayload,     \* the BufferPayload of the execution context
    SqEntries,      \* entries of the submission queue (256 in ring_init)
    CqBound,        \* bound on the CQEs a multishot SQE piles up
    SubmitMayFail,  \* TRUE when io_uring_submit may return an error
    ProvidedMode    \* TRUE when contexts of mode PROVIDED are entered and left

ASSUME ReqsAssumption == Null \notin Reqs /\ CtxPayload \notin Reqs /\ CtxPayload # Null
ASSUME TargetsAssumption == Null \notin {"file", "socket", "new"}
ASSUME CallsAssumption == Calls \subseteq Operations /\ \A c \in Calls : Consistent(c)
ASSUME SqAssumption == SqEntries \in Nat /\ SqEntries >= 2
ASSUME SubmitAssumption == SubmitMayFail \in BOOLEAN /\ ProvidedMode \in BOOLEAN

VARIABLES
    reg,         \* the RequestRegistry
    sq,          \* the submission queue: unsubmitted SQEs and all its entries
    inflight,    \* the SQEs the kernel works on
    cq,          \* the completion queue
    fut,         \* the state of the future of every request
    delivered,   \* history: the SQE whose CQE has resolved the future
    raised,      \* history: the futures that were done when a CQE came to resolve them
    unheard,     \* history: the futures whose callbacks the closed loop refused
    pyerr,       \* the error indicator of the interpreter is set
    dropped,     \* history: the futures skipped for want of an exception object
    mem,         \* the payloads that are allocated
    double_free, \* history: TRUE once a payload was freed twice
    closed,      \* the `closed' flag of the file and of the socket
    fd_closed,   \* history: the targets whose descriptor the kernel has closed
    phase        \* what the process is doing

vars == <<reg, sq, inflight, cq, fut, delivered, raised, unheard, pyerr, dropped,
          mem, double_free, closed, fd_closed, phase>>

kernelVars == <<sq, inflight, cq, fd_closed>>
outcomeVars == <<delivered, raised, unheard, pyerr, dropped>>
futureVars == <<fut, outcomeVars>>
memoryVars == <<mem, double_free>>

Targets == {"file", "socket"}
Payloads == Reqs \cup {CtxPayload}

-----------------------------------------------------------------------------
(***************************************************************************)
(* The submission queue of liburing.  io_uring_get_sqe hands out the entry  *)
(* at the tail and does not touch its opcode, address or user_data: what    *)
(* the program does not set there is what an earlier request has left.      *)
(***************************************************************************)
Sqe(shape, ud, buf, closes, req, part) ==
    [shape |-> shape, ud |-> ud, buf |-> buf, closes |-> closes,
     req |-> req, part |-> part]

SqeAvailable(n) == Cardinality(sq.queued) + n <= SqEntries

AtTail(q) == q.entries[q.tail]

Put(q, e) ==
    [queued |-> q.queued \cup {e},
     entries |-> [q.entries EXCEPT ![q.tail] = e],
     tail |-> (q.tail + 1) % SqEntries]

\* UringioLoop_init has used two entries: the poll for signals, whose user_data
\* is a pointer, and the read of the wakeup descriptor, whose user_data, cast to
\* int, is -1.  Both stay in the kernel and do not concern a slot.
InitialSq ==
    [queued |-> {},
     entries |-> [k \in 0 .. (SqEntries - 1) |->
         Sqe(IF k < 2 THEN "oneshot" ELSE "nop",
             CASE k = 0 -> Size [] k = 1 -> -1 [] OTHER -> 0,
             Null, Null, Null, "main")],
     tail |-> 2 % SqEntries]

Init ==
    /\ reg = registry_new
    /\ sq = InitialSq
    /\ inflight = {}
    /\ cq = << >>
    /\ fut = [r \in Reqs |-> "unused"]
    /\ delivered = [r \in Reqs |-> Null]
    /\ raised = {}
    /\ unheard = {}
    /\ pyerr = FALSE
    /\ dropped = {}
    /\ mem = {CtxPayload}
    /\ double_free = FALSE
    /\ closed = [t \in Targets |-> FALSE]
    /\ fd_closed = {}
    /\ phase = "running"

-----------------------------------------------------------------------------
(***************************************************************************)
(* The handlers.  A call c makes request r.                                 *)
(***************************************************************************)
PayloadOf(c, r) ==
    CASE c.payload = "own" -> r
      [] c.payload = "ctx" -> CtxPayload
      [] c.payload = "none" -> Null

SlotOf(c, r) ==
    [future |-> r, opcode |-> c.opcode,
     payload |-> IF c.slotted THEN PayloadOf(c, r) ELSE Null,
     target |-> IF c.target = "none" THEN Null ELSE c.target,
     stream |-> c.stream]

\* Mutant: io_uring_sqe_set_data is not called.
KeepsUserData(c, r, index) ==
    Sqe(c.sqe.shape, AtTail(sq).ud,
        IF c.sqe.buffers THEN PayloadOf(c, r) ELSE Null,
        IF c.closes THEN c.target ELSE Null, r, "main")

\* The SQE as the C-layer function prepares it, for slot index.
MainSqe(c, r, index) ==
    Sqe(c.sqe.shape, index,
        IF c.sqe.buffers THEN PayloadOf(c, r) ELSE Null,
        IF c.closes THEN c.target ELSE Null, r, "main")

\* An SQE that was taken from the queue and not prepared.
AbandonedSqe(r) == [AtTail(sq) EXCEPT !.req = r, !.part = "main"]

\* timeout(): the second SQE of the chain.  Its user_data is not set.
WithLinkedTimeout(q, r) ==
    Put(q, Sqe("link_timeout", AtTail(q).ud, Null, Null, r, "link"))

\* SQE_WITH_OPTIONAL_TIMEOUT: the SQE of the request and, when it has a timeout
\* and the queue has room, the linked timeout.
QueueSqes(c, r, main) ==
    IF c.timeout # "none" /\ SqeAvailable(2)
      THEN WithLinkedTimeout(Put(sq, main), r)
      ELSE Put(sq, main)

MayCall(c, r) ==
    /\ phase = "running" /\ ~pyerr
    /\ fut[r] = "unused"
    /\ c.checks_closed => ~closed[c.target]

\* Mutants: the result of the C layer is not checked; the slot is not removed.
ResultUnchecked(c, r) ==
    /\ reg' = registry_add(reg, SlotOf(c, r))
    /\ fut' = [fut EXCEPT ![r] = "pending"]
    /\ mem' = IF c.payload = "own" THEN mem \cup {r} ELSE mem
    /\ UNCHANGED <<closed, outcomeVars, double_free, phase>>

FailureKeepsSlot(c, r) ==
    /\ reg' = registry_add(reg, SlotOf(c, r))
    /\ fut' = [fut EXCEPT ![r] = "refused"]
    /\ UNCHANGED <<mem, closed, outcomeVars, double_free, phase>>

\* _check_file_result, _check_sockets_result and their copies in the handlers
\* without a target: the call raises, its slot is removed, its payload goes with
\* the slot, and a handler that has set `closed' resets it.
CallFails(c, r) ==
    LET index == NextIndex(reg) IN
    /\ reg' = registry_remove(registry_add(reg, SlotOf(c, r)), index)
    /\ fut' = [fut EXCEPT ![r] = "refused"]
    /\ mem' = IF c.payload = "own" /\ ~c.slotted THEN mem \cup {r} ELSE mem
    /\ closed' = IF c.marks_closed THEN [closed EXCEPT ![c.target] = FALSE] ELSE closed
    /\ UNCHANGED <<outcomeVars, double_free, phase>>

\* registry_add returns -1: the handler frees its payload and raises.
CallRefused(c, r) ==
    /\ MayCall(c, r)
    /\ RegistryFull(reg)
    /\ fut' = [fut EXCEPT ![r] = "refused"]
    /\ UNCHANGED <<reg, kernelVars, outcomeVars, memoryVars, closed, phase>>

\* The dispatcher dereferences a NULL pointer.
CallCrashes(c, r) ==
    /\ MayCall(c, r)
    /\ ~RegistryFull(reg)
    /\ c.sqe.shape = "crash"
    /\ phase' = "crashed"
    /\ UNCHANGED <<reg, kernelVars, futureVars, memoryVars, closed>>

\* create_sqe returns NULL.
CallNoSqe(c, r) ==
    /\ MayCall(c, r)
    /\ ~RegistryFull(reg)
    /\ c.sqe.shape # "crash"
    /\ ~SqeAvailable(1)
    /\ CallFails(c, r)
    /\ UNCHANGED kernelVars

\* timeout() finds no second SQE and the timeout is required: the first SQE has
\* been taken and stays in the queue as it is.
CallNoTimeoutSqe(c, r) ==
    /\ MayCall(c, r)
    /\ ~RegistryFull(reg)
    /\ c.timeout = "required"
    /\ c.sqe.shape # "crash"
    /\ SqeAvailable(1)
    /\ ~SqeAvailable(2)
    /\ sq' = Put(sq, AbandonedSqe(r))
    /\ CallFails(c, r)
    /\ UNCHANGED <<inflight, cq, fd_closed>>

\* The SQE of the request can be prepared: what is left may fail to be submitted.
SqesReady(c) ==
    /\ SqeAvailable(1)
    /\ c.timeout = "required" => SqeAvailable(2)

\* prep_socket returns -2, after it has taken the SQE.
CallBadDomain(c, r) ==
    /\ MayCall(c, r)
    /\ ~RegistryFull(reg)
    /\ c.bad_domain
    /\ SqesReady(c)
    /\ sq' = QueueSqes(c, r, AbandonedSqe(r))
    /\ CallFails(c, r)
    /\ UNCHANGED <<inflight, cq, fd_closed>>

\* io_uring_submit returns an error: the prepared SQEs stay in the queue.
CallSubmitFails(c, r) ==
    /\ SubmitMayFail
    /\ MayCall(c, r)
    /\ ~RegistryFull(reg)
    /\ ~c.bad_domain
    /\ c.sqe.shape # "crash"
    /\ SqesReady(c)
    /\ sq' = QueueSqes(c, r, MainSqe(c, r, NextIndex(reg)))
    /\ CallFails(c, r)
    /\ UNCHANGED <<inflight, cq, fd_closed>>

\* Mutant: the handler frees its payload once the SQE is submitted.
PayloadFreedOnSubmit(c, r) ==
    /\ MayCall(c, r)
    /\ ~RegistryFull(reg)
    /\ ~c.bad_domain
    /\ c.sqe.shape # "crash"
    /\ SqesReady(c)
    /\ LET q == QueueSqes(c, r, MainSqe(c, r, NextIndex(reg))) IN
       /\ sq' = [q EXCEPT !.queued = {}]
       /\ inflight' = inflight \cup q.queued
    /\ reg' = registry_add(reg, SlotOf(c, r))
    /\ fut' = [fut EXCEPT ![r] = "pending"]
    /\ closed' = IF c.marks_closed THEN [closed EXCEPT ![c.target] = TRUE] ELSE closed
    /\ UNCHANGED <<cq, fd_closed, outcomeVars, memoryVars, phase>>

\* io_uring_submit hands everything in the queue to the kernel, and the handler
\* returns the future.
CallSubmitted(c, r) ==
    /\ MayCall(c, r)
    /\ ~RegistryFull(reg)
    /\ ~c.bad_domain
    /\ c.sqe.shape # "crash"
    /\ SqesReady(c)
    /\ LET q == QueueSqes(c, r, MainSqe(c, r, NextIndex(reg))) IN
       /\ sq' = [q EXCEPT !.queued = {}]
       /\ inflight' = inflight \cup q.queued
    /\ reg' = registry_add(reg, SlotOf(c, r))
    /\ fut' = [fut EXCEPT ![r] = "pending"]
    /\ mem' = IF c.payload = "own" THEN mem \cup {r} ELSE mem
    /\ closed' = IF c.marks_closed THEN [closed EXCEPT ![c.target] = TRUE] ELSE closed
    /\ UNCHANGED <<cq, fd_closed, outcomeVars, double_free, phase>>

\* __aexit__ does not ask whether the loop is closed: the loop has no registry
\* any more, and registry_add dereferences a NULL pointer.
CallOnClosedLoop(c, r) ==
    /\ phase = "closed"
    /\ fut[r] = "unused"
    /\ c.target \in Targets /\ ~c.checks_closed
    /\ phase' = "crashed"
    /\ UNCHANGED <<reg, kernelVars, futureVars, memoryVars, closed>>

\* A task is cancelled while it awaits the future.  Nobody tells the kernel.
CancelFuture(r) ==
    /\ phase = "running" /\ ~pyerr
    /\ fut[r] = "pending"
    /\ fut' = [fut EXCEPT ![r] = "cancelled"]
    /\ UNCHANGED <<reg, kernelVars, outcomeVars, memoryVars, closed, phase>>

\* UringioLoop_run_once: io_uring_submit_and_wait_timeout submits what is left.
RunOnceSubmits ==
    /\ phase = "running" /\ ~pyerr
    /\ sq.queued # {}
    /\ inflight' = inflight \cup sq.queued
    /\ sq' = [sq EXCEPT !.queued = {}]
    /\ UNCHANGED <<reg, cq, fd_closed, futureVars, memoryVars, closed, phase>>

\* The reader has left the error indicator set: promote_scheduled and drain_ready
\* give up, run_once or the next call of it raises, and the indicator is cleared.
RunOnceRaises ==
    /\ phase = "running" /\ pyerr
    /\ pyerr' = FALSE
    /\ UNCHANGED <<reg, kernelVars, fut, delivered, raised, unheard, dropped, memoryVars,
                   closed, phase>>

\* A context of mode PROVIDED is entered or left: init_provided_mode and
\* close_provided_mode set no user_data, and the kernel completes their SQE while
\* it is submitted.  Bounds: the queue holds no other such SQE, and the user_data
\* it finds leads to a slot (the reader ignores the CQE otherwise).
ProvideBuffers(ok) ==
    /\ ProvidedMode
    /\ phase = "running" /\ ~pyerr
    /\ SqeAvailable(1)
    /\ AtTail(sq).ud \in Indices
    /\ \A k \in DOMAIN sq.entries : sq.entries[k].shape # "provide"
    /\ LET x == Sqe("provide", AtTail(sq).ud, Null, Null, Null, "main") IN
       /\ sq' = [Put(sq, x) EXCEPT !.queued = {}]
       /\ inflight' = inflight \cup sq.queued
       /\ cq' = Append(cq, [ud |-> x.ud, req |-> Null, part |-> "main",
                            ok |-> ok, more |-> FALSE])
    /\ UNCHANGED <<reg, fd_closed, futureVars, memoryVars, closed, phase>>

-----------------------------------------------------------------------------
(***************************************************************************)
(* The kernel.                                                              *)
(***************************************************************************)
KernelAlive == phase \notin {"aborted", "crashed"}

Post(x, ok, more) ==
    cq' = Append(cq, [ud |-> x.ud, req |-> x.req, part |-> x.part,
                      ok |-> ok, more |-> more])

\* The last CQE of an SQE.  A linked timeout ends with -ECANCELED or -ETIME.
KernelCompletes(x, ok) ==
    /\ KernelAlive
    /\ x.shape # "zerocopy"
    /\ x.shape = "link_timeout" => ~ok
    /\ Post(x, ok, FALSE)
    /\ inflight' = inflight \ {x}
    /\ fd_closed' = IF ok /\ x.closes # Null THEN fd_closed \cup {x.closes} ELSE fd_closed
    /\ UNCHANGED <<reg, sq, futureVars, memoryVars, closed, phase>>

\* One of the CQEs of a multishot SQE.
KernelPostsMore(x) ==
    /\ KernelAlive
    /\ x.shape = "multishot"
    /\ Len(cq) < CqBound
    /\ Post(x, TRUE, TRUE)
    /\ UNCHANGED <<reg, sq, inflight, fd_closed, futureVars, memoryVars, closed, phase>>

\* The CQE of a zero copy send; the buffer belongs to the kernel until the
\* notification.
KernelSendsZeroCopy(x, ok) ==
    /\ KernelAlive
    /\ x.shape = "zerocopy"
    /\ Post(x, ok, TRUE)
    /\ inflight' = (inflight \ {x}) \cup {[x EXCEPT !.shape = "notification"]}
    /\ UNCHANGED <<reg, sq, fd_closed, futureVars, memoryVars, closed, phase>>

-----------------------------------------------------------------------------
(***************************************************************************)
(* The reader, on_uring_ready.                                              *)
(***************************************************************************)

\* Mutants: nothing is freed without force; the payload of a context is freed too.
FreesOnlyForced(payload, force) ==
    IF payload = Null \/ ~force THEN {} ELSE {payload}

FreesContextToo(payload, force) ==
    IF payload = Null THEN {} ELSE {payload}

\* free_buffer_payload: the payload of a context is spared unless force.
FreedBy(payload, force) ==
    IF payload = Null \/ (payload = CtxPayload /\ ~force) THEN {} ELSE {payload}

\* Mutant: the result overwrites a cancellation.
ResolveCancelledToo(r, state, cqe, refused) ==
    /\ fut' = [fut EXCEPT ![r] = state]
    /\ delivered' = [delivered EXCEPT ![r] = [req |-> cqe.req, part |-> cqe.part]]
    /\ UNCHANGED <<raised, unheard, pyerr, dropped>>

\* future.set_result and future.set_exception: they raise InvalidStateError when
\* the future is done.  Otherwise they set its state and then hand its callbacks
\* to call_soon; refused is TRUE when that raises.  No caller looks at the result.
ResolveFuture(r, state, cqe, refused) ==
    /\ IF fut[r] = "pending"
         THEN /\ fut' = [fut EXCEPT ![r] = state]
              /\ delivered' = [delivered EXCEPT ![r] = [req |-> cqe.req, part |-> cqe.part]]
              /\ unheard' = IF refused THEN unheard \cup {r} ELSE unheard
              /\ pyerr' = (pyerr \/ refused)
              /\ UNCHANGED raised
         ELSE /\ raised' = raised \cup {r}
              /\ pyerr' = TRUE
              /\ UNCHANGED <<fut, delivered, unheard>>
    /\ UNCHANGED dropped

\* Mutant: the error indicator stays set after a future was skipped.
FailWithoutPrint(r, cqe, prints, refused) ==
    IF pyerr
      THEN /\ dropped' = dropped \cup {r}
           /\ UNCHANGED <<fut, delivered, raised, unheard, pyerr>>
      ELSE ResolveFuture(r, "exception", cqe, refused)

\* A future gets an exception.  While the error indicator is set the call that
\* creates the exception object fails, and the future is skipped; the reader
\* prints and clears the error, the drain loop does not.
FailFuture(r, cqe, prints, refused) ==
    IF pyerr
      THEN /\ dropped' = dropped \cup {r}
           /\ pyerr' = ~prints
           /\ UNCHANGED <<fut, delivered, raised, unheard>>
      ELSE ResolveFuture(r, "exception", cqe, refused)

\* The cases of the switch that free the payload set slot->buffer_payload to NULL.
FreeingOpcodes == {"READ", "READV", "WRITE", "WRITEV", "RECV", "RECVMSG", "SEND", "SENDMSG"}

SwitchFrees(slot, ok) ==
    IF ok /\ slot.opcode \in FreeingOpcodes
      THEN FreedBy(slot.payload, slot.opcode = "WRITE")
      ELSE {}

\* Mutant: slot->buffer_payload keeps the pointer that was freed.
PayloadKept(slot, ok) == slot.payload

PayloadAfterSwitch(slot, ok) ==
    IF ok /\ slot.opcode \in FreeingOpcodes THEN Null ELSE slot.payload

\* READV reads the vector of a context payload and a MULTISHOT RECVMSG the linear
\* part of a vectored payload: both are NULL.
SwitchCrashes(slot, ok) ==
    /\ ok
    /\ \/ slot.opcode = "READV" /\ slot.payload = CtxPayload
       \/ slot.opcode = "RECVMSG" /\ slot.stream = "MULTISHOT"

\* The CQE leads to a slot, and a request uses the slot.
HasFuture(cqe) ==
    LET slot == registry_get(reg, cqe.ud) IN slot # Null /\ slot.future # Null

\* A CQE without a slot in use: the wakeup read, the poll for signals, and every
\* CQE that comes after its slot has been removed.
ReaderIgnores ==
    /\ phase = "running"
    /\ cq # << >>
    /\ ~HasFuture(Head(cq))
    /\ cq' = Tail(cq)
    /\ UNCHANGED <<reg, sq, inflight, fd_closed, futureVars, memoryVars, closed, phase>>

ReaderCrashes ==
    /\ phase = "running"
    /\ cq # << >>
    /\ HasFuture(Head(cq))
    /\ SwitchCrashes(registry_get(reg, Head(cq).ud), Head(cq).ok)
    /\ phase' = "crashed"
    /\ UNCHANGED <<reg, kernelVars, futureVars, memoryVars, closed>>

ReaderResolves ==
    /\ phase = "running"
    /\ cq # << >>
    /\ HasFuture(Head(cq))
    /\ LET cqe == Head(cq)
           slot == registry_get(reg, cqe.ud)
           freed == SwitchFrees(slot, cqe.ok)
           removed == FreedBy(PayloadAfterSwitch(slot, cqe.ok), FALSE)
       IN  /\ ~SwitchCrashes(slot, cqe.ok)
           /\ IF cqe.ok THEN ResolveFuture(slot.future, "result", cqe, FALSE)
                        ELSE FailFuture(slot.future, cqe, TRUE, FALSE)
           /\ mem' = mem \ (freed \cup removed)
           /\ double_free' = (double_free \/ freed \cap removed # {}
                                          \/ ~((freed \cup removed) \subseteq mem))
           /\ closed' = IF slot.opcode = "CLOSE" /\ cqe.ok
                          THEN [closed EXCEPT ![slot.target] = TRUE] ELSE closed
           /\ IF RemoveAborts(reg, cqe.ud)
                THEN phase' = "aborted" /\ UNCHANGED reg
                ELSE reg' = registry_remove(reg, cqe.ud) /\ UNCHANGED phase
    /\ cq' = Tail(cq)
    /\ UNCHANGED <<sq, inflight, fd_closed>>

-----------------------------------------------------------------------------
(***************************************************************************)
(* UringioLoop_close closes BaseEventLoop, after which call_soon raises     *)
(* "Event loop is closed".  Then graceful_shutdown drains the completion    *)
(* queue until no CQE arrives within 100 ms, destroys the registry and the  *)
(* ring.                                                                    *)
(***************************************************************************)
Close ==
    /\ phase = "running" /\ ~pyerr
    /\ phase' = "draining"
    /\ UNCHANGED <<reg, kernelVars, futureVars, memoryVars, closed>>

DrainIgnores ==
    /\ phase = "draining"
    /\ cq # << >>
    /\ registry_get(reg, Head(cq).ud) = Null
    /\ cq' = Tail(cq)
    /\ UNCHANGED <<reg, sq, inflight, fd_closed, futureVars, memoryVars, closed, phase>>

\* A future with callbacks (awaited: a task awaits it) cannot schedule them any
\* more, and set_exception leaves the error of call_soon behind.  registry_remove
\* is called whether or not the slot is in use.
DrainRemoves ==
    /\ phase = "draining"
    /\ cq # << >>
    /\ registry_get(reg, Head(cq).ud) # Null
    /\ LET cqe == Head(cq)
           slot == registry_get(reg, cqe.ud)
           removed == FreedBy(slot.payload, FALSE)
       IN  /\ IF slot.future # Null
                THEN \E awaited \in BOOLEAN :
                         FailFuture(slot.future, cqe, FALSE, awaited)
                ELSE UNCHANGED futureVars
           /\ IF RemoveAborts(reg, cqe.ud)
                THEN /\ phase' = "aborted"
                     /\ UNCHANGED <<reg, memoryVars>>
                ELSE /\ reg' = registry_remove(reg, cqe.ud)
                     /\ mem' = mem \ removed
                     /\ double_free' = (double_free \/ ~(removed \subseteq mem))
                     /\ UNCHANGED phase
    /\ cq' = Tail(cq)
    /\ UNCHANGED <<sq, inflight, fd_closed, closed>>

\* registry_destroy frees every payload that is left, that of the context once
\* for each slot that refers to it.  ContextVar_set fails when the error indicator
\* is set, which clears it.
DestroyRegistry ==
    /\ phase = "draining"
    /\ cq = << >>
    /\ LET holders == {i \in Indices : reg.slots[i].payload # Null}
           freed == {reg.slots[i].payload : i \in holders}
       IN  /\ mem' = mem \ freed
           /\ double_free' = (double_free \/ ~(freed \subseteq mem)
                  \/ \E i, j \in holders : i # j /\ reg.slots[i].payload = reg.slots[j].payload)
    /\ pyerr' = FALSE
    /\ phase' = "destroyed"
    /\ UNCHANGED <<reg, kernelVars, fut, delivered, raised, unheard, dropped, closed>>

\* ring_destroy: cancels everything and leaves the ring; without an SQE, or when
\* the submission fails, it returns and the kernel keeps the requests.
DestroyRing ==
    /\ phase = "destroyed"
    /\ \/ SqeAvailable(1) /\ inflight' = {}
       \/ (SubmitMayFail \/ ~SqeAvailable(1)) /\ UNCHANGED inflight
    /\ phase' = "closed"
    /\ UNCHANGED <<reg, sq, cq, fd_closed, futureVars, memoryVars, closed>>

\* Nothing is left to do.
Terminated == phase \in {"closed", "aborted", "crashed"} /\ UNCHANGED vars

-----------------------------------------------------------------------------
Handler(c, r) ==
    \/ CallRefused(c, r)
    \/ CallCrashes(c, r)
    \/ CallNoSqe(c, r)
    \/ CallNoTimeoutSqe(c, r)
    \/ CallBadDomain(c, r)
    \/ CallSubmitFails(c, r)
    \/ CallSubmitted(c, r)
    \/ CallOnClosedLoop(c, r)

Kernel(x) ==
    \/ \E ok \in BOOLEAN : KernelCompletes(x, ok) \/ KernelSendsZeroCopy(x, ok)
    \/ KernelPostsMore(x)

Reader == ReaderIgnores \/ ReaderCrashes \/ ReaderResolves

Shutdown == Close \/ DrainIgnores \/ DrainRemoves \/ DestroyRegistry \/ DestroyRing

Next ==
    \/ \E r \in Reqs, c \in Calls : Handler(c, r)
    \/ \E r \in Reqs : CancelFuture(r)
    \/ RunOnceSubmits
    \/ RunOnceRaises
    \/ \E ok \in BOOLEAN : ProvideBuffers(ok)
    \/ \E x \in inflight : Kernel(x)
    \/ Reader
    \/ Shutdown
    \/ Terminated

Spec == Init /\ [][Next]_vars

(***************************************************************************)
(* Every iteration of the loop empties the completion queue, and so does    *)
(* the drain loop: the reader and the drain loop are fair.  Nothing forces  *)
(* the kernel to complete a request or the program to make or cancel one.   *)
(***************************************************************************)
FairSpec == Spec /\ WF_vars(Reader) /\ WF_vars(DrainIgnores \/ DrainRemoves)
=============================================================================
