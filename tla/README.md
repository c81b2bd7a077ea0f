# A TLA+ model of uringio

uringio is a C extension for CPython: an asyncio event loop on io_uring, with
files, sockets and timers whose methods return futures. This directory holds a
model of it in TLA+, configurations that check the model with TLC on small
instances, and theorems that TLAPS proves for every instance. Paths in this
document are relative to the repository; its C code is under `src/src`.

## 1. Inventory

### The parts of the system

| Part | Source | State | Operations |
|---|---|---|---|
| Registry | `registry/` | an array of slots, a stack of free indices | new, add, get, remove, destroy |
| Ring | `ring/`, `macroses.h` | the submission and the completion queue | get an SQE, submit, cancel all and exit |
| Operations, C layer | `ops/` | none | prepare one SQE (and a linked timeout), submit |
| Operations, Python layer | `python_api/ops/` | `closed` of a file or socket | 12 file and 13 socket handlers, 8 dispatchers |
| Timer | `timer/`, `python_api/timer/` | none | timer, linked timeout |
| Reader | `python_api/reader/` | none | treat each CQE: look up the slot, resolve the future, free |
| Loop | `python_api/loop/` | `_ready`, `_scheduled`, `_stopping`, the eventfd | run_once, _write_to_self, close |
| Buffers | `python_api/buffers/` | payloads and who owns them | create, get or create, free |
| Execution context | `python_api/execution_context/` | a ContextVar | enter and exit four context managers |
| Buffer controllers | `buffer_controllers/` | a stack of fixed buffer indices | create, get, release; register with the kernel |
| Signals | `python_api/signals/` | a pipe | poll it |
| Definitions | `uringio_init.c`, `enums.c` | none | none |

### How they interact

A handler (say `UringioFile_read`) checks the loop and the file, takes a payload
of its own or that of the execution context, creates a future and takes a slot
with `registry_add`. A dispatcher selects a C-layer function from the mode of the
payload and the context. That function takes an SQE, and a second one for a
timeout, stores the index of the slot as `user_data` and submits. If it fails the
handler removes the slot and raises; otherwise it returns the future.

`run_once` computes how long to wait, waits for a CQE, lets the reader treat every
CQE, moves the timers that are due to `_ready` and runs the handles there. The
reader finds the slot from `user_data`, resolves its future, frees its payload
and removes the slot. `close` drains the completion queue until nothing arrives
for 100 ms, destroys the registry and then the ring.

The loop has one thread, and a handler or the treatment of one CQE runs without
interruption. What makes the program hard is what runs beside it: the kernel,
which completes requests in any order and some of them with several CQEs; tasks
that are cancelled while their request is in the kernel; other threads that use
`call_soon_threadsafe`; tasks that enter and leave execution contexts across
awaits; Python errors that a C function leaves behind for its caller; and the
closing of the loop in the middle of all this.

### What must hold

- Registry: an index is handed out to one request at a time and never lost; the
  `abort()` in `registry_remove` is never reached.
- A request: a future is resolved once, by its own CQE, and not before the kernel
  has finished with the buffers; no future that somebody awaits is lost; payloads
  are freed exactly once; a call that raises leaves nothing behind.
- Loop: it does not sleep past a timer or while handles are ready, it runs
  everything that is ready once, loses no handle, and it wakes up when another
  thread asks for it.
- Execution context: a task sees the context of the blocks it is in, and what a
  block registers with the kernel is unregistered when it is left.
- Fixed buffers: an index is in use by one read at a time and comes back.
- Buffers: a constructor that fails leaves nothing behind, and a payload gives
  back all it has acquired, once.

The hazards, each at its line and with the properties that watch it, are listed
in `PROJECT.json`.

## 2. The modules

| Module | What it is |
|---|---|
| `Registry` | the functions of `registry.c` as operators on a registry record |
| `SlotPool` | abstract: a pool of indices, each held by at most one future |
| `RegistryClient` | the registry and its callers, who may remove an index twice |
| `Ops` | the operations as data: handlers, dispatchers, C-layer functions |
| `RequestLifecycle` | the life of a request: handlers, queues, kernel, reader, shutdown |
| `Completion` | abstract: what becomes of a request, without slots and queues |
| `RequestProperties` | the properties of `RequestLifecycle` |
| `EventLoop` | `run_once`, timers, ready handles, another thread, the eventfd |
| `Contexts` | the ContextVar and the four context managers, in several tasks; what is registered with the kernel |
| `BufferIndex` | the functions of `buffer_index.c` as operators on a record |
| `FixedBuffers` | the index stack of one FIXED context, its requests and the reader |
| `PayloadMemory` | the constructors of a payload, step by step and failing, and `free_buffer_payload` |
| `MCRegistryClient`, `MCRequests`, `MCContexts`, `MCFixedBuffers` | symmetry, sets of operations and managers for TLC |
| `RegistryTheorems` | proved facts about the operators of `Registry` |
| `RegistryProofs` | the theorems about `RegistryClient` |
| `RequestProofs` | the theorems about `RequestLifecycle`, for any set of calls |
| `PlainRequestProofs` | those for calls with one CQE each, and the refinement of `Completion` |
| `EventLoopProofs`, `ContextsProofs`, `FixedBuffersProofs`, `PayloadProofs` | the theorems about the module of that name (`PayloadMemory` for the last) |

**Registry.** A registry is a record of `slots`, `available_indices` and `top`, as in
`registry.h`. Of a slot the model keeps what the program decides on: future,
opcode, payload, file or socket, stream strategy. `registry_remove` leaves the
stream strategy as it was, and so does `ClearSlot`. A size of 0 means the default.

**Ops.** Every operation takes the same course, so what distinguishes them is a
record: its target, opcode, payload, whether the handler asks for `closed` or sets
it, and a template of its SQE: how many CQEs it yields and whether the kernel uses
the buffers. The dispatchers are functions of the execution context and the
payload; evaluating them over all contexts shows which C-layer functions a handler
can reach. Not reachable are `uringio_recvmsg_multishot`,
`uringio_recvmsg_buffer_select` and `uringio_send_zc_fixed` (those handlers always
bring a payload of mode NORMAL_BUF), and `uringio_sendmsg_zc`, since
`get_buffer_idx` before it dereferences a NULL pointer.

**RequestLifecycle.** The handlers are the actions `Call...`, one for each way a call
can end: the registry is full, no SQE, no second SQE for a required timeout, a
socket domain that is refused after the SQE was taken, a submission that fails, a
NULL pointer, success. The submission queue keeps its entries after they are
submitted, because `io_uring_get_sqe` does not clear opcode and `user_data`, and
the program relies on what it finds there in two places. The kernel is three
actions: a last CQE, one of many, and the first CQE of a zero copy send. One
treatment of a CQE by `on_uring_ready`, with everything it calls, is one action
(`ReaderIgnores`, `ReaderCrashes`, `ReaderResolves`). `graceful_shutdown` is
`Close`, one `Drain...` for each CQE, `DestroyRegistry` and `DestroyRing`; CQEs
can arrive between any two of them. When `set_result` meets a future that was
cancelled it raises, and nobody clears the error: `pyerr` is TRUE until `run_once`
returns (`RunOnceRaises`) or the reader prints it, and as long as it is set no
exception object can be made (`FailFuture`). `UringioLoop_close` closes the
`BaseEventLoop` before the drain, so that `set_exception` of a future that somebody
awaits sets its state and then raises from `call_soon`; the drain loop never clears that
error, and skips the futures of all CQEs that follow. Which futures are awaited is free
(`DrainRemoves`); `unheard` records those whose callbacks could not be scheduled. `ProvideBuffers` is the SQE of a
PROVIDED context that is entered or left, whose `user_data` is stale. SQEs and CQEs
carry history fields (`req`, `part`) that no action reads; the properties compare them
with the slots.

A step between two CQEs of one batch belongs to nobody else in the code, because
callbacks of futures run after the reader has returned; in the model a call there
is the same as the call before the second CQE was posted.

**EventLoop.** `pc` follows the thread of the loop through `run_once`: the wait, the
batch of CQEs, the timers, the handles. The GIL is held during the wait, so another
thread acts only where the loop runs Python code; that includes the call of
`self.time()` in the middle of `compute_timeout`. Time is in ticks, `Second` of them
to a second: `tv_nsec` is always 0 in the code, so the wait is a number of whole
seconds. The handles decide freely what they do when they run: schedule another,
start a request, cancel a handle or a request, stop, write to the eventfd, or raise
`KeyboardInterrupt`. An error that is left behind makes `promote_scheduled` give up
(`PromoteFails`) and costs `drain_ready` a handle (`DrainLoses`). What `set_result`
manages to do while an error is set depends on the interpreter's build; the model
allows every outcome (`ReadCqe`).

**Contexts.** Every task has its own value of the ContextVar; a task starts with a copy
of its creator's (`Spawn`), or without a value when it is created with an empty
`contextvars.Context` (`SpawnEmpty`). `None` stands for both, no value and Py_None: the
functions that read the variable follow a NULL pointer either way. `blocks` are the `with` blocks it is in. `Enter...` has one action
for each mode and each way to fail, `Exit...` one for each kind of manager and for a
reset that fails. Of a payload the model keeps what these functions change (vector,
index stack, ring), of the kernel who owns the table of fixed buffers and the ring of
group 0. `misused` records that a manager was entered again while it was active or
spent, or that another loop of the thread was closed.

**FixedBuffers** is one block of mode FIXED from inside: `read` takes an index, the
reader gives back the `buf_idx` the payload remembers. `Hits` are the indices whose
registered buffer holds the address that is used: every request of a FIXED context
uses `linear[0].buffer`, so for buffers made at run time this is index 0 alone, and the
kernel refuses the others with `EFAULT`. The run takes all of them, as when
a user passes the same buffer several times, so that every read may succeed or fail. `disturbed` and `received` record what breaks the count.

**PayloadMemory** lists for each constructor what it acquires in order (`Acquires`), what
it gives back when one of them fails (`GivesBack`), the fields it sets (`Built`) and
what `free_buffer_payload` frees by those fields. `undefined` marks the use of a field
that was not set, the division by the length of an empty sequence, and what follows for
a buffers object that is no sequence: `_get_buffer_metadata` leaves the error set and gives
the amount 0, the construction goes on, and the views are written into an array of no
elements (`NoBuffers`).

External are the queues of liburing, the kernel, `asyncio` (futures, handles,
`call_soon` and its relatives), the GIL and the clock; they are modelled as the
code uses them.

## 3. The runs

| Run | Question | Result | States |
|---|---|---|---|
| `registry` | Do add and remove keep stack and slots consistent, for callers that remove what they hold? Is it a pool of indices? Does the `abort()` keep the stack inside its array when they remove twice? | holds | 33 thousand |
| `plain` | Operations with one CQE: right future, right time, buffers alive, no crash, one close of a socket, refinement of `Completion`; how many others does the reader skip for a cancelled one? | holds | 141 thousand |
| `faults` | Several CQEs, linked timeouts, full queue, failing submission, cancellation, shutdown: is anything lost, leaked, freed twice, resolved twice; why may the kernel work on freed buffers; is every CQE delivered? | holds | 993 thousand |
| `operations` | All 25 handlers and the timer in all 16 contexts, with the SQEs of PROVIDED contexts: types, lost futures, double frees | holds | 1.0 million |
| `loop` | Waiting, timers, cancellation, errors left behind; is a handle lost or run twice; progress | holds | 610 thousand |
| `contexts` | Two tasks, seven managers, nested blocks: is the context the innermost, do registrations belong to whom they should, what does undefined behaviour take? | holds | 1.1 million |
| `fixed_buffers` | When are the indices conserved, when only lost, is the freed array left alone? | holds | 60 thousand |
| `payloads` | What does a failing constructor leave behind, what does freeing give back? | holds | 505 |
| `link_timeout` | Does every future get its own result when timeouts are used? | violated | |
| `zero_copy` | Are the buffers of a zero copy send alive while the kernel reads them? | violated | |
| `cancellation` | Does every CQE resolve its future when another request was cancelled? | violated | |
| `wakeup` | Does `_write_to_self` wake the loop? | violated | |

The violated ones contradict a sentence of the documentation; `PROJECT.json`
quotes it under "findings". In short:

- `timeout()` does not set the `user_data` of the timeout's SQE. Its CQE carries
  the index that an earlier request left there and reaches whoever owns the slot
  now: a read is resolved with `ECANCELED` or `ETIME` of a stranger.
- The first CQE of a zero copy send frees the buffer; the notification comes later.
- The CQE of a cancelled request leaves an `InvalidStateError` behind. If the next CQE
  of the batch carries an error, `PyObject_CallFunction` cannot return its exception
  object; the reader prints the first error, removes the slot, and the future is
  never resolved. `CancellationSkipsOne` says that this happens to one future at
  most for each cancelled one, and `NoLostFuture` that it is the only way to lose one
  while the loop runs. Both count the futures the reader skips. A CQE with a result that
  is met while the error is set may resolve its future and still not wake the task that
  awaits it; that is in `EventLoop` (`ReadCqe`), where `HandlesRun` names it.
- The CQE of the eventfd's read has no slot and is skipped, so the branch that
  would submit the read again is not reached. The loop wakes up once.

More behaviours are in the models, described by properties that hold:

- The kernel works on a freed buffer (`DanglingBuffersExplained`) after a zero copy
  send's first CQE; after a failed submission, because slot and payload go and the SQE
  stays in the queue for the next submission; and after a slot was removed by a
  stranger's CQE. Beyond the property, `graceful_shutdown` destroys the registry, and
  frees all payloads, before the ring.
- `registry_remove` of a free index aborts only when the stack is full, otherwise the
  index is in the stack twice (the test `double_remove_aborts` uses one slot).
- `UringioFile_close` does not set `closed` before its CQE arrives, so that two calls
  without an await close the descriptor twice (sockets do set it).
- The slot of a `sendto` does not refer to its payload, which nobody frees.
- A handle can get lost after an error (`HandlesAccounted`): in `drain_ready` or the
  reader, after a cancelled request or an interrupted handle, and in no other case. Where
  `drain_ready` loses one the loop raises. Where the reader skips the callback of a CQE
  that follows that of a cancelled request it clears the error and the loop goes on as if
  nothing had happened: this is the one exception in `HandlesRun`.
- In the drain of `graceful_shutdown` the first awaited future that is resolved leaves
  "Event loop is closed" set, and the futures of the CQEs after it stay pending
  for ever, although their CQEs were there and no request was cancelled.
  `CompletionsAreDelivered` says that a future is skipped only after such an error of
  another future, or of a cancelled one.
- Fixed buffers: overlapping reads, and reads that fail or are refused, lose indices,
  since the payload remembers one index only and an error releases none; `recv` and
  `recvfrom` release an index they never took, `-1` included. `ConservedUntilDisturbed`
  says that nothing else disturbs the stack and `FilesOnlyLose` that without receives
  it never hands out too many. A stack that is destroyed stays empty
  (`LateCallsHarmless`).
- `ExecutionContextCtx_exit` unregisters nothing, and an `__enter__` without memory for
  the index stack leaves the table registered; every later FIXED block is refused.
  `TableOwned` says that these are the only leaks.
- A FIXED manager that is entered again follows the vector it gave up, an
  `ExecutionContextCtx` a context that is freed, also when its first `__enter__` raised;
  with two loops in a thread, closing one sets the ContextVar of both to None. These
  count as misuse. A task that is created with an empty `contextvars.Context` follows a
  NULL pointer without any: in its first request or its first block, unless that is an
  `ExecutionContextCtx`. `NoUndefined` says that it takes one of these, and that a
  `BufferModeCtx` whose `__enter__` raised can be used again.
- A BUF_RING block inside another gets no ring and uses the outer one's;
  `RingMatches` says that leaving it does not free that.
- `create_buffer_payload` leaks the payload when its buffers cannot be made, NORMAL_BUF
  falls through into FIXED and loses what it had made, and a FIXED payload with
  buffers made at run time would be freed twice per buffer. `serialize_buffers` and
  `make_buffers` clean up with fields that are not set, and `get_or_create_linear_buffer`
  goes on after a failure. `FailureLeaks` and `FreedOnce` say that the constructors of
  the operations are free of this, but for the view of `readv_raw` and `writev_raw`.

### Bounds

Slots: 1 to 4, enough for a free, a used and a reused one; the proofs cover any
number. Requests: 2, and 3 where a slot must change its owner twice or one CQE after
another meets the error a cancellation left behind (`plain`, `link_timeout`). `loop` has two callbacks of requests, so that a CQE follows that
of a cancelled request and `ReadCqe` meets its error. Entries of the submission queue: 2 or 3 instead of 256, so that
the queue is full, wraps around, and entries are used again. `CqBound` 2 or 3
limits only the CQEs a multishot SQE piles up. `MaxTime` 3 or 4 ticks with two
ticks to a second, delays of half and one and a half seconds and a longest wait of
one second: waits are rounded down, capped, and timers come due in any order.
One file and one socket are enough, since operations on different targets share
only the registry and the queues. `MaxBlocks` 3 lets two tasks nest a block in a block
and leave them in either order; after one misuse no further block is entered.
Four requests and three indices in `fixed_buffers` make the stack run empty and full.
`MaxItems` 4 puts the failing item first, last and in between. Requests and futures are interchangeable and
are a symmetry set in the runs without liveness properties.

### Fairness

`RequestLifecycle!FairSpec`: the reader and the drain loop treat the CQEs that are
there. Every iteration of `run_once` empties the completion queue, and an iteration
ends by itself. Nothing is assumed of the kernel, the callers or the shutdown.
`EventLoop!FairSpec`: the thread of the loop runs, time passes, and the kernel
completes a read of an eventfd that can be read. It need not complete any request.
Fair steps of the loop alone are enough for the ready handles in `HandlesRun`, since
`drain_ready` counts the handles before it runs the first one. `HandlesRun` excepts
handles that are cancelled, a loop that stops or raises, and the callback that the
reader skips after the CQE of a cancelled request. That the program runs
the loop again after an error is not assumed. The bound on the clock does not
help: after it a wait without a CQE never ends, which makes progress harder.

## 4. The proofs

Every invariant, action property and refinement that a passing run checks is also a
theorem, for every value of the constants; `PROJECT.json` lists which states which.
The runs show it on an instance and keep the mutants honest, the proofs cover any
number of requests, slots, handles, tasks, managers and buffers.

**Registry** (`RegistryTheorems`, `RegistryProofs`). The lemmas say what the functions of
`registry.c` do to the type and to `WellFormed`: the stack holds no index twice, and
exactly the indices of the slots without a future. `NoAbort` alone is not inductive:
that `top` is below its limit when a slot is removed follows only from the exactness of
the stack, by counting. A full stack without repetition is an injection of the finite
set of indices into itself, hence onto, and then the index that is being removed would
be free (`InUseLeavesRoom`). So the inductive invariant is `IInv`: types, exactness,
agreement of the slots with the callers, and no abort, all up to the first misuse
(`RegistrySafe`, `RegistryNeverAborts`). `StackBounded` has an invariant of its own,
`BoundInv`, that holds after it as well. `RegistryImplementsPool` maps each step to a
step of `SlotPool` or a stutter.

**Requests** (`RequestProofs`), for any set of calls. `StepCases` sorts the steps by what
they do to slots, futures and payloads (nothing, take a slot, refuse a call, treat a
CQE, ...), and each invariant is proved by these cases. The base is `SlotInv`: the
registry is exact; the future of a slot is pending or cancelled and in no other slot;
the payload of a slot is that of its request or the context's, and allocated; and
nothing was freed or resolved twice. On top of it:

- `CostInv` counts an error that is pending as an allowance: skipped futures, and one
  more while `pyerr` is set, are never more than the cancelled ones
  (`CancellationIsBounded`). It is stated for the running loop: the drain loop does not
  clear the error and may skip any number.
- `LostInv` says of each pending future that a slot waits for it and an SQE or a CQE with
  the slot's index and the request's name is on its way, unless it was skipped
  (`NoFutureIsLost`). It needs the exactness of the registry: a slot that is taken is not
  one that is still waited for.
- `KernelInv` follows the SQEs in the kernel: what is left in the submission queue is of
  calls that have failed, a request that was not made yet is nowhere, and a request that
  was not refused has one SQE, with its own buffer or the context's, no CQE of which is
  queued or delivered unless there are several. So the slot of an SQE that still uses
  the buffer can have been removed only by a CQE that was not its own
  (`DanglingBuffersAreExplained`).
- `NothingLeaks` and `RefusedCallsLeaveNoTrace` leave out what breaks them in the code:
  `AllSlotted` excludes `sendto`, whose slot has no payload, and `AllCheckClosed` the
  `__aexit__` handlers, which set `closed` and do not look at it first.

**Plain requests** (`PlainRequestProofs`), under `OnlyPlain`: every call has one SQE with one
CQE and no timeout, submissions succeed and no PROVIDED context adds SQEs. The run
`plain` satisfies it. `PlainInv` says that a request has one SQE in the kernel or one CQE
in the queue or neither, that either carries the index of the request's own slot, and
that the buffer is allocated. From it follow `CompletionsReachTheirFuture`,
`BuffersOutliveTheirRequests` and the refinement `PlainRequestsImplementCompletion`.
`ProcessSurvives` also needs `NoFatalCall`: no `__aexit__`, which may run after the loop
was closed, and no `readv` into the buffers of a context and no MULTISHOT `recvmsg`,
whose completion dereferences NULL in the switch of the reader. `DescriptorsClosedOnce`
needs `ClosesMark`: whoever closes tests and sets `closed`; `UringioFile_close` does not
set it. The run `plain` satisfies both. The runs `link_timeout` and `zero_copy` show
that results and buffers do go astray without `OnlyPlain`.

**EventLoop** (`EventLoopProofs`). `PlaceInv`: every handle that was issued is in the right
places (`_ready`, `_scheduled`, in the kernel, in the completion queue, run, cancelled,
lost), in `_ready` once, and a callback that is still to be resolved is not ready yet.
It is what `RunsOnce` and `HandlesAccounted` need to be inductive. `TimingInv`: what
`compute_timeout` has read stays true across the call of `self.time()`, where other
threads act: they add handles of their own only. `NoOversleep` then follows since the
wait is rounded down (`WaitIsShort`). The steps that put a set of due timers in some
order use that a sequence as long as a finite set, with all its members, has no
repetition.

**Contexts** (`ContextsProofs`). `ContextIsInnermost` is stated block by block: the token of
the first block holds the inherited context, and the one of each further block (for the
last, the variable) holds what the block before it made of its own. This says more than
that the variable is right, needs no recursion, and is inductive together with
`BlockInv`: a manager that is not misused is in one block, and owns its token; a FIXED
manager is never in two. `FixedInv` relates the vector, the index stack and the table of
a FIXED payload, also after misuse; `RingInv` a payload's ring and group 0. For
`UndefinedTakesMisuse`, `VarInv` says that only an `ExecutionContextCtx` was entered without
a current context; with `ContextIsInnermost` a variable without a context is then that of
a task that inherited none and is in no block.

**FixedBuffers** (`FixedBuffersProofs`). `LoseInv` counts: entries of the stack and accepted
reads together are at most the number of buffers. `ConservedInv` adds that reads which
follow one another are at most one at a time and that its index is the `buf_idx` the
payload remembers. `LateCallsAreHarmless` is an action property: on a destroyed stack
`get_buffer_idx` finds nothing and `release_buffer_idx` no room.

**PayloadMemory** (`PayloadProofs`), for any number of buffers. While a constructor runs,
`todo` lists what it has still to acquire, each once and in the order of `Acquires`
(`RunningInv`); so what it holds when a step fails is a prefix, and `GivesBack` covers it.
`NoFallThrough` says that a payload for no buffers does not get past the first array of
NORMAL_BUF. `BuiltInv`: a payload that was built has the fields its constructor sets, and
holds no more than they name.

Assumptions on the constants, each checked by TLC in the runs: sizes are natural
numbers and defaults positive; NULL and None are no request, record or manager
(`ReqsAssumption`, `NullIsNoRecord`, `NullAssumption`); only a file or a socket is closed, a
WRITE has a payload of its own, and an SQE with many CQEs uses the buffers of the
context, if any (`Consistent`, which all handlers of `Ops` satisfy); a handle is scheduled
in one way and the loop starts with one (`HandlesAssumption`). `Reqs` and the sets of tasks, managers and handles may be
infinite.

Only model-checked: liveness under fairness (`CompletionsAreDelivered`, `HandlesRun`),
which is out of the prover's reach, and the four runs that end in a violation.

## 5. What is not modelled, and the plan

Left out for good: argument parsing, the contents and sizes of payloads and
addresses, exhausted memory outside `PayloadMemory` and `Contexts`, reference counts
and garbage collection, wording of errors, `uringio_init.c`, enums, and the dead code
of `ops/sockets/fixed.c`. The timespec of a timeout is a local variable that is gone
when the SQE is submitted; the model lets a timeout end at any time, which covers what
the kernel may read there. Not in `Contexts`: a loop that is closed inside a block, two
PROVIDED payloads that draw the same group, and the loss of the fixed table when the
ring is destroyed. Not in `PayloadMemory`: the NORMAL_BUF payloads of a context of the
types IOVEC and LINEAR_AND_IOVEC, which fall through into FIXED like those of type LINEAR
and lose what they had made in the same way. `NoCrash` is checked and proved for plain
calls: after a failed submission, or with linked timeouts and multishot operations, the model
does reach the `abort()` in the drain, by a CQE whose slot is free. An overflow of the completion queue is left to the kernel, which
keeps the CQEs.

What the signal poll does has no consequence to model: its `user_data` is a pointer,
the reader finds no slot for it, and the branch for signals is not reached.

Next, in this order:

1. The refinement of `Completion` for calls with timeouts and several CQEs, with the
   misdelivery as a step of an abstract specification of its own.
2. What the steps may never do, as theorems: a slot changes its owner only through
   `registry_remove`, a handle that has run is never issued again.
3. What `Acquires` and `free_buffer_payload` have in common for any new constructor: the
   lemmas of `PayloadProofs` about lists in order, stated once for every order.
