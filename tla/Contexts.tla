------------------------------- MODULE Contexts -------------------------------
(***************************************************************************)
(* The execution context: the ContextVar of contextvar.c as every task sees *)
(* it, the four managers of execution_context.c, and what they register      *)
(* with the kernel through buffer_modes.c.  What happens to the indices of  *)
(* the buffers of a FIXED context is in FixedBuffers.                       *)
(*                                                                          *)
(* A manager is used in `with' statements: a block is entered and left by   *)
(* the same task, the innermost first, and is not left when entering it has *)
(* raised.  Blocks hold awaits, so the steps of tasks interleave freely.     *)
(* The context of a task is copied from the task that creates it, which may *)
(* leave the block the copy came from while the new task runs on, or it is  *)
(* an empty one that the creator has passed.                                *)
(***************************************************************************)
EXTENDS Integers, Sequences, SequencesExt, Functions

CONSTANTS
    Tasks,      \* the asyncio tasks
    Main,       \* the first of them, in which the loop was created
    Managers,   \* the context managers; each owns the BufferPayload it made
    Attr,       \* what they were created with, see AttrAssumption
    MaxBlocks,  \* bound on the blocks that are open
    Null,       \* the NULL pointer
    None        \* the ContextVar holds Py_None, or has no value

ASSUME MainAssumption == Main \in Tasks
ASSUME AttrAssumption ==
    Attr \in [Managers -> [kind : {"buffer", "stream", "transfer", "exec"},
                           mode : {"NORMAL", "FIXED", "PROVIDED", "BUF_RING"},
                           stream : {"ONESHOT", "MULTISHOT"},
                           transfer : {"NORMAL", "ZERO_COPY"}]]
ASSUME MaxBlocksAssumption == MaxBlocks \in Nat

\* An ExecutionContext.  Its buffer_mode is left out: the operations look at
\* the mode of the payload.
ExecutionContext == [payload : Managers \cup {Null},
                     stream : {"ONESHOT", "MULTISHOT"},
                     transfer : {"NORMAL", "ZERO_COPY"}]

\* The token of ContextVar.set: for reset, in the task that has called set.
Token == [task : Tasks, old : ExecutionContext \cup {None}]

ASSUME NullAssumption ==
    {Null, None} \cap (Managers \cup ExecutionContext \cup Token) = {} /\ Null # None

VARIABLES
    var,        \* the ContextVar in the Python context of each task
    base,       \* history: what it was when the task was created
    blocks,     \* the managers of the blocks each task is in, innermost last
    token,      \* the token field of each manager
    pay,        \* the fields of each manager's BufferPayload that change
    kernel,     \* the buffer table and the buffer ring registered with the kernel
    spent,      \* the ExecutionContextCtxs whose __enter__ was called
    misused,    \* history: a manager was entered again, or another loop closed
    undefined   \* the process has reached undefined behaviour

vars == <<var, base, blocks, token, pay, kernel, spent, misused, undefined>>

\* ContextVar_init: the context of the task that makes the loop.
DefaultContext == [payload |-> Null, stream |-> "ONESHOT", transfer |-> "NORMAL"]

Fixed(m) == Attr[m].mode = "FIXED"

SumBlocks == FoldFunction(LAMBDA b, n : Len(b) + n, 0, blocks)

Active(m) == \E t \in Tasks : \E k \in DOMAIN blocks[t] : blocks[t][k] = m

Init ==
    /\ var = [t \in Tasks |-> IF t = Main THEN DefaultContext ELSE Null]
    /\ base = var
    /\ blocks = [t \in Tasks |-> << >>]
    /\ token = [m \in Managers |-> Null]
    /\ pay = [m \in Managers |->
                 [vector |-> Fixed(m), idx_registry |-> "none", buf_ring |-> FALSE]]
    /\ kernel = [table |-> Null, ring |-> Null]
    /\ spent = {}
    /\ misused = FALSE
    /\ undefined = FALSE

\* asyncio: a task starts with a copy of the context of its creator.
Spawn(t, u) ==
    /\ ~undefined
    /\ var[t] # Null /\ var[u] = Null
    /\ var' = [var EXCEPT ![u] = var[t]]
    /\ base' = [base EXCEPT ![u] = var[t]]
    /\ UNCHANGED <<blocks, token, pay, kernel, spent, misused, undefined>>

\* create_task(context=contextvars.Context()): the ContextVar has no value.
SpawnEmpty(t, u) ==
    /\ ~undefined
    /\ var[t] # Null /\ var[u] = Null
    /\ var' = [var EXCEPT ![u] = None]
    /\ base' = [base EXCEPT ![u] = None]
    /\ UNCHANGED <<blocks, token, pay, kernel, spent, misused, undefined>>

-----------------------------------------------------------------------------
(***************************************************************************)
(* __enter__.  A BufferModeCtx, StreamStrategyCtx or TransferModeCtx clones *)
(* the current context and sets its own dimension; an ExecutionContextCtx   *)
(* brings a whole context.                                                  *)
(***************************************************************************)
Inside(m, ctx) ==
    CASE Attr[m].kind = "buffer" -> [ctx EXCEPT !.payload = m]
      [] Attr[m].kind = "stream" -> [ctx EXCEPT !.stream = Attr[m].stream]
      [] Attr[m].kind = "transfer" -> [ctx EXCEPT !.transfer = Attr[m].transfer]
      [] Attr[m].kind = "exec" ->
           [payload |-> m, stream |-> Attr[m].stream, transfer |-> Attr[m].transfer]

\* Without a current context only an ExecutionContextCtx can be entered: the others
\* raise before they do anything.  Bounds: MaxBlocks, and one misuse, whose
\* consequences are followed without entering further blocks.
MayEnter(t, m) ==
    /\ ~undefined /\ ~misused
    /\ var[t] # Null
    /\ var[t] = None => Attr[m].kind = "exec"
    /\ SumBlocks < MaxBlocks

\* An ExecutionContextCtx wraps its ExecutionContext in a capsule, which frees it
\* once the ContextVar is reset: also when __enter__ raises.
Spent(m) == m \in spent

Spend(m) == spent' = IF Attr[m].kind = "exec" THEN spent \cup {m} ELSE spent

Entered(t, m) ==
    /\ var' = [var EXCEPT ![t] = Inside(m, var[t])]
    /\ token' = [token EXCEPT ![m] = [task |-> t, old |-> var[t]]]
    /\ blocks' = [blocks EXCEPT ![t] = Append(@, m)]
    /\ Spend(m)
    /\ misused' = (misused \/ Active(m))
    /\ UNCHANGED <<base, undefined>>

\* Mutants: the context is not reset; the vector is given up before it is used.
FailsKeepsContext(t, m) ==
    /\ var' = [var EXCEPT ![t] = Inside(m, var[t])]
    /\ Spend(m)
    /\ UNCHANGED <<pay, base, blocks, token, misused, undefined>>

FailsDropsVector(t, m) ==
    /\ pay' = [pay EXCEPT ![m].vector = FALSE]
    /\ Spend(m)
    /\ UNCHANGED <<var, base, blocks, token, misused, undefined>>

\* __enter__ raises after ContextVar_set: it has put the context back.
EnterRaises(t, m) ==
    /\ Spend(m)
    /\ UNCHANGED <<pay, var, base, blocks, token, misused, undefined>>

\* Nothing to register.
EnterNormal(t, m) ==
    /\ MayEnter(t, m) /\ ~Spent(m)
    /\ Attr[m].mode = "NORMAL"
    /\ Entered(t, m)
    /\ UNCHANGED <<pay, kernel>>

\* init_fixed_mode registers the buffers, and the payload gets its index stack
\* and gives up its vector.
EnterFixed(t, m) ==
    /\ MayEnter(t, m) /\ ~Spent(m)
    /\ Fixed(m) /\ pay[m].vector
    /\ kernel.table = Null
    /\ kernel' = [kernel EXCEPT !.table = m]
    /\ pay' = [pay EXCEPT ![m].idx_registry = "live",
                          ![m].vector = FALSE]
    /\ Entered(t, m)

\* io_uring_register_buffers fails: a table is registered already, or the kernel
\* has no memory for it.
EnterFixedRefused(t, m) ==
    /\ MayEnter(t, m) /\ ~Spent(m)
    /\ Fixed(m) /\ pay[m].vector
    /\ EnterRaises(t, m)
    /\ UNCHANGED kernel

\* The buffers are registered and there is no memory for the index stack.
EnterFixedNoMemory(t, m) ==
    /\ MayEnter(t, m) /\ ~Spent(m)
    /\ Fixed(m) /\ pay[m].vector
    /\ kernel.table = Null
    /\ kernel' = [kernel EXCEPT !.table = m]
    /\ EnterRaises(t, m)

\* The SQE that provides the buffers is submitted; its result is not awaited.
EnterProvided(t, m) ==
    /\ MayEnter(t, m) /\ ~Spent(m)
    /\ Attr[m].mode = "PROVIDED"
    /\ Entered(t, m)
    /\ UNCHANGED <<pay, kernel>>

EnterProvidedFails(t, m) ==
    /\ MayEnter(t, m) /\ ~Spent(m)
    /\ Attr[m].mode = "PROVIDED"
    /\ EnterRaises(t, m)
    /\ UNCHANGED kernel

\* io_uring_setup_buf_ring fails when group 0 has a ring, or for want of memory:
\* buf_ring is NULL then and the block is entered all the same.
EnterBufRing(t, m, ok) ==
    /\ MayEnter(t, m) /\ ~Spent(m)
    /\ Attr[m].mode = "BUF_RING"
    /\ ok => kernel.ring = Null
    /\ kernel' = IF ok THEN [kernel EXCEPT !.ring = m] ELSE kernel
    /\ pay' = [pay EXCEPT ![m].buf_ring = ok]
    /\ Entered(t, m)

\* Entering a FIXED manager again dereferences the vector it gave up; entering an
\* ExecutionContextCtx again wraps a context that its first capsule frees.
EnterAgain(t, m) ==
    /\ MayEnter(t, m)
    /\ Spent(m) \/ (Fixed(m) /\ ~pay[m].vector)
    /\ undefined' = TRUE
    /\ misused' = (misused \/ Spent(m) \/ pay[m].idx_registry # "none")
    /\ UNCHANGED <<var, base, blocks, token, pay, kernel, spent>>

-----------------------------------------------------------------------------
(***************************************************************************)
(* __exit__.                                                                *)
(***************************************************************************)
\* ContextVar.reset takes a token of the same Python context.
ResetWorks(t, m) == token[m] # Null /\ token[m].task = t

Leave(t) ==
    /\ ~undefined
    /\ blocks[t] # << >>
    /\ blocks' = [blocks EXCEPT ![t] = Front(@)]
    /\ token' = [token EXCEPT ![Last(blocks[t])] = Null]
    /\ UNCHANGED <<base, spent, misused, undefined>>

\* The token is missing or another task's: __exit__ raises and does nothing else.
ExitRaises(t) ==
    /\ Leave(t)
    /\ ~ResetWorks(t, Last(blocks[t]))
    /\ UNCHANGED <<var, pay, kernel>>

\* Mutants: the index stack or the table is left as it is; the ring of group 0 is
\* freed without a look at buf_ring.
CloseKeepsIndices(m) ==
    /\ kernel' = IF Fixed(m) THEN [kernel EXCEPT !.table = Null] ELSE kernel
    /\ UNCHANGED pay

CloseKeepsTable(m) ==
    /\ pay' = IF Fixed(m)
                THEN [pay EXCEPT ![m].idx_registry = "destroyed"]
                ELSE pay
    /\ UNCHANGED kernel

CloseFreesAnyRing(m) ==
    CASE Attr[m].mode = "FIXED" ->
           /\ kernel' = [kernel EXCEPT !.table = Null]
           /\ pay' = [pay EXCEPT ![m].idx_registry = "destroyed"]
      [] Attr[m].mode = "BUF_RING" ->
           /\ kernel' = [kernel EXCEPT !.ring = Null]
           /\ pay' = [pay EXCEPT ![m].buf_ring = FALSE]
      [] OTHER -> UNCHANGED <<pay, kernel>>

\* close_fixed_mode and buffer_idx_registry_destroy; close_provided_mode, whose
\* result is not looked at; close_buf_ring_mode, which does nothing without a ring.
CloseMode(m) ==
    CASE Attr[m].mode = "FIXED" ->
           /\ kernel' = [kernel EXCEPT !.table = Null]
           /\ pay' = [pay EXCEPT ![m].idx_registry = "destroyed"]
      [] Attr[m].mode = "BUF_RING" ->
           /\ kernel' = IF pay[m].buf_ring THEN [kernel EXCEPT !.ring = Null] ELSE kernel
           /\ pay' = [pay EXCEPT ![m].buf_ring = FALSE]
      [] OTHER -> UNCHANGED <<pay, kernel>>

\* BufferModeCtx_exit, StreamStrategyCtx_exit, TransferModeCtx_exit.
Exit(t) ==
    LET m == Last(blocks[t]) IN
    /\ Leave(t)
    /\ Attr[m].kind # "exec" /\ ResetWorks(t, m)
    /\ var' = [var EXCEPT ![t] = token[m].old]
    /\ CloseMode(m)

\* ExecutionContextCtx_exit resets the ContextVar and unregisters nothing.
ExitExec(t) ==
    LET m == Last(blocks[t]) IN
    /\ Leave(t)
    /\ Attr[m].kind = "exec" /\ ResetWorks(t, m)
    /\ var' = [var EXCEPT ![t] = token[m].old]
    /\ UNCHANGED <<pay, kernel>>

\* graceful_shutdown of another loop, called in task t, sets the ContextVar they
\* share to None.  Bound: one misuse.
OtherLoopCloses(t) ==
    /\ ~undefined /\ ~misused
    /\ var[t] # Null
    /\ var' = [var EXCEPT ![t] = None]
    /\ misused' = TRUE
    /\ UNCHANGED <<base, blocks, token, pay, kernel, spent, undefined>>

\* _get_buffer follows the NULL pointer that ContextVar_get returns when there is no
\* context.
CallWithoutContext(t) ==
    /\ ~undefined
    /\ var[t] = None
    /\ undefined' = TRUE
    /\ UNCHANGED <<var, base, blocks, token, pay, kernel, spent, misused>>

-----------------------------------------------------------------------------
Next ==
    \/ \E t, u \in Tasks : Spawn(t, u) \/ SpawnEmpty(t, u)
    \/ \E t \in Tasks, m \in Managers :
         \/ EnterNormal(t, m)
         \/ EnterFixed(t, m) \/ EnterFixedRefused(t, m) \/ EnterFixedNoMemory(t, m)
         \/ EnterProvided(t, m) \/ EnterProvidedFails(t, m)
         \/ \E ok \in BOOLEAN : EnterBufRing(t, m, ok)
         \/ EnterAgain(t, m)
    \/ \E t \in Tasks :
         \/ Exit(t) \/ ExitExec(t) \/ ExitRaises(t)
         \/ OtherLoopCloses(t)
         \/ CallWithoutContext(t)

Spec == Init /\ [][Next]_vars

-----------------------------------------------------------------------------
\* What the ContextVar was when a task entered its k-th block, by the token that
\* will put it back; what it is now, after the last block.
Before(t, k) ==
    IF k \in DOMAIN blocks[t] THEN token[blocks[t][k]].old ELSE var[t]

\* The context a task sees is the one its open blocks spell out, one inside the
\* other, over the one it inherited, and every block puts back the one it was
\* entered in: also when __enter__ raises or other tasks enter and leave in between.
ContextIsInnermost ==
    ~misused => \A t \in Tasks :
        /\ Before(t, 1) = base[t]
        /\ \A k \in DOMAIN blocks[t] : Before(t, k + 1) = Inside(blocks[t][k], Before(t, k))

\* While a payload's index stack hands out indices the kernel's table holds its
\* buffers, in whatever task: a task that outlives the block it was created in,
\* and a reader that gives back an index late, find the stack destroyed.
IndicesMeanTable == \A m \in Managers : pay[m].idx_registry = "live" => kernel.table = m

\* A registered table belongs to a block that is open, but for the two ways to
\* leak it: ExecutionContextCtx_exit, and an __enter__ short of memory, which
\* leaves its payload without an index stack.
TableOwned ==
    LET m == kernel.table IN
    m = Null \/ Active(m) \/ Attr[m].kind = "exec" \/ pay[m].idx_registry = "none"

\* A payload has a buf_ring exactly while the ring of group 0 is its own, so no
\* block frees the ring of another block whose requests select from it.
RingMatches == ~misused => \A m \in Managers : pay[m].buf_ring <=> kernel.ring = m

\* Undefined behaviour takes a manager entered again after it was spent, a second
\* loop closed, or a task that was given an empty Python context and is in no
\* ExecutionContextCtx; a BufferModeCtx whose __enter__ raised can be tried again.
NoUndefined ==
    undefined => misused \/ \E t \in Tasks : base[t] = None /\ blocks[t] = << >>
=============================================================================
