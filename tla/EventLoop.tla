----------------------------- MODULE EventLoop ------------------------------
(***************************************************************************)
(* UringioLoop_run_once (python_api/loop): compute a timeout, wait for a    *)
(* CQE, read the CQEs, promote the timers that are due, run the ready       *)
(* handles; and the wakeup of the loop through an eventfd.                  *)
(*                                                                          *)
(* The loop thread holds the GIL while it waits in the kernel.  Another     *)
(* thread gets the GIL only where the loop thread runs Python code: between *)
(* iterations, in the call of self.time() by compute_timeout, while timers  *)
(* are compared in the heap and between two handles.                        *)
(*                                                                          *)
(* An error that a callee leaves behind makes later calls into the           *)
(* interpreter fail until run_once has returned; pyerr is TRUE meanwhile.    *)
(*                                                                          *)
(* A handle is scheduled once.  Time is counted in ticks; Second of them    *)
(* make a second, the unit of tv_sec.                                       *)
(***************************************************************************)
EXTENDS Integers, Sequences, FiniteSets, SequencesExt

CONSTANTS
    Soon,           \* handles for call_soon
    Timers,         \* handles for call_at
    Callbacks,      \* handles of the futures of requests
    Threaded,       \* handles for call_soon_threadsafe, from another thread
    Delays,         \* the delays callers choose, in ticks
    Second,         \* ticks in a second
    MaxWait,        \* the longest wait (86400 s)
    ClockResolution,\* _clock_resolution, in ticks
    MaxTime         \* bound on the clock

ASSUME TimeAssumption ==
    /\ Second \in Nat \ {0} /\ MaxWait \in Nat /\ ClockResolution \in Nat
    /\ MaxTime \in Nat /\ Delays \subseteq Nat

\* A handle is scheduled in one way, and run_forever finds one to start with.
ASSUME HandlesAssumption ==
    /\ Soon # {}
    /\ Soon \cap (Timers \cup Callbacks \cup Threaded) = {}
    /\ Timers \cap (Callbacks \cup Threaded) = {}
    /\ Callbacks \cap Threaded = {}

Handles == Soon \cup Timers \cup Callbacks \cup Threaded

VARIABLES
    pc,         \* where the loop thread is in run_once
    now,        \* the monotonic clock
    ready,      \* _ready, a deque of handles
    scheduled,  \* _scheduled, the timers in the heap
    when,       \* _when of the timers
    first,      \* _when of the first timer, as compute_timeout has read it
    deadline,   \* when the wait in the kernel times out
    ntodo,      \* the handles drain_ready still has to run
    stopping,   \* _stopping
    cancelled,  \* the handles that are cancelled
    ran,        \* history: the handles that have run
    issued,     \* history: the handles that have been scheduled in some way
    requests,   \* the callbacks whose request is in the kernel
    cqes,       \* the callbacks whose CQE is in the completion queue
    counter,    \* the value of the eventfd
    armed,      \* a read of the eventfd is in the kernel
    wakeup_cqe, \* its CQE is in the completion queue
    writer,     \* the other thread has appended a handle and has yet to write
    orphaned,   \* the callbacks whose future was cancelled while in the kernel
    pyerr,      \* the error indicator of the interpreter is set
    erred,      \* history: it has been set
    lost        \* history: the handles that were taken and not run

vars == <<pc, now, ready, scheduled, when, first, deadline, ntodo, stopping,
          cancelled, ran, issued, requests, cqes, counter, armed, wakeup_cqe, writer,
          orphaned, pyerr, erred, lost>>

timing == <<first, deadline>>
kernel == <<requests, cqes, counter, armed, wakeup_cqe>>
raising == <<orphaned, pyerr, erred>>
errors == <<raising, lost>>
handles == <<ready, scheduled, when, cancelled, ran, issued>>

Steps == {"idle", "timing", "waiting", "reading", "promoting", "draining",
          "stopped", "raised"}

\* UringioLoop_init has submitted a read of the eventfd; run_forever starts with
\* one ready handle, whichever it is.
Init ==
    /\ pc = "idle"
    /\ now = 0
    /\ LET h == CHOOSE h \in Soon : TRUE IN ready = <<h>> /\ issued = {h}
    /\ scheduled = {}
    /\ when = [h \in Timers |-> 0]
    /\ first = 0
    /\ deadline = 0
    /\ ntodo = 0
    /\ stopping = FALSE
    /\ cancelled = {}
    /\ ran = {}
    /\ requests = {}
    /\ cqes = << >>
    /\ counter = 0
    /\ armed = TRUE
    /\ wakeup_cqe = FALSE
    /\ writer = FALSE
    /\ orphaned = {}
    /\ pyerr = FALSE
    /\ erred = FALSE
    /\ lost = {}

-----------------------------------------------------------------------------
\* The heap: its first element.
FirstWhen == CHOOSE t \in {when[h] : h \in scheduled} :
                 \A h \in scheduled : t <= when[h]

\* Mutant: the fraction of the delay is rounded up.
WaitRoundsUp(delay) == ((delay + Second - 1) \div Second) * Second

\* The timespec for a delay: at most MaxWait, and only its whole seconds, because
\* tv_nsec is computed from delay - (double)delay.
WaitFor(delay) ==
    LET capped == IF delay < 0 THEN 0 ELSE IF delay > MaxWait THEN MaxWait ELSE delay
    IN  (capped \div Second) * Second

\* compute_timeout, when it does not need the time.
ComputeTimeout ==
    /\ pc = "idle"
    /\ \/ /\ ready # << >> \/ stopping
          /\ deadline' = now
       \/ /\ ready = << >> /\ ~stopping /\ scheduled = {}
          /\ deadline' = now + MaxWait
    /\ pc' = "waiting"
    /\ UNCHANGED <<now, first, ntodo, stopping, handles, kernel, writer, errors>>

\* compute_timeout has read _ready, _stopping and the first timer and calls
\* self.time().
ComputeTimeoutReads ==
    /\ pc = "idle"
    /\ ready = << >> /\ ~stopping /\ scheduled # {}
    /\ first' = FirstWhen
    /\ pc' = "timing"
    /\ UNCHANGED <<now, deadline, ntodo, stopping, handles, kernel, writer, errors>>

ComputeTimeoutDelay ==
    /\ pc = "timing"
    /\ deadline' = now + WaitFor(first - now)
    /\ pc' = "waiting"
    /\ UNCHANGED <<now, first, ntodo, stopping, handles, kernel, writer, errors>>

CqeAvailable == cqes # << >> \/ wakeup_cqe

\* io_uring_submit_and_wait_timeout returns.
WaitReturns ==
    /\ pc = "waiting"
    /\ CqeAvailable \/ now >= deadline
    /\ pc' = "reading"
    /\ UNCHANGED <<now, timing, ntodo, stopping, handles, kernel, writer, errors>>

\* Mutant: set_result does not mind that the future is done.
ReadResolvesAgain ==
    /\ pc = "reading" /\ cqes # << >>
    /\ ready' = Append(ready, Head(cqes))
    /\ cqes' = Tail(cqes)
    /\ UNCHANGED <<pc, now, timing, ntodo, stopping, scheduled, when, cancelled, ran,
                   issued, requests, counter, armed, wakeup_cqe, writer, errors>>

\* on_uring_ready, one CQE: the future is resolved and its callback becomes ready.
\* When the future was cancelled set_result raises and leaves the error behind.
\* A later CQE of the batch then sets its result with or without being able to
\* schedule the callback, or is skipped, which prints and clears the error.
ReadCqe ==
    /\ pc = "reading" /\ cqes # << >>
    /\ LET h == Head(cqes)
           done == h \in orphaned
       IN  /\ ready' \in (IF done THEN {} ELSE {Append(ready, h)})
                          \cup (IF done \/ pyerr THEN {ready} ELSE {})
           /\ pyerr' \in {done \/ pyerr} \cup (IF pyerr /\ ready' = ready THEN {FALSE} ELSE {})
           /\ lost' = IF ~done /\ ready' = ready THEN lost \cup {h} ELSE lost
           /\ erred' = (erred \/ pyerr')
    /\ cqes' = Tail(cqes)
    /\ UNCHANGED <<pc, now, timing, ntodo, stopping, scheduled, when, cancelled, ran,
                   issued, requests, counter, armed, wakeup_cqe, writer, orphaned>>

\* The queue is empty.  The CQE of the wakeup read leads to no slot; the read is
\* not submitted again.
ReadEnds ==
    /\ pc = "reading" /\ cqes = << >>
    /\ wakeup_cqe' = FALSE
    /\ pc' = "promoting"
    /\ UNCHANGED <<now, timing, ntodo, stopping, handles, requests, cqes, counter, armed,
                   writer, errors>>

\* Mutant: the timers are promoted when the first of them is due.
AllOrNone == IF \E h \in scheduled : when[h] < now + ClockResolution
               THEN scheduled ELSE {}

\* The timers before end_time.
Due == {h \in scheduled : when[h] < now + ClockResolution}

\* Mutants: the timers that are popped are not appended to _ready; the handles to
\* run are counted one too many.
PromoteLoses ==
    /\ pc = "promoting" /\ ~pyerr
    /\ ntodo' = Len(ready)
    /\ scheduled' = scheduled \ Due
    /\ pc' = "draining"
    /\ UNCHANGED <<now, timing, stopping, ready, when, cancelled, ran, issued, kernel, writer, errors>>

PromoteMiscounts ==
    /\ pc = "promoting" /\ ~pyerr
    /\ \E popped \in SetToSeqs(Due) : ready' = ready \o popped
    /\ ntodo' = Len(ready') + 1
    /\ scheduled' = scheduled \ Due
    /\ pc' = "draining"
    /\ UNCHANGED <<now, timing, stopping, when, cancelled, ran, issued, kernel, writer, errors>>

\* promote_scheduled pops the timers that are due, the earliest first; drain_ready
\* then counts the ready handles.
Promote ==
    /\ pc = "promoting" /\ ~pyerr
    /\ \E popped \in SetToSeqs(Due) :
          /\ \A i, j \in 1 .. Len(popped) : i < j => when[popped[i]] <= when[popped[j]]
          /\ ready' = ready \o popped
          /\ ntodo' = Len(ready) + Len(popped)
    /\ scheduled' = scheduled \ Due
    /\ pc' = "draining"
    /\ UNCHANGED <<now, timing, stopping, when, cancelled, ran, issued, kernel, writer, errors>>

\* promote_scheduled cannot import heapq while the error indicator is set.
PromoteFails ==
    /\ pc = "promoting" /\ pyerr
    /\ ntodo' = Len(ready)
    /\ pc' = "draining"
    /\ UNCHANGED <<now, timing, stopping, handles, kernel, writer, errors>>

-----------------------------------------------------------------------------
(***************************************************************************)
(* What a handle does when it runs.                                         *)
(***************************************************************************)
Unissued(S) == S \ issued

DoNothing ==
    /\ ready' = Tail(ready)
    /\ UNCHANGED <<scheduled, when, cancelled, issued, requests, counter, stopping, raising>>

CallSoon(h) ==
    /\ ready' = Append(Tail(ready), h)
    /\ issued' = issued \cup {h}
    /\ UNCHANGED <<scheduled, when, cancelled, requests, counter, stopping, raising>>

CallAt(h, delay) ==
    /\ now + delay <= MaxTime
    /\ ready' = Tail(ready)
    /\ scheduled' = scheduled \cup {h}
    /\ when' = [when EXCEPT ![h] = now + delay]
    /\ issued' = issued \cup {h}
    /\ UNCHANGED <<cancelled, requests, counter, stopping, raising>>

StartRequest(h) ==
    /\ ready' = Tail(ready)
    /\ requests' = requests \cup {h}
    /\ issued' = issued \cup {h}
    /\ UNCHANGED <<scheduled, when, cancelled, counter, stopping, raising>>

\* Handle.cancel, of a handle that waits in _ready or in _scheduled.
Cancel(h) ==
    /\ h \in scheduled \cup {ready[k] : k \in 2 .. Len(ready)}
    /\ ready' = Tail(ready)
    /\ cancelled' = cancelled \cup {h}
    /\ UNCHANGED <<scheduled, when, issued, requests, counter, stopping, raising>>

\* UringioLoop_write_to_self, called by the loop thread itself.
WriteToSelf ==
    /\ ready' = Tail(ready)
    /\ counter' = counter + 1
    /\ UNCHANGED <<scheduled, when, cancelled, issued, requests, stopping, raising>>

Stop ==
    /\ ready' = Tail(ready)
    /\ stopping' = TRUE
    /\ UNCHANGED <<scheduled, when, cancelled, issued, requests, counter, raising>>

\* The task that awaits a request is cancelled: the future is done, its callback
\* becomes ready, and the request stays in the kernel.
CancelRequest(h) ==
    /\ h \in requests \cup Range(cqes)
    /\ h \notin orphaned
    /\ ready' = Append(Tail(ready), h)
    /\ orphaned' = orphaned \cup {h}
    /\ UNCHANGED <<scheduled, when, cancelled, issued, requests, counter, stopping,
                   pyerr, erred>>

\* The handle raises KeyboardInterrupt or SystemExit, which Handle._run lets pass.
Interrupt ==
    /\ ready' = Tail(ready)
    /\ pyerr' = TRUE /\ erred' = TRUE
    /\ UNCHANGED <<scheduled, when, cancelled, issued, requests, counter, stopping,
                   orphaned>>

Body ==
    \/ DoNothing \/ Stop \/ WriteToSelf \/ Interrupt
    \/ \E h \in Unissued(Soon) : CallSoon(h)
    \/ \E h \in Unissued(Timers), delay \in Delays : CallAt(h, delay)
    \/ \E h \in Unissued(Callbacks) : StartRequest(h)
    \/ \E h \in Handles : Cancel(h)
    \/ \E h \in Callbacks : CancelRequest(h)

\* Mutant: a cancelled handle runs.
RunsCancelled ==
    /\ pc = "draining" /\ ntodo > 0 /\ ~pyerr
    /\ Body
    /\ ran' = ran \cup {Head(ready)}
    /\ ntodo' = ntodo - 1
    /\ UNCHANGED <<pc, now, timing, cqes, armed, wakeup_cqe, writer, lost>>

\* drain_ready, one handle: it runs unless it is cancelled.
DrainRuns ==
    /\ pc = "draining" /\ ntodo > 0 /\ ~pyerr
    /\ Head(ready) \notin cancelled
    /\ Body
    /\ ran' = ran \cup {Head(ready)}
    /\ ntodo' = ntodo - 1
    /\ UNCHANGED <<pc, now, timing, cqes, armed, wakeup_cqe, writer, lost>>

DrainSkips ==
    /\ pc = "draining" /\ ntodo > 0 /\ ~pyerr
    /\ Head(ready) \in cancelled
    /\ DoNothing
    /\ ntodo' = ntodo - 1
    /\ UNCHANGED <<pc, now, timing, ran, cqes, armed, wakeup_cqe, writer, lost>>

\* popleft removes a handle, but its result is discarded for the error, and
\* drain_ready gives up.
DrainLoses ==
    /\ pc = "draining" /\ ntodo > 0 /\ pyerr
    /\ ready' = Tail(ready)
    /\ lost' = lost \cup {Head(ready)}
    /\ ntodo' = 0
    /\ UNCHANGED <<pc, now, timing, stopping, scheduled, when, cancelled, ran, issued,
                   kernel, writer, raising>>

\* Mutant: the iteration ends before its last handle.
DrainEndsEarly ==
    /\ pc = "draining" /\ ntodo = 1 /\ ~pyerr
    /\ ntodo' = 0
    /\ pc' = IF stopping THEN "stopped" ELSE "idle"
    /\ UNCHANGED <<now, timing, stopping, handles, kernel, writer, errors>>

\* The end of the iteration: run_forever leaves its loop when _stopping is set.
DrainEnds ==
    /\ pc = "draining" /\ ntodo = 0 /\ ~pyerr
    /\ pc' = IF stopping THEN "stopped" ELSE "idle"
    /\ UNCHANGED <<now, timing, ntodo, stopping, handles, kernel, writer, errors>>

\* run_once returns with the error indicator set: run_forever raises and resets
\* _stopping.
RunOnceRaises ==
    /\ pc = "draining" /\ ntodo = 0 /\ pyerr
    /\ pyerr' = FALSE
    /\ stopping' = FALSE
    /\ pc' = "raised"
    /\ UNCHANGED <<now, timing, ntodo, handles, kernel, writer, orphaned, erred, lost>>

\* The program runs the loop again, as asyncio.Runner does to cancel its tasks.
RunAgain ==
    /\ pc = "raised"
    /\ pc' = "idle"
    /\ UNCHANGED <<now, timing, ntodo, stopping, handles, kernel, writer, errors>>

-----------------------------------------------------------------------------
\* The other thread: call_soon_threadsafe appends a handle, then calls
\* _write_to_self.
GilReleased == pc \notin {"waiting", "reading"}

ThreadAppends(h) ==
    /\ GilReleased
    /\ ~writer
    /\ ready' = Append(ready, h)
    /\ issued' = issued \cup {h}
    /\ writer' = TRUE
    /\ UNCHANGED <<pc, now, timing, ntodo, stopping, scheduled, when, cancelled,
                   ran, kernel, errors>>

ThreadWrites ==
    /\ GilReleased
    /\ writer
    /\ writer' = FALSE
    /\ counter' = counter + 1
    /\ UNCHANGED <<pc, now, timing, ntodo, stopping, handles, requests, cqes,
                   armed, wakeup_cqe, errors>>

\* The kernel completes a request, or the read of the eventfd.
CompleteRequest(h) ==
    /\ requests' = requests \ {h}
    /\ cqes' = Append(cqes, h)
    /\ UNCHANGED <<pc, now, timing, ntodo, stopping, handles, counter, armed,
                   wakeup_cqe, writer, errors>>

CompleteWakeupRead ==
    /\ armed /\ counter > 0
    /\ counter' = 0
    /\ armed' = FALSE
    /\ wakeup_cqe' = TRUE
    /\ UNCHANGED <<pc, now, timing, ntodo, stopping, handles, requests, cqes, writer, errors>>

Tick ==
    /\ now < MaxTime
    /\ now' = now + 1
    /\ UNCHANGED <<pc, timing, ntodo, stopping, handles, kernel, writer, errors>>

RunOnce ==
    \/ ComputeTimeout \/ ComputeTimeoutReads \/ ComputeTimeoutDelay
    \/ WaitReturns \/ ReadCqe \/ ReadEnds
    \/ Promote \/ PromoteFails
    \/ DrainRuns \/ DrainSkips \/ DrainLoses \/ DrainEnds \/ RunOnceRaises

Next ==
    \/ RunOnce
    \/ RunAgain
    \/ \E h \in Unissued(Threaded) : ThreadAppends(h)
    \/ ThreadWrites
    \/ \E h \in requests : CompleteRequest(h)
    \/ CompleteWakeupRead
    \/ Tick

Spec == Init /\ [][Next]_vars

(***************************************************************************)
(* The loop thread runs, time passes and the kernel completes the read of   *)
(* the eventfd.  Nothing forces it to complete a request.                   *)
(***************************************************************************)
FairSpec == Spec /\ WF_vars(RunOnce) /\ WF_vars(Tick) /\ WF_vars(CompleteWakeupRead)

-----------------------------------------------------------------------------
\* Type invariant.
TypeOK ==
    /\ pc \in Steps
    /\ now \in 0 .. MaxTime
    /\ ready \in Seq(Handles)
    /\ scheduled \subseteq Timers
    /\ when \in [Timers -> 0 .. MaxTime]
    /\ first \in 0 .. MaxTime
    /\ deadline \in Nat
    /\ ntodo \in 0 .. Len(ready)
    /\ stopping \in BOOLEAN
    /\ cancelled \subseteq Handles /\ ran \subseteq Handles /\ issued \subseteq Handles
    /\ requests \subseteq Callbacks
    /\ cqes \in Seq(Callbacks)
    /\ counter \in Nat
    /\ armed \in BOOLEAN /\ wakeup_cqe \in BOOLEAN /\ writer \in BOOLEAN
    /\ orphaned \subseteq Callbacks /\ lost \subseteq Handles
    /\ pyerr \in BOOLEAN /\ erred \in BOOLEAN

\* compute_timeout waits for no longer than an instant while a handle that the loop
\* thread has made ready is in _ready (one of another thread can arrive during
\* compute_timeout), and never past the first timer, although it loses the
\* fraction of the delay.
NoOversleep ==
    pc = "waiting" /\ deadline > now =>
        /\ Range(ready) \subseteq Threaded
        /\ \A h \in scheduled : deadline <= when[h]

\* promote_scheduled makes a timer ready no earlier than its time, up to the
\* clock resolution, even when an earlier timer is due.
NoEarlyTimer ==
    \A h \in Timers :
        (h \in ran \/ \E k \in 1 .. Len(ready) : ready[k] = h)
            => when[h] < now + ClockResolution

\* A handle that is cancelled while it waits in _ready or in _scheduled does not
\* run, although promote_scheduled still makes a cancelled timer ready.
CancelledNeverRuns == ran \cap cancelled = {}

\* No handle disappears: one that was scheduled has run, was cancelled, or waits in
\* _ready, in _scheduled, in the kernel or in the completion queue; it is lost only
\* after an error, that of a cancelled request or of an interrupted handle.
HandlesAccounted ==
    /\ issued \subseteq ran \cup cancelled \cup lost \cup Range(ready) \cup scheduled
                        \cup requests \cup Range(cqes)
    /\ lost # {} => erred

\* No handle runs twice: not a callback that the cancellation of its future has
\* made ready and whose CQE arrives later, nor a timer that promote_scheduled pops.
RunsOnce ==
    /\ \A j, k \in 1 .. Len(ready) : ready[j] = ready[k] => j = k
    /\ Range(ready) \cap (ran \cup scheduled \cup lost) = {}

\* A handle in _ready, a timer in _scheduled and a callback whose CQE is in the
\* completion queue runs, unless it is cancelled or the loop stops, because
\* _stopping was set or because an error was raised.  The one way to be lost while
\* the loop goes on is that of a callback whose CQE follows the CQE of a cancelled
\* request: the reader skips it and clears the error.
HandlesRun ==
    \A h \in Handles :
        (h \in Range(ready) \cup scheduled \cup Range(cqes))
            ~> \/ h \in ran \cup cancelled
               \/ pc \in {"stopped", "raised"}
               \/ h \in lost \cap Callbacks /\ orphaned \ {h} # {}

\* docs/api/loop.md, _write_to_self: "Write a byte to self-pipe, to wake up the
\* event loop": the loop does not sleep on while a byte is in the eventfd.
WriteWakesLoop ==
    pc = "waiting" /\ counter > 0 => armed \/ CqeAvailable \/ deadline <= now
=============================================================================
