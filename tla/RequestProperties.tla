------------------------- MODULE RequestProperties --------------------------
(***************************************************************************)
(* The properties of the life of a request.  Those about the optional       *)
(* features hold for every set of Calls; the others are stated for the      *)
(* sets of Plain operations and for a submission that does not fail.        *)
(***************************************************************************)
EXTENDS RequestLifecycle

SqeType ==
    [shape : {"oneshot", "multishot", "zerocopy", "notification", "link_timeout", "nop",
               "provide"},
     ud : -1 .. Size, buf : Payloads \cup {Null}, closes : Targets \cup {Null},
     req : Reqs \cup {Null}, part : {"main", "link"}]

CqeType ==
    [ud : -1 .. Size, req : Reqs \cup {Null}, part : {"main", "link"},
     ok : BOOLEAN, more : BOOLEAN]

SlotType ==
    [future : Reqs \cup {Null},
     opcode : {op.opcode : op \in Calls} \cup {"NOP"},
     payload : Payloads \cup {Null},
     target : Targets \cup {"new", Null},
     stream : StreamStrategies]

Delivery == [req : Reqs \cup {Null}, part : {"main", "link"}]

ASSUME NullIsNoRecord == Null \notin SlotType \cup Delivery

FutureStates == {"unused", "refused", "pending", "cancelled", "result", "exception"}

Phases == {"running", "draining", "destroyed", "closed", "aborted", "crashed"}

\* Type invariant.
TypeOK ==
    /\ reg \in RegistryType(SlotType)
    /\ sq \in [queued : SUBSET SqeType, entries : [0 .. (SqEntries - 1) -> SqeType],
               tail : 0 .. (SqEntries - 1)]
    /\ inflight \subseteq SqeType
    /\ cq \in Seq(CqeType)
    /\ fut \in [Reqs -> FutureStates]
    /\ delivered \in [Reqs -> Delivery \cup {Null}]
    /\ raised \subseteq Reqs /\ unheard \subseteq Reqs /\ dropped \subseteq Reqs
    /\ pyerr \in BOOLEAN
    /\ mem \subseteq Payloads
    /\ double_free \in BOOLEAN
    /\ closed \in [Targets -> BOOLEAN]
    /\ fd_closed \subseteq Targets
    /\ phase \in Phases

-----------------------------------------------------------------------------
(* Properties for every set of Calls. *)

\* While the loop runs, the free indices of the registry are exactly the slots
\* that no request uses, whatever CQEs the reader meets: registry_remove is
\* called once for each successful registry_add.
StackMatchesSlots == phase = "running" => WellFormed(reg)

\* A CQE or an SQE in the kernel that leads the reader back to slot i.
Carries(x, i) ==
    /\ x.ud = i
    /\ x.req = reg.slots[i].future
    /\ x.part = "main"

Carried(i) ==
    \/ \E x \in inflight : Carries(x, i)
    \/ \E k \in 1 .. Len(cq) : Carries(cq[k], i)

\* Somebody may await the future, and no CQE will ever lead to it.
Lost(r) ==
    /\ fut[r] = "pending"
    /\ ~ \E i \in Indices : reg.slots[i].future = r /\ Carried(i)

\* While the loop runs, a future that somebody may await has a slot, and the
\* kernel holds an SQE, or the completion queue a CQE, that will lead the reader
\* to it: no error path of a handler and no removal of a slot by the reader
\* loses a future, unless the reader could not create its exception.
NoLostFuture ==
    phase = "running" => \A r \in Reqs : Lost(r) => r \in dropped

\* docs/ARCHITECTURE.md, on the reader: "setting asyncio feature result by mapping
\* them via `registry`": no CQE is consumed without resolving the future.
EveryFutureResolved ==
    phase = "running" => \A r \in Reqs : ~Lost(r)

\* While the loop runs, the cancellation of a request makes the reader skip at most
\* one other future: the error that set_result leaves behind is printed and cleared
\* with the future it has made the reader skip, and without a cancellation no
\* future is skipped.
CancellationSkipsOne ==
    phase = "running" => Cardinality(dropped) <= Cardinality(raised)

\* The reader and the drain loop try to resolve a future that is already done
\* only when the task has been cancelled: no CQE, however late, reaches a future
\* that another CQE has resolved.
ResolvedOnce == raised \subseteq {r \in Reqs : fut[r] = "cancelled"}

\* Until the registry is destroyed no payload is freed twice, by the switch of
\* the reader and by registry_remove or by two slots.
NoDoubleFree == phase \in {"running", "draining"} => ~double_free

\* A payload that is allocated belongs to a slot: no path of a handler, of the
\* reader or of the drain loop drops a payload without freeing it.
NoLeak ==
    phase \in {"running", "draining"} =>
        \A r \in mem \cap Reqs : \E i \in Indices : reg.slots[i].payload = r

\* A call that raises leaves the free indices, the buffers and the closed flags
\* as they were.
RefusedCallLeavesNoTrace ==
    [][\A r \in Reqs : fut[r] = "unused" /\ fut'[r] = "refused" =>
         /\ reg'.top = reg.top
         /\ reg'.available_indices = reg.available_indices
         /\ mem' = mem
         /\ closed' = closed]_vars

\* A CQE that reaches the completion queue before the registry is destroyed and
\* belongs to the slot of a pending future is delivered: the future is resolved
\* (by that CQE or by an earlier one with the same user_data), unless the process
\* dies first or the future is skipped.  A future is skipped only after an error
\* that another future has left: one that was cancelled, or one whose callbacks
\* the drain loop could not schedule because close() has already closed the loop.
CompletionsAreDelivered ==
    \A r \in Reqs :
        (/\ phase \in {"running", "draining"}
         /\ fut[r] = "pending"
         /\ \E k \in 1 .. Len(cq) : \E i \in Indices :
               reg.slots[i].future = r /\ Carries(cq[k], i))
        ~> \/ fut[r] # "pending"
           \/ r \in dropped /\ (raised \cup unheard) \ {r} # {}
           \/ phase \in {"aborted", "crashed"}

\* Until the registry is destroyed, the kernel works on a buffer that is freed only
\* for one of these reasons: it has yet to send the notification of a zero copy
\* send; the call has failed and its SQE, or the one it took and did not prepare,
\* has stayed in the queue; or the slot was taken by a CQE that was not its own.
DanglingBuffersExplained ==
    phase \in {"running", "draining"} =>
        \A x \in inflight : x.buf # Null /\ x.buf \notin mem =>
            \/ x.shape = "notification"
            \/ fut[x.req] = "refused"
            \/ delivered[x.req] \notin {Null, [req |-> x.req, part |-> "main"]}
            \/ x.req \in raised \cup dropped

-----------------------------------------------------------------------------
(* Properties of the plain operations. *)

\* A future is resolved by the CQE of its own SQE (docs/ARCHITECTURE.md, on the
\* registry: "to map the result of kernel with what was intended").
NoMisdelivery ==
    \A r \in Reqs :
        delivered[r] # Null => delivered[r] = [req |-> r, part |-> "main"]

\* The buffers the kernel works on are allocated (docs/ARCHITECTURE.md: the
\* registry keeps "objects alive until they would be mapped with CQEs").
BuffersAlive == \A x \in inflight : x.buf # Null => x.buf \in mem

\* The same, until the registry is destroyed.
BuffersAliveUntilShutdown == phase \in {"running", "draining"} => BuffersAlive

\* The process does not die in abort(), neither in the reader nor in the drain
\* loop, and no NULL pointer is dereferenced.
NoCrash == phase \notin {"aborted", "crashed"}

\* A descriptor is closed at most once: the kernel may have given its number to
\* another file when a second close arrives.  UringioSocket_close sets `closed'
\* before it submits, so that a second call raises.
ClosedOnce ==
    \A x \in inflight : x.closes # Null =>
        /\ x.closes \notin fd_closed
        /\ \A y \in inflight : y.closes = x.closes => y = x

\* The requests implement module Completion.
Abstract == INSTANCE Completion WITH
    Request <- Reqs,
    state <- [r \in Reqs |-> IF fut[r] \in {"result", "exception"}
                               THEN "resolved" ELSE fut[r]],
    finished <- {r \in Reqs : /\ fut[r] \notin {"unused", "refused"}
                              /\ \A x \in inflight : x.req # r}

\* A future is resolved at most once, only after the kernel has finished with
\* the request and its buffers, and cancellation is final.
ImplementsCompletion == Abstract!Spec
=============================================================================
