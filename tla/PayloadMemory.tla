---------------------------- MODULE PayloadMemory ----------------------------
(***************************************************************************)
(* The memory of one BufferPayload (src/python_api/buffers/buffers.c): its  *)
(* constructors acquire blocks and buffer views one after the other, any    *)
(* acquisition may fail, and free_buffer_payload gives them back by what    *)
(* the fields of the payload say.                                           *)
(***************************************************************************)
EXTENDS Integers, Sequences, SequencesExt

CONSTANT MaxItems       \* bound on the buffers of a payload

ASSUME MaxItemsAssumption == MaxItems \in Nat \ {0}

VARIABLES
    ctor,       \* the constructor that was called
    items,      \* the number of buffers: `amount', or the length of buffers_obj,
                \* 0 also for a buffers_obj that is no sequence
    todo,       \* what it has still to acquire
    heap,       \* the blocks and views that are held
    status,     \* "running", "null", "built" or "freed"
    fields,     \* the fields of the payload that free_buffer_payload looks at
    twice,      \* history: the blocks that were freed twice
    undefined   \* a field was used that nothing has set, a division by zero, or a
                \* write beyond an array of no elements

vars == <<ctor, items, todo, heap, status, fields, twice, undefined>>

(***************************************************************************)
(* The constructors.  The handlers of the operations call the first six;    *)
(* create_buffer_payload, for a context manager, is the others: by mode and *)
(* by the origin of the buffers.                                            *)
(***************************************************************************)
Cleaning == {"from_data", "vectored_user", "vectored_runtime"}
Linear == {"linear_user", "linear_runtime"}
Handlers == Cleaning \cup Linear \cup {"from_pybuffer"}
RingModes == {"ring_user", "ring_runtime"}
FixedModes == {"fixed_user", "fixed_runtime"}
NormalModes == {"normal_user", "normal_runtime"}
Ctors == Handlers \cup RingModes \cup FixedModes \cup NormalModes

\* create_buffer_payload asks for the length of the user's sequence.
Sequenced == {"ring_user", "fixed_user", "normal_user"}

One(name) == << <<name, 0>> >>
Each(name, n) == [i \in 1 .. n |-> <<name, i>>]

\* What a constructor acquires, in order.  serialize_linear_buffers and
\* serialize_vectored_buffers check their first two blocks together.
\* from_pybuffer is preceded by the PyObject_GetBuffer of its caller, and the
\* case NORMAL_BUF of create_buffer_payload, here with the type PAYLOAD_LINEAR,
\* falls through into FIXED.
Acquires(c, n) ==
    CASE c = "from_data" ->
           One("payload") \o One("linear") \o One("views") \o Each("view", 1)
      [] c = "from_pybuffer" ->
           Each("view", 1) \o One("payload") \o One("vector") \o One("iovecs") \o One("views")
      [] c \in {"linear_user", "ring_user"} ->
           One("payload") \o One("views") \o One("linear") \o Each("view", n)
      [] c \in {"linear_runtime", "ring_runtime"} ->
           One("payload") \o One("linear") \o Each("buffer", n)
      [] c = "vectored_user" ->
           One("payload") \o One("views") \o One("vector") \o One("iovecs") \o Each("view", n)
      [] c = "vectored_runtime" ->
           One("payload") \o One("vector") \o One("iovecs") \o Each("buffer", n)
      [] c = "fixed_user" ->
           One("payload") \o One("views") \o One("linear") \o One("vector")
             \o One("iovecs") \o Each("view", n)
      [] c = "fixed_runtime" ->
           One("payload") \o One("linear") \o One("vector") \o One("iovecs") \o Each("buffer", n)
      [] c = "normal_user" ->
           One("payload") \o One("views0") \o One("linear0") \o Each("view0", n)
             \o One("views") \o One("linear") \o One("vector") \o One("iovecs")
             \o Each("view", n)
      [] c = "normal_runtime" ->
           One("payload") \o One("linear0") \o Each("buffer0", n)
             \o One("linear") \o One("vector") \o One("iovecs") \o Each("buffer", n)

\* The number of buffers: one where the constructor does not count.
Items(c) ==
    CASE c = "vectored_user" -> 0 .. MaxItems
      [] c \in Handlers \ {"vectored_user"} -> {1}
      [] OTHER -> (IF c \in Sequenced THEN 0 ELSE 1) .. MaxItems

(***************************************************************************)
(* The fields of a payload whose constructor has succeeded.  `linear' and   *)
(* `vector' say that the pointer is not NULL, `lviews' and `vviews' that    *)
(* its views are not.  make_buffers does not set vector->views.             *)
(***************************************************************************)
Unset == "unset"

Built(c) ==
    [linear |-> c \notin {"from_pybuffer", "vectored_user", "vectored_runtime"},
     vector |-> c \in {"from_pybuffer", "vectored_user", "vectored_runtime"}
                        \cup FixedModes \cup NormalModes,
     lviews |-> c \in {"from_data", "linear_user", "ring_user", "fixed_user", "normal_user"},
     vviews |-> CASE c \in {"from_pybuffer", "vectored_user"} -> "set"
                  [] c \in {"fixed_runtime", "normal_runtime"} -> Unset
                  [] OTHER -> "null",
     runtime |-> c \in {"linear_runtime", "vectored_runtime", "ring_runtime",
                        "fixed_runtime", "normal_runtime"}]

NoFields == [linear |-> FALSE, vector |-> FALSE, lviews |-> FALSE, vviews |-> "null",
             runtime |-> FALSE]

Init ==
    /\ ctor \in Ctors
    /\ items \in Items(ctor)
    /\ todo = Acquires(ctor, items)
    /\ heap = {}
    /\ status = "running"
    /\ fields = NoFields
    /\ twice = {}
    /\ undefined = FALSE

Running == status = "running" /\ ~undefined

\* _get_buffer_metadata gives the amount 0: the user's sequence is empty, or
\* buffers_obj is no sequence, and the error is left for later.
NoItems == ctor \in Sequenced /\ items = 0

\* serialize_linear_buffers or serialize_buffers has come to its last statements,
\* which set the views of the first element of the array.
SetsViews == todo = << >> \/ (ctor = "normal_user" /\ Head(todo) = <<"views", 0>>)

\* The length of an empty sequence is a divisor.  Without a sequence the
\* construction goes on, with an array of no elements.
NoBuffers ==
    /\ Running
    /\ NoItems
    /\ heap = {} \/ SetsViews
    /\ undefined' = TRUE
    /\ UNCHANGED <<ctor, items, todo, heap, status, fields, twice>>

Overruns == NoItems /\ SetsViews

Acquire ==
    /\ Running /\ ~Overruns
    /\ todo # << >>
    /\ heap' = heap \cup {Head(todo)}
    /\ todo' = Tail(todo)
    /\ UNCHANGED <<ctor, items, status, fields, twice, undefined>>

Succeed ==
    /\ Running /\ ~Overruns
    /\ todo = << >>
    /\ status' = "built"
    /\ fields' = Built(ctor)
    /\ UNCHANGED <<ctor, items, todo, heap, twice, undefined>>

-----------------------------------------------------------------------------
(***************************************************************************)
(* An acquisition fails: the kinds of blocks that the function gives back   *)
(* in the branch for a failing b.                                           *)
(***************************************************************************)
FromData(b) ==
    CASE b = "payload" -> {}
      [] b = "linear" -> {"payload"}
      [] b = "views" -> {"payload", "linear"}
      [] b = "view" -> {"payload", "linear", "views"}

FromPybuffer(b) ==
    CASE b \in {"view", "payload"} -> {}
      [] b = "vector" -> {"payload"}
      [] b = "iovecs" -> {"payload", "vector"}
      [] b = "views" -> {"payload", "vector", "iovecs"}

CreateLinear(b) == IF b \in {"buffer", "buffer0"} THEN {"linear", "linear0", b} ELSE {}

SerializeLinear(b) ==
    CASE b \in {"views", "linear", "views0", "linear0"} ->
           {"views", "linear", "views0", "linear0"}
      [] b \in {"view", "view0"} ->
           {"views", "linear", "views0", "linear0", b}
      [] OTHER -> {}

CreateVectored(b) ==
    CASE b = "iovecs" -> {"vector"}
      [] b = "buffer" -> {"vector", "iovecs", "buffer"}
      [] OTHER -> {}

\* Mutant: the views that were taken before the one that fails are not released.
SerializeKeepsViews(b) ==
    CASE b \in {"views", "vector", "iovecs"} -> {"views", "vector"}
      [] b = "view" -> {"views", "vector", "iovecs"}
      [] OTHER -> {}

SerializeVectored(b) ==
    CASE b \in {"views", "vector", "iovecs"} -> {"views", "vector"}
      [] b = "view" -> {"views", "vector", "iovecs", "view"}
      [] OTHER -> {}

\* get_or_create_vectored_buffer frees the payload after the function that fills
\* it; create_buffer_payload and get_or_create_linear_buffer do not.
GivesBack(c, b) ==
    CASE c = "from_data" -> FromData(b)
      [] c = "from_pybuffer" -> FromPybuffer(b)
      [] c \in {"linear_user", "ring_user", "normal_user"} -> SerializeLinear(b)
      [] c \in {"linear_runtime", "ring_runtime", "normal_runtime"} -> CreateLinear(b)
      [] c = "vectored_user" -> SerializeVectored(b) \cup {"payload"}
      [] c = "vectored_runtime" -> CreateVectored(b) \cup {"payload"}

Failing == Running /\ ~Overruns /\ todo # << >>

\* The kinds of blocks that NORMAL_BUF has before it falls through.
FirstKinds == {"payload", "linear0", "views0", "view0", "buffer0"}

\* serialize_buffers or make_buffers is at work.
FillsBoth ==
    \/ ctor \in FixedModes /\ heap # {}
    \/ ctor \in NormalModes /\ {<<"view0", items>>, <<"buffer0", items>>} \cap heap # {}

\* The constructor returns NULL.
Fail ==
    /\ Failing
    /\ ctor \notin Linear /\ ~FillsBoth
    /\ status' = "null"
    /\ heap' = IF heap = {} THEN {}
               ELSE {x \in heap : x[1] \notin GivesBack(ctor, Head(todo)[1])}
    /\ todo' = << >>
    /\ UNCHANGED <<ctor, items, fields, twice, undefined>>

\* get_or_create_linear_buffer does not look at the result: the caller goes on with
\* a payload whose linear was not set.
FailLinear ==
    /\ Failing
    /\ ctor \in Linear
    /\ status' = IF heap = {} THEN "null" ELSE "built"
    /\ undefined' = (heap # {})
    /\ heap' = {x \in heap : x[1] \notin GivesBack(ctor, Head(todo)[1])}
    /\ todo' = << >>
    /\ UNCHANGED <<ctor, items, fields, twice>>

\* serialize_buffers and make_buffers call free_buffer_payload: with a linear
\* array it looks at an amount and an origin that were not set; without one it
\* frees the payload alone.
FailBoth ==
    /\ Failing
    /\ FillsBoth
    /\ IF <<"linear", 0>> \in heap
         THEN /\ undefined' = TRUE
              /\ UNCHANGED <<ctor, items, todo, heap, status, fields, twice>>
         ELSE /\ status' = "null"
              /\ heap' = heap \ {<<"payload", 0>>}
              /\ todo' = << >>
              /\ UNCHANGED <<ctor, items, fields, twice, undefined>>

-----------------------------------------------------------------------------
(***************************************************************************)
(* free_buffer_payload.                                                     *)
(***************************************************************************)
Blocks(name, n) == {<<name, i>> : i \in 1 .. n}

LinearFrees(p) ==
    IF ~p.linear THEN {}
    ELSE {<<"linear", 0>>}
           \cup (IF p.runtime THEN Blocks("buffer", items) ELSE {})
           \cup (IF p.lviews THEN Blocks("view", items) \cup {<<"views", 0>>} ELSE {})

\* Mutant: the views of the vector are not released.
VectorForgetsViews(p) ==
    IF ~p.vector THEN {}
    ELSE {<<"vector", 0>>, <<"iovecs", 0>>}
           \cup (IF p.runtime THEN Blocks("buffer", items) ELSE {})

VectorFrees(p) ==
    IF ~p.vector THEN {}
    ELSE {<<"vector", 0>>, <<"iovecs", 0>>}
           \cup (IF p.runtime THEN Blocks("buffer", items) ELSE {})
           \cup (IF p.vviews = "set" THEN Blocks("view", items) \cup {<<"views", 0>>} ELSE {})

\* By the reader or a handler that gives up (force is FALSE), when the mode is
\* NORMAL_BUF; by UringioLoop_buffer_mode that gives up (force is TRUE).
FreePayload(force) ==
    /\ status = "built" /\ ~undefined
    /\ force <=> ctor \notin Handlers
    /\ status' = "freed"
    /\ heap' = heap \ (LinearFrees(fields) \cup VectorFrees(fields) \cup {<<"payload", 0>>})
    /\ twice' = LinearFrees(fields) \cap VectorFrees(fields)
    /\ undefined' = (fields.vector /\ fields.vviews = Unset)
    /\ UNCHANGED <<ctor, items, todo, fields>>

Next ==
    \/ NoBuffers \/ Acquire \/ Succeed
    \/ Fail \/ FailLinear \/ FailBoth
    \/ \E force \in BOOLEAN : FreePayload(force)

Spec == Init /\ [][Next]_vars

-----------------------------------------------------------------------------
\* What a constructor that returned NULL leaves behind.  Those of the operations
\* leave nothing, whichever step has failed, but for the view readv_raw and
\* writev_raw have taken before; create_buffer_payload leaves the payload, or the
\* views of a FIXED one, or all that NORMAL_BUF had before it fell through, with
\* the views of the FIXED payload that it was turning into.
FailureLeaks ==
    status = "null" =>
        heap \subseteq CASE ctor = "from_pybuffer" -> {<<"view", 1>>}
                         [] ctor \in RingModes -> {<<"payload", 0>>}
                         [] ctor = "fixed_user" -> {<<"views", 0>>}
                         [] ctor \in NormalModes ->
                              {b \in heap : b[1] \in FirstKinds \cup {"views"}}
                         [] OTHER -> {}

\* free_buffer_payload gives back all that the constructor of an operation has
\* acquired, views included, and nothing twice.  Buffers that make_buffers has put
\* into both arrays are freed twice, and what NORMAL_BUF had before it fell through
\* is lost.
FreedOnce ==
    status = "freed" =>
        /\ twice # {} => ctor \in {"fixed_runtime", "normal_runtime"}
        /\ heap # {} => ctor \in NormalModes
=============================================================================
