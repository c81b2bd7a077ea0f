-------------------------------- MODULE Ops ---------------------------------
(***************************************************************************)
(* The operations of uringio as data.  Every operation follows one course:  *)
(* a Python-layer handler (python_api/ops, python_api/timer) takes a slot,  *)
(* a dispatcher selects a C-layer function (ops) from the execution         *)
(* context, and the C-layer function prepares one SQE and submits it.       *)
(* This module says what distinguishes the operations; module               *)
(* RequestLifecycle says what the common course does.                       *)
(*                                                                          *)
(* Definitions have the names of the functions they stand for.              *)
(***************************************************************************)

(***************************************************************************)
(* An execution context, as the handlers read it from the ContextVar.       *)
(***************************************************************************)
BufferModes == {"NORMAL_BUF", "FIXED", "PROVIDED", "BUF_RING"}
StreamStrategies == {"ONESHOT", "MULTISHOT"}
TransferModes == {"NORMAL_TRANSFER", "ZERO_COPY"}

ExecutionContexts ==
    [mode : BufferModes, stream : StreamStrategies, transfer : TransferModes]

DefaultContext ==
    [mode |-> "NORMAL_BUF", stream |-> "ONESHOT", transfer |-> "NORMAL_TRANSFER"]

(***************************************************************************)
(* The C layer.  A template tells how many completions the prepared SQE     *)
(* yields and whether the kernel works on the buffers of the request:       *)
(*   oneshot    one CQE                                                     *)
(*   multishot  CQEs with F_MORE, then a last one without                   *)
(*   zerocopy   one CQE with F_MORE, then a notification                    *)
(* A crash template stands for a NULL pointer that is dereferenced.         *)
(***************************************************************************)
Template(shape, buffers) == [shape |-> shape, buffers |-> buffers]

open_file                     == Template("oneshot", FALSE)
uringio_read                  == Template("oneshot", TRUE)
uringio_readv                 == Template("oneshot", TRUE)
uringio_write                 == Template("oneshot", TRUE)
uringio_writev                == Template("oneshot", TRUE)
uringio_close_file            == Template("oneshot", FALSE)
uringio_fsync                 == Template("oneshot", FALSE)
uringio_fdatasync             == Template("oneshot", FALSE)
uringio_splice                == Template("oneshot", FALSE)
uringio_read_fixed            == Template("oneshot", TRUE)
uringio_write_fixed           == Template("oneshot", TRUE)
uringio_read_multishot        == Template("multishot", TRUE)
uringio_read_buffer_select    == Template("oneshot", TRUE)
uringio_readv_buffer_select   == Template("oneshot", TRUE)

prep_socket                   == Template("oneshot", FALSE)
uringio_bind                  == Template("oneshot", FALSE)
uringio_connect               == Template("oneshot", FALSE)
uringio_listen                == Template("oneshot", FALSE)
uringio_accept                == Template("oneshot", FALSE)
uringio_close_socket          == Template("oneshot", FALSE)
uringio_send                  == Template("oneshot", TRUE)
uringio_recv                  == Template("oneshot", TRUE)
uringio_sendto                == Template("oneshot", TRUE)
uringio_recvfrom              == Template("oneshot", TRUE)
uringio_sendmsg               == Template("oneshot", TRUE)
uringio_recvmsg               == Template("oneshot", TRUE)
uringio_accept_multishot      == Template("multishot", FALSE)
uringio_recv_multishot        == Template("multishot", TRUE)
uringio_recv_buffer_select    == Template("oneshot", TRUE)
uringio_send_zc               == Template("zerocopy", TRUE)
uringio_send_zc_fixed         == Template("zerocopy", TRUE)
NullDereference               == Template("crash", FALSE)

timer(is_multishot) ==
    Template(IF is_multishot THEN "multishot" ELSE "oneshot", FALSE)

-----------------------------------------------------------------------------
(***************************************************************************)
(* The payload of an operation.  "own" is allocated by the handler, in mode *)
(* NORMAL_BUF; "ctx" is the payload of the execution context, shared by all *)
(* operations of that context.                                              *)
(***************************************************************************)

\* The payload of a NORMAL_BUF context has type LINEAR_AND_IOVEC, so that
\* neither function takes it; user_buffer: the caller passed a buffer.
get_or_create_linear_buffer(ctx, user_buffer) ==
    IF ctx.mode # "NORMAL_BUF" /\ ~user_buffer THEN "ctx" ELSE "own"

\* No context has a payload of type IOVEC.
get_or_create_vectored_buffer == "own"

PayloadMode(ctx, payload) ==
    IF payload = "ctx" THEN ctx.mode ELSE "NORMAL_BUF"

(***************************************************************************)
(* The dispatchers: the C-layer function that is called for a payload.      *)
(***************************************************************************)
read_dispatcher(ctx, payload) ==
    LET mode == PayloadMode(ctx, payload) IN
    CASE mode = "FIXED" -> uringio_read_fixed
      [] mode \in {"PROVIDED", "BUF_RING"} /\ ctx.stream = "MULTISHOT"
           -> uringio_read_multishot
      [] mode \in {"PROVIDED", "BUF_RING"} /\ ctx.stream # "MULTISHOT"
           -> uringio_read_buffer_select
      [] OTHER -> uringio_read

readv_dispatcher(ctx, payload) ==
    IF PayloadMode(ctx, payload) \in {"PROVIDED", "BUF_RING"}
      THEN uringio_readv_buffer_select
      ELSE uringio_readv

\* The payload of a write is always the handler's own.
write_dispatcher == uringio_write

accept_dispatcher(ctx) ==
    IF ctx.stream = "MULTISHOT" THEN uringio_accept_multishot ELSE uringio_accept

recv_dispatcher(ctx, payload) ==
    LET mode == PayloadMode(ctx, payload) IN
    CASE mode \in {"PROVIDED", "BUF_RING"} /\ ctx.stream = "MULTISHOT"
           -> uringio_recv_multishot
      [] mode \in {"PROVIDED", "BUF_RING"} /\ ctx.stream # "MULTISHOT"
           -> uringio_recv_buffer_select
      [] OTHER -> uringio_recv

\* The payload of a recvmsg is always the handler's own, in mode NORMAL_BUF.
recvmsg_dispatcher == uringio_recvmsg

\* The payload of a send is always the handler's own.
send_dispatcher(ctx) ==
    IF ctx.transfer = "ZERO_COPY" THEN uringio_send_zc ELSE uringio_send

\* With ZERO_COPY get_buffer_idx is called on the idx_registry of the payload,
\* which the handler's own payload does not have.
sendmsg_dispatcher(ctx) ==
    IF ctx.transfer = "ZERO_COPY" THEN NullDereference ELSE uringio_sendmsg

-----------------------------------------------------------------------------
(***************************************************************************)
(* The Python-layer handlers, for a given execution context:                *)
(*   target         "file", "socket": the object the method is called on;   *)
(*                  "new": the handler creates it; "none": a timer          *)
(*   opcode, stream what the handler stores in the slot                     *)
(*   payload        "own", "ctx" or "none"                                  *)
(*   slotted        the slot refers to the payload                          *)
(*   checks_closed  the handler raises BrokenPipeError on a closed target   *)
(*   marks_closed   the handler sets `closed' before it submits, and resets *)
(*                  it when the submission fails                            *)
(*   closes         the SQE closes the descriptor of the target             *)
(*   sqe            the template of the SQE                                 *)
(*   timeout        "none", "optional", "required": timeout_params          *)
(*   bad_domain     prep_socket refuses the domain                          *)
(***************************************************************************)
Operation(target, opcode, payload, stream, sqe) ==
    [target |-> target, opcode |-> opcode, payload |-> payload,
     slotted |-> payload # "none", stream |-> stream, sqe |-> sqe,
     checks_closed |-> target \in {"file", "socket"},
     marks_closed |-> FALSE, closes |-> FALSE,
     timeout |-> "none", bad_domain |-> FALSE]

FileOp(opcode, payload, sqe) == Operation("file", opcode, payload, "ONESHOT", sqe)
SocketOp(opcode, payload, sqe) == Operation("socket", opcode, payload, "ONESHOT", sqe)

Uringio_open == Operation("new", "OPENAT2", "none", "ONESHOT", open_file)

UringioFile_close ==
    [FileOp("CLOSE", "none", uringio_close_file) EXCEPT !.closes = TRUE]

UringioFile_aexit ==
    [UringioFile_close EXCEPT !.checks_closed = FALSE, !.marks_closed = TRUE]

UringioFile_read(ctx) ==
    LET payload == get_or_create_linear_buffer(ctx, FALSE) IN
    Operation("file", "READ", payload, ctx.stream, read_dispatcher(ctx, payload))

UringioFile_readv(ctx) ==
    LET payload == IF ctx.mode \in {"PROVIDED", "BUF_RING"}
                     THEN "ctx" ELSE get_or_create_vectored_buffer
    IN  FileOp("READV", payload, readv_dispatcher(ctx, payload))

UringioFile_readv_raw == FileOp("READV", "own", uringio_readv)
UringioFile_write == FileOp("WRITE", "own", write_dispatcher)
UringioFile_writev == FileOp("WRITEV", get_or_create_vectored_buffer, uringio_writev)
UringioFile_writev_raw == FileOp("WRITEV", "own", uringio_writev)
UringioFile_fsync == FileOp("FSYNC", "none", uringio_fsync)
UringioFile_fdatasync == FileOp("FSYNC", "none", uringio_fdatasync)
UringioFile_splice == FileOp("SPLICE", "none", uringio_splice)

Uringio_prep_socket(domain_ok) ==
    [Operation("new", "SOCKET", "none", "ONESHOT", prep_socket)
        EXCEPT !.bad_domain = ~domain_ok]

\* Mutant: `closed' is set only when the CQE has arrived, as for a file.
SocketCloseMarksLate ==
    [SocketOp("CLOSE", "none", uringio_close_socket) EXCEPT !.closes = TRUE]

UringioSocket_close ==
    [SocketOp("CLOSE", "none", uringio_close_socket)
        EXCEPT !.closes = TRUE, !.marks_closed = TRUE]

UringioSocket_aexit == [UringioSocket_close EXCEPT !.checks_closed = FALSE]

UringioSocket_bind == SocketOp("BIND", "none", uringio_bind)
UringioSocket_connect == SocketOp("CONNECT", "none", uringio_connect)
UringioSocket_listen == SocketOp("LISTEN", "none", uringio_listen)

UringioSocket_accept(ctx) ==
    Operation("socket", "ACCEPT", "none", ctx.stream, accept_dispatcher(ctx))

UringioSocket_send(ctx) == SocketOp("SEND", "own", send_dispatcher(ctx))

UringioSocket_recv(ctx, user_buffer) ==
    LET payload == get_or_create_linear_buffer(ctx, user_buffer) IN
    Operation("socket", "RECV", payload, ctx.stream, recv_dispatcher(ctx, payload))

\* The slot of a sendto does not refer to the payload: nobody frees it.
UringioSocket_sendto ==
    [SocketOp("SENDMSG", "own", uringio_sendto) EXCEPT !.slotted = FALSE]

UringioSocket_recvfrom(ctx, user_buffer) ==
    SocketOp("RECVMSG", get_or_create_linear_buffer(ctx, user_buffer), uringio_recvfrom)

UringioSocket_sendmsg(ctx) ==
    SocketOp("SENDMSG", get_or_create_vectored_buffer, sendmsg_dispatcher(ctx))

UringioSocket_recvmsg(ctx) ==
    Operation("socket", "RECVMSG", get_or_create_vectored_buffer, ctx.stream,
              recvmsg_dispatcher)

UringioLoop_timer(is_multishot) ==
    Operation("none", "TIMEOUT", "none", "ONESHOT", timer(is_multishot))

\* parse_timeout_params: no params, or params with is_required FALSE or TRUE.
WithTimeout(op, t) == [op EXCEPT !.timeout = t]

Operations ==
    [target : {"file", "socket", "new", "none"},
     opcode : {"OPENAT2", "CLOSE", "READ", "READV", "WRITE", "WRITEV", "FSYNC",
               "SPLICE", "SOCKET", "BIND", "CONNECT", "LISTEN", "ACCEPT", "SEND",
               "RECV", "SENDMSG", "RECVMSG", "TIMEOUT"},
     payload : {"own", "ctx", "none"}, slotted : BOOLEAN,
     stream : StreamStrategies,
     sqe : [shape : {"oneshot", "multishot", "zerocopy", "crash"},
            buffers : BOOLEAN],
     checks_closed : BOOLEAN, marks_closed : BOOLEAN, closes : BOOLEAN,
     timeout : {"none", "optional", "required"}, bad_domain : BOOLEAN]

(***************************************************************************)
(* What the handlers have in common: only a file or a socket is closed, the *)
(* payload that a WRITE frees with force is the handler's own, and an SQE   *)
(* with many CQEs works on the buffers of the context, if on any.           *)
(***************************************************************************)
Consistent(op) ==
    /\ op.closes => op.target \in {"file", "socket"}
    /\ op.opcode = "WRITE" => op.payload # "ctx"
    /\ op.sqe.shape = "multishot" /\ op.sqe.buffers => op.payload = "ctx"

(***************************************************************************)
(* The operations whose SQE yields exactly one CQE and carries no linked    *)
(* timeout: the part of the interface without the optional features.        *)
(***************************************************************************)
Plain(op) == op.sqe.shape = "oneshot" /\ op.timeout = "none" /\ ~op.bad_domain
=============================================================================
