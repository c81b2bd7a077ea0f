----------------------------- MODULE MCRequests -----------------------------
(***************************************************************************)
(* Small instances of RequestLifecycle for TLC: the sets of operations the  *)
(* runs draw their calls from.                                              *)
(***************************************************************************)
EXTENDS RequestProperties, TLC

ReqSymmetry == Permutations(Reqs)

ZeroCopy == [DefaultContext EXCEPT !.transfer = "ZERO_COPY"]

\* Reading, writing and closing in the default context.
PlainCalls ==
    {UringioFile_read(DefaultContext), UringioSocket_send(DefaultContext),
     UringioSocket_close}

\* The operations with more than one CQE or more than one SQE, an operation that
\* is refused after its SQE was taken, and a plain one.
FaultCalls ==
    {UringioSocket_accept([DefaultContext EXCEPT !.stream = "MULTISHOT"]),
     UringioSocket_send(ZeroCopy),
     WithTimeout(UringioFile_read(DefaultContext), "optional"),
     WithTimeout(UringioFile_write, "required"),
     Uringio_prep_socket(FALSE), UringioSocket_close}

\* Every handler, in every execution context it can tell apart.
AllCalls ==
    {Uringio_open, UringioFile_close, UringioFile_aexit, UringioFile_readv_raw,
     UringioFile_write, UringioFile_writev, UringioFile_writev_raw,
     UringioFile_fsync, UringioFile_fdatasync, UringioFile_splice,
     UringioSocket_close, UringioSocket_aexit, UringioSocket_bind,
     UringioSocket_connect, UringioSocket_listen, UringioSocket_sendto}
    \cup {Uringio_prep_socket(domain_ok) : domain_ok \in BOOLEAN}
    \cup {UringioLoop_timer(is_multishot) : is_multishot \in BOOLEAN}
    \cup UNION {{UringioFile_read(ctx), UringioFile_readv(ctx),
                 UringioSocket_accept(ctx), UringioSocket_send(ctx),
                 UringioSocket_sendmsg(ctx), UringioSocket_recvmsg(ctx)}
                    : ctx \in ExecutionContexts}
    \cup {UringioSocket_recv(ctx, user_buffer) :
              ctx \in ExecutionContexts, user_buffer \in BOOLEAN}
    \cup {UringioSocket_recvfrom(ctx, user_buffer) :
              ctx \in ExecutionContexts, user_buffer \in BOOLEAN}

\* Reading a file with and without a timeout.
TimeoutCalls ==
    {UringioFile_read(DefaultContext),
     WithTimeout(UringioFile_read(DefaultContext), "optional")}

ZeroCopyCalls == {UringioSocket_send(ZeroCopy)}

ReadCalls == {UringioFile_read(DefaultContext)}
=============================================================================
