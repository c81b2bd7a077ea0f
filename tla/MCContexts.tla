----------------------------- MODULE MCContexts -----------------------------
(***************************************************************************)
(* The managers of the instances.                                           *)
(***************************************************************************)
EXTENDS Contexts

CONSTANTS F, X, R, Q, P, S, T, t1, t2

Manager(kind, mode, stream, transfer) ==
    [kind |-> kind, mode |-> mode, stream |-> stream, transfer |-> transfer]

MCAttr ==
    [m \in Managers |->
       CASE m = F -> Manager("buffer", "FIXED", "ONESHOT", "NORMAL")
         [] m \in {R, Q} -> Manager("buffer", "BUF_RING", "ONESHOT", "NORMAL")
         [] m = P -> Manager("buffer", "PROVIDED", "ONESHOT", "NORMAL")
         [] m = X -> Manager("exec", "FIXED", "MULTISHOT", "ZERO_COPY")
         [] m = S -> Manager("stream", "NORMAL", "MULTISHOT", "NORMAL")
         [] m = T -> Manager("transfer", "NORMAL", "ONESHOT", "ZERO_COPY")]
=============================================================================
