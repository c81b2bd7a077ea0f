---------------------------- MODULE ContextsProofs ----------------------------
(***************************************************************************)
(* What holds of Contexts for every set of tasks and managers, however they *)
(* were created, and however many blocks are open.                          *)
(***************************************************************************)
EXTENDS Contexts, TLAPS

PayloadState == [vector : BOOLEAN,
                 idx_registry : {"none", "live", "destroyed"},
                 buf_ring : BOOLEAN]

TypeInv ==
    /\ var \in [Tasks -> ExecutionContext \cup {Null, None}]
    /\ base \in [Tasks -> ExecutionContext \cup {Null, None}]
    /\ blocks \in [Tasks -> Seq(Managers)]
    /\ token \in [Managers -> Token \cup {Null}]
    /\ pay \in [Managers -> PayloadState]
    /\ kernel \in [table : Managers \cup {Null}, ring : Managers \cup {Null}]
    /\ misused \in BOOLEAN /\ undefined \in BOOLEAN

\* A block of a manager that was entered once: the manager's token is its own.
OwnBlocks(m) ==
    \A t \in Tasks : \A k \in DOMAIN blocks[t] : blocks[t][k] = m =>
        /\ token[m] # Null /\ token[m].task = t
        /\ \A u \in Tasks : \A j \in DOMAIN blocks[u] : blocks[u][j] = m => u = t /\ j = k

\* A manager is entered again only by misuse, and a FIXED one never.
BlockInv ==
    /\ \A m \in Managers : (~misused \/ Fixed(m)) => OwnBlocks(m)
    /\ \A m \in Managers : Active(m) /\ Attr[m].kind = "exec" => m \in spent

\* A task that has not started is in no block, and only an ExecutionContextCtx was
\* entered without a current context.
VarInv ==
    /\ \A t \in Tasks : var[t] = Null => blocks[t] = << >>
    /\ \A m \in Managers :
          token[m] # Null /\ Attr[m].kind # "exec" => token[m].old # None

\* The vector, the index stack and the table of FIXED payloads go together.
FixedInv ==
    /\ \A m \in Managers :
         /\ Fixed(m) => (pay[m].vector <=> pay[m].idx_registry = "none")
         /\ pay[m].idx_registry # "none" => Fixed(m)
         /\ pay[m].idx_registry = "live" =>
                kernel.table = m /\ (Active(m) \/ Attr[m].kind = "exec")
         /\ Fixed(m) /\ Active(m) => pay[m].idx_registry = "live"
    /\ kernel.table # Null => pay[kernel.table].idx_registry # "destroyed"

\* A ring is in use while its block is open, and an ExecutionContextCtx keeps it.
RingInv ==
    ~misused => \A m \in Managers :
        /\ pay[m].buf_ring <=> kernel.ring = m
        /\ pay[m].buf_ring => (Active(m) \/ Spent(m)) /\ Attr[m].mode = "BUF_RING"

Inv ==
    /\ TypeInv
    /\ BlockInv
    /\ VarInv
    /\ FixedInv
    /\ RingInv
    /\ ContextIsInnermost
    /\ NoUndefined

-----------------------------------------------------------------------------
(***************************************************************************)
(* Entering a block.                                                        *)
(***************************************************************************)
\* What __enter__ puts in the ContextVar is a context.
LEMMA InsideIsContext ==
    ASSUME NEW m \in Managers, NEW ctx \in ExecutionContext \cup {None},
           Attr[m].kind # "exec" => ctx # None
    PROVE  Inside(m, ctx) \in ExecutionContext
<1>1. /\ Attr[m].kind \in {"buffer", "stream", "transfer", "exec"}
      /\ Attr[m].stream \in {"ONESHOT", "MULTISHOT"}
      /\ Attr[m].transfer \in {"NORMAL", "ZERO_COPY"}
  BY AttrAssumption
<1>2. CASE Attr[m].kind = "buffer"
  BY <1>2 DEF Inside, ExecutionContext
<1>3. CASE Attr[m].kind = "stream"
  BY <1>1, <1>3 DEF Inside, ExecutionContext
<1>4. CASE Attr[m].kind = "transfer"
  BY <1>1, <1>4 DEF Inside, ExecutionContext
<1>5. CASE Attr[m].kind = "exec"
  BY <1>1, <1>5 DEF Inside, ExecutionContext
<1> QED BY <1>1, <1>2, <1>3, <1>4, <1>5

\* The blocks after one was entered.
LEMMA EnteredBlocks ==
    ASSUME TypeInv, NEW t \in Tasks, NEW m \in Managers, Entered(t, m)
    PROVE  /\ blocks' \in [Tasks -> Seq(Managers)]
           /\ \A u \in Tasks \ {t} : blocks'[u] = blocks[u]
           /\ Len(blocks'[t]) = Len(blocks[t]) + 1
           /\ \A k \in DOMAIN blocks[t] : k \in DOMAIN blocks'[t] /\ blocks'[t][k] = blocks[t][k]
           /\ \A k \in DOMAIN blocks'[t] :
                 k \in DOMAIN blocks[t] \/ (k = Len(blocks[t]) + 1 /\ blocks'[t][k] = m)
           /\ blocks'[t][Len(blocks[t]) + 1] = m
           /\ \A n \in Managers : Active(n)' <=> Active(n) \/ n = m
<1>1. /\ blocks \in [Tasks -> Seq(Managers)]
      /\ blocks' = [blocks EXCEPT ![t] = Append(@, m)]
  BY DEF TypeInv, Entered
<1>2. blocks'[t] = Append(blocks[t], m) /\ \A u \in Tasks \ {t} : blocks'[u] = blocks[u]
  BY <1>1
<1>3. blocks' \in [Tasks -> Seq(Managers)]
  BY <1>1
<1>4. /\ Len(blocks'[t]) = Len(blocks[t]) + 1
      /\ \A k \in DOMAIN blocks[t] : k \in DOMAIN blocks'[t] /\ blocks'[t][k] = blocks[t][k]
      /\ \A k \in DOMAIN blocks'[t] :
            k \in DOMAIN blocks[t] \/ (k = Len(blocks[t]) + 1 /\ blocks'[t][k] = m)
      /\ Len(blocks[t]) + 1 \in DOMAIN blocks'[t]
      /\ blocks'[t][Len(blocks[t]) + 1] = m
  BY <1>1, <1>2
<1>5. ASSUME NEW n \in Managers PROVE Active(n)' <=> Active(n) \/ n = m
  <2>1. ASSUME Active(n) PROVE Active(n)'
    BY <2>1, <1>2, <1>4 DEF Active
  <2>2. ASSUME n = m PROVE Active(n)'
    BY <2>2, <1>4 DEF Active
  <2>3. ASSUME Active(n)', n # m PROVE Active(n)
    <3>1. PICK u \in Tasks : \E k \in DOMAIN blocks'[u] : blocks'[u][k] = n
      BY <2>3 DEF Active
    <3>2. CASE u = t
      BY <3>1, <3>2, <2>3, <1>4 DEF Active
    <3>3. CASE u # t
      BY <3>1, <3>3, <1>2 DEF Active
    <3> QED BY <3>2, <3>3
  <2> QED BY <2>1, <2>2, <2>3
<1> QED BY <1>2, <1>3, <1>4, <1>5

\* Entering a block keeps the invariant's parts about blocks, tokens and contexts.
LEMMA EnteredKeeps ==
    ASSUME Inv, NEW t \in Tasks, NEW m \in Managers, MayEnter(t, m), Entered(t, m),
           Fixed(m) => ~Active(m)
    PROVE  /\ var' \in [Tasks -> ExecutionContext \cup {Null, None}]
           /\ base' \in [Tasks -> ExecutionContext \cup {Null, None}]
           /\ token' \in [Managers -> Token \cup {Null}]
           /\ misused' \in BOOLEAN /\ undefined' \in BOOLEAN
           /\ BlockInv' /\ VarInv' /\ ContextIsInnermost' /\ NoUndefined'
<1> USE DEF Inv
<1>1. /\ ~undefined /\ ~misused /\ var[t] # Null
      /\ var' = [var EXCEPT ![t] = Inside(m, var[t])]
      /\ token' = [token EXCEPT ![m] = [task |-> t, old |-> var[t]]]
      /\ base' = base /\ undefined' = undefined
      /\ misused' = (misused \/ Active(m))
      /\ Spend(m)
  BY DEF MayEnter, Entered
<1>2. /\ var[t] \in ExecutionContext \cup {None}
      /\ Attr[m].kind # "exec" => var[t] # None
  BY <1>1 DEF TypeInv, MayEnter
<1>3. Inside(m, var[t]) \in ExecutionContext
  BY <1>2, InsideIsContext
<1>4. /\ var' \in [Tasks -> ExecutionContext \cup {Null, None}]
      /\ base' \in [Tasks -> ExecutionContext \cup {Null, None}]
      /\ misused' \in BOOLEAN /\ undefined' \in BOOLEAN
  BY <1>1, <1>3 DEF TypeInv, Active
<1>5. [task |-> t, old |-> var[t]] \in Token
  BY <1>2 DEF Token
<1>6. /\ token' \in [Managers -> Token \cup {Null}]
      /\ token'[m] = [task |-> t, old |-> var[t]]
      /\ token'[m].task = t /\ token'[m].old = var[t]
      /\ \A n \in Managers \ {m} : token'[n] = token[n]
  BY <1>1, <1>5 DEF TypeInv
<1>7. token'[m] # Null
  BY <1>5, <1>6, NullAssumption
<1>8. BlockInv'
  <2>1. ASSUME NEW n \in Managers, ~misused' \/ Fixed(n) PROVE OwnBlocks(n)'
    <3>1. CASE n = m
      <4>1. ~Active(m)
        BY <2>1, <3>1, <1>1
      <4>2. \A u \in Tasks : \A k \in DOMAIN blocks'[u] : blocks'[u][k] = m =>
               u = t /\ k = Len(blocks[t]) + 1
        BY <4>1, EnteredBlocks DEF Active
      <4> QED BY <3>1, <4>2, <1>6, <1>7 DEF OwnBlocks
    <3>2. CASE n # m
      <4>1. OwnBlocks(n)
        BY <2>1, <1>1 DEF BlockInv
      <4>2. \A u \in Tasks : \A k \in DOMAIN blocks'[u] : blocks'[u][k] = n =>
               k \in DOMAIN blocks[u] /\ blocks[u][k] = n
        BY <3>2, EnteredBlocks
      <4> QED BY <3>2, <4>1, <4>2, <1>6 DEF OwnBlocks
    <3> QED BY <3>1, <3>2
  <2>2. ASSUME NEW n \in Managers, Active(n)', Attr[n].kind = "exec" PROVE n \in spent'
    BY <2>2, <1>1, EnteredBlocks DEF Spend, BlockInv
  <2> QED BY <2>1, <2>2 DEF BlockInv, Fixed
<1>9. VarInv'
  <2>1. ASSUME NEW u \in Tasks, var'[u] = Null PROVE blocks'[u] = << >>
    BY <2>1, <1>1, <1>3, EnteredBlocks, NullAssumption DEF VarInv, TypeInv
  <2>2. ASSUME NEW n \in Managers, token'[n] # Null, Attr[n].kind # "exec"
        PROVE  token'[n].old # None
    BY <2>2, <1>2, <1>6 DEF VarInv
  <2> QED BY <2>1, <2>2 DEF VarInv
<1>10. ContextIsInnermost'
  <2>1. SUFFICES ASSUME ~misused', NEW u \in Tasks
                 PROVE  /\ Before(u, 1)' = base'[u]
                        /\ \A k \in DOMAIN blocks'[u] :
                              Before(u, k + 1)' = Inside(blocks'[u][k], Before(u, k)')
    BY DEF ContextIsInnermost, Inside
  <2>2. /\ Before(u, 1) = base[u]
        /\ \A k \in DOMAIN blocks[u] : Before(u, k + 1) = Inside(blocks[u][k], Before(u, k))
    BY <1>1 DEF ContextIsInnermost
  <2>3. ~Active(m)
    BY <2>1, <1>1
  <2>4. blocks[u] \in Seq(Managers)
    BY DEF TypeInv
  <2>5. \A k \in DOMAIN blocks[u] : Before(u, k)' = Before(u, k)
    BY <2>3, <2>4, <1>6, EnteredBlocks DEF Before, Active
  <2>6. CASE u # t
    <3>1. blocks'[u] = blocks[u] /\ var'[u] = var[u] /\ base'[u] = base[u]
      BY <2>6, <1>1, EnteredBlocks DEF TypeInv
    <3>2. \A k \in Nat : Before(u, k)' = Before(u, k)
      BY <3>1, <2>5 DEF Before
    <3> QED BY <2>2, <2>4, <3>1, <3>2
  <2>7. CASE u = t
    <3>0. PICK l \in Nat : l = Len(blocks[t])
      BY <2>4, <2>7
    <3>1. l \in Nat /\ DOMAIN blocks[t] = 1 .. l /\ DOMAIN blocks'[t] = 1 .. l + 1
      <4>1. blocks'[t] \in Seq(Managers)
        BY EnteredBlocks
      <4> QED BY <4>1, <3>0, <2>4, <2>7, EnteredBlocks
    <3>2. Before(t, l + 1) = var[t]
      BY <3>1 DEF Before
    <3>3. Before(t, l + 1)' = var[t]
      BY <3>0, <3>1, <1>6, EnteredBlocks DEF Before
    <3>4. Before(t, l + 2)' = Inside(m, var[t])
      BY <3>1, <1>1 DEF Before, TypeInv
    <3>5. \A k \in 1 .. l + 1 : Before(t, k)' = Before(t, k)
      BY <2>5, <2>7, <3>1, <3>2, <3>3
    <3>6. Before(t, 1)' = base'[t]
      BY <3>1, <3>5, <2>2, <2>7, <1>1
    <3>7. ASSUME NEW k \in 1 .. l + 1
          PROVE  Before(t, k + 1)' = Inside(blocks'[t][k], Before(t, k)')
      <4>1. CASE k = l + 1
        BY <4>1, <3>0, <3>1, <3>3, <3>4, EnteredBlocks
      <4>2. CASE k \in 1 .. l
        <5>1. /\ k + 1 \in 1 .. l + 1 /\ k \in 1 .. l + 1
              /\ blocks'[t][k] = blocks[t][k]
          BY <4>2, <3>1, EnteredBlocks
        <5> QED BY <5>1, <4>2, <3>1, <3>5, <2>2, <2>7
      <4> QED BY <4>1, <4>2, <3>1
    <3> QED BY <2>7, <3>1, <3>6, <3>7
  <2> QED BY <2>6, <2>7
<1>11. NoUndefined'
  BY <1>1 DEF NoUndefined
<1> QED BY <1>4, <1>6, <1>8, <1>9, <1>10, <1>11

-----------------------------------------------------------------------------
(***************************************************************************)
(* Leaving a block.                                                         *)
(***************************************************************************)
\* The blocks after the innermost one was left.
LEMMA LeftBlocks ==
    ASSUME TypeInv, NEW t \in Tasks, Leave(t)
    PROVE  LET m == Last(blocks[t]) IN
           /\ m \in Managers
           /\ blocks' \in [Tasks -> Seq(Managers)]
           /\ \A u \in Tasks \ {t} : blocks'[u] = blocks[u]
           /\ Len(blocks[t]) \in DOMAIN blocks[t] /\ blocks[t][Len(blocks[t])] = m
           /\ DOMAIN blocks'[t] = DOMAIN blocks[t] \ {Len(blocks[t])}
           /\ \A k \in DOMAIN blocks'[t] : blocks'[t][k] = blocks[t][k]
           /\ token' = [token EXCEPT ![m] = Null]
           /\ \A n \in Managers : Active(n)' => Active(n)
           /\ \A n \in Managers \ {m} : Active(n) => Active(n)'
<1> DEFINE m == Last(blocks[t])
<1>1. /\ blocks \in [Tasks -> Seq(Managers)]
      /\ blocks[t] # << >>
      /\ blocks' = [blocks EXCEPT ![t] = Front(@)]
      /\ token' = [token EXCEPT ![m] = Null]
  BY DEF TypeInv, Leave
<1>2. /\ Len(blocks[t]) \in DOMAIN blocks[t] /\ blocks[t][Len(blocks[t])] = m
      /\ m \in Managers
  BY <1>1 DEF Last
<1>3. /\ Front(blocks[t]) \in Seq(Managers)
      /\ DOMAIN Front(blocks[t]) = DOMAIN blocks[t] \ {Len(blocks[t])}
      /\ \A k \in DOMAIN Front(blocks[t]) : Front(blocks[t])[k] = blocks[t][k]
  BY <1>1 DEF Front
<1>4. blocks'[t] = Front(blocks[t]) /\ \A u \in Tasks \ {t} : blocks'[u] = blocks[u]
  BY <1>1
<1>5. blocks' \in [Tasks -> Seq(Managers)]
  BY <1>1, <1>3
<1>6. \A u \in Tasks : \A k \in DOMAIN blocks'[u] :
         k \in DOMAIN blocks[u] /\ blocks'[u][k] = blocks[u][k]
  BY <1>3, <1>4
<1>7. \A n \in Managers : Active(n)' => Active(n)
  BY <1>6 DEF Active
<1>8. ASSUME NEW n \in Managers \ {m}, Active(n) PROVE Active(n)'
  <2>1. PICK u \in Tasks : \E k \in DOMAIN blocks[u] : blocks[u][k] = n
    BY <1>8 DEF Active
  <2>2. PICK k \in DOMAIN blocks[u] : blocks[u][k] = n
    BY <2>1
  <2>3. k \in DOMAIN blocks'[u] /\ blocks'[u][k] = n
    BY <2>2, <1>2, <1>3, <1>4
  <2> QED BY <2>3 DEF Active
<1> QED BY <1>1, <1>2, <1>3, <1>4, <1>5, <1>7, <1>8

\* The block that is left was the only one of its manager, unless it was misused.
LEMMA LeftOnlyBlock ==
    ASSUME Inv, NEW t \in Tasks, Leave(t), NEW m \in Managers, m = Last(blocks[t]),
           ~misused \/ Fixed(m)
    PROVE  ~Active(m)' /\ ResetWorks(t, m)
<1>1. TypeInv
  BY DEF Inv
<1>2. OwnBlocks(m)
  BY <1>1 DEF Inv, BlockInv
<1>3. ASSUME NEW u \in Tasks, NEW k \in DOMAIN blocks'[u] PROVE blocks'[u][k] # m
  BY <1>1, <1>2, LeftBlocks DEF OwnBlocks
<1>4. ~Active(m)'
  BY <1>3 DEF Active
<1>5. ResetWorks(t, m)
  BY <1>1, <1>2, LeftBlocks DEF OwnBlocks, ResetWorks
<1> QED BY <1>4, <1>5

\* Leaving a block keeps the parts about blocks and tokens.
LEMMA LeftKeeps ==
    ASSUME Inv, NEW t \in Tasks, Leave(t)
    PROVE  /\ base' \in [Tasks -> ExecutionContext \cup {Null, None}]
           /\ token' \in [Managers -> Token \cup {Null}]
           /\ misused' \in BOOLEAN /\ undefined' \in BOOLEAN
           /\ BlockInv' /\ NoUndefined'
<1> DEFINE m == Last(blocks[t])
<1>1. /\ TypeInv /\ m \in Managers
      /\ base' = base /\ spent' = spent /\ misused' = misused /\ undefined' = undefined
      /\ token' = [token EXCEPT ![m] = Null]
  BY LeftBlocks DEF Inv, Leave
<1>2. \A n \in Managers \ {m} : token'[n] = token[n]
  BY <1>1 DEF TypeInv
<1>3. ASSUME NEW n \in Managers, ~misused' \/ Fixed(n) PROVE OwnBlocks(n)'
  <2>1. CASE n = m
    <3>1. ~Active(n)'
      BY <1>1, <1>3, <2>1, LeftOnlyBlock
    <3> QED BY <3>1 DEF OwnBlocks, Active
  <2>2. CASE n # m
    <3>1. OwnBlocks(n)
      BY <1>1, <1>3 DEF Inv, BlockInv
    <3>2. \A u \in Tasks : \A k \in DOMAIN blocks'[u] :
             k \in DOMAIN blocks[u] /\ blocks'[u][k] = blocks[u][k]
      BY <1>1, LeftBlocks
    <3>3. token'[n] = token[n]
      BY <1>2, <2>2
    <3> QED BY <3>1, <3>2, <3>3 DEF OwnBlocks
  <2> QED BY <2>1, <2>2
<1>4. \A n \in Managers : Active(n)' => Active(n)
  BY <1>1, LeftBlocks
<1>5. BlockInv'
  BY <1>1, <1>3, <1>4 DEF Inv, BlockInv, Fixed
<1>6. NoUndefined'
  BY <1>1 DEF Leave, NoUndefined
<1> QED BY <1>1, <1>5, <1>6 DEF Inv, TypeInv

\* Putting back the context that the token of the block holds.
LEMMA ResetKeeps ==
    ASSUME Inv, NEW t \in Tasks, Leave(t), ResetWorks(t, Last(blocks[t])),
           var' = [var EXCEPT ![t] = token[Last(blocks[t])].old]
    PROVE  /\ var' \in [Tasks -> ExecutionContext \cup {Null, None}]
           /\ VarInv' /\ ContextIsInnermost'
<1> DEFINE m == Last(blocks[t])
<1>1. /\ TypeInv /\ m \in Managers /\ token[m] # Null
      /\ base' = base /\ misused' = misused
      /\ token' = [token EXCEPT ![m] = Null]
  BY LeftBlocks DEF Inv, Leave, ResetWorks
<1>2. token[m].old \in ExecutionContext \cup {None}
  BY <1>1 DEF TypeInv, Token
<1>3. /\ var' \in [Tasks -> ExecutionContext \cup {Null, None}]
      /\ var'[t] = token[m].old
      /\ \A u \in Tasks \ {t} : var'[u] = var[u]
  BY <1>1, <1>2 DEF TypeInv
<1>4. VarInv'
  <2>1. ASSUME NEW u \in Tasks, var'[u] = Null PROVE blocks'[u] = << >>
    BY <2>1, <1>1, <1>2, <1>3, LeftBlocks, NullAssumption DEF Inv, VarInv
  <2>2. ASSUME NEW n \in Managers, token'[n] # Null, Attr[n].kind # "exec"
        PROVE  token'[n].old # None
    BY <2>2, <1>1 DEF Inv, VarInv, TypeInv
  <2> QED BY <2>1, <2>2 DEF VarInv
<1>5. ContextIsInnermost'
  <2>1. SUFFICES ASSUME ~misused', NEW u \in Tasks
                 PROVE  /\ Before(u, 1)' = base'[u]
                        /\ \A k \in DOMAIN blocks'[u] :
                              Before(u, k + 1)' = Inside(blocks'[u][k], Before(u, k)')
    BY DEF ContextIsInnermost, Inside
  <2>2. /\ Before(u, 1) = base[u]
        /\ \A k \in DOMAIN blocks[u] : Before(u, k + 1) = Inside(blocks[u][k], Before(u, k))
    BY <1>1, <2>1 DEF Inv, ContextIsInnermost
  <2>3. \A k \in DOMAIN blocks'[u] :
           /\ k \in DOMAIN blocks[u] /\ blocks'[u][k] = blocks[u][k]
           /\ blocks[u][k] \in Managers \ {m}
    <3>1. OwnBlocks(m)
      BY <1>1, <2>1 DEF Inv, BlockInv
    <3>2. \A k \in DOMAIN blocks'[u] :
             /\ k \in DOMAIN blocks[u] /\ blocks'[u][k] = blocks[u][k]
             /\ u = t => k # Len(blocks[t])
      BY <1>1, LeftBlocks
    <3>3. Len(blocks[t]) \in DOMAIN blocks[t] /\ blocks[t][Len(blocks[t])] = m
      BY <1>1, LeftBlocks
    <3>4. \A k \in DOMAIN blocks'[u] : blocks[u][k] # m
      BY <3>1, <3>2, <3>3 DEF OwnBlocks
    <3>5. \A k \in DOMAIN blocks[u] : blocks[u][k] \in Managers
      BY <1>1 DEF TypeInv
    <3> QED BY <3>2, <3>4, <3>5
  <2>4. \A k \in DOMAIN blocks'[u] : Before(u, k)' = Before(u, k)
    BY <1>1, <2>3 DEF Before, TypeInv
  <2>5. \A k \in DOMAIN blocks'[u] : Before(u, k + 1)' = Before(u, k + 1)
    <3> SUFFICES ASSUME NEW k \in DOMAIN blocks'[u] PROVE Before(u, k + 1)' = Before(u, k + 1)
      OBVIOUS
    <3>1. CASE k + 1 \in DOMAIN blocks'[u]
      BY <3>1, <2>4
    <3>2. CASE k + 1 \notin DOMAIN blocks'[u] /\ u # t
      BY <3>2, <1>1, <1>3, LeftBlocks DEF Before
    <3>3. CASE k + 1 \notin DOMAIN blocks'[u] /\ u = t
      <4>1. k + 1 = Len(blocks[t]) /\ k + 1 \in DOMAIN blocks[t] /\ blocks[t][k + 1] = m
        <5>1. blocks[t] \in Seq(Managers)
          BY <1>1 DEF TypeInv
        <5> QED BY <5>1, <3>3, <1>1, LeftBlocks
      <4> QED BY <3>3, <4>1, <1>3 DEF Before
    <3> QED BY <3>1, <3>2, <3>3
  <2>6. Before(u, 1)' = Before(u, 1)
    <3>1. CASE 1 \in DOMAIN blocks'[u]
      BY <3>1, <2>4
    <3>2. CASE 1 \notin DOMAIN blocks'[u] /\ u # t
      BY <3>2, <1>1, <1>3, LeftBlocks DEF Before
    <3>3. CASE 1 \notin DOMAIN blocks'[u] /\ u = t
      <4>1. 1 = Len(blocks[t]) /\ 1 \in DOMAIN blocks[t] /\ blocks[t][1] = m
        <5>1. blocks[t] \in Seq(Managers)
          BY <1>1 DEF TypeInv
        <5>2. DOMAIN blocks[t] = 1 .. Len(blocks[t]) /\ Len(blocks[t]) \in Nat \ {0}
          BY <5>1, <1>1, LeftBlocks
        <5>3. 1 \notin DOMAIN blocks[t] \ {Len(blocks[t])}
          BY <3>3, <1>1, LeftBlocks
        <5>4. 1 = Len(blocks[t])
          BY <5>2, <5>3
        <5> QED BY <5>2, <5>4, <1>1, LeftBlocks
      <4> QED BY <3>3, <4>1, <1>3 DEF Before
    <3> QED BY <3>1, <3>2, <3>3
  <2> QED BY <1>1, <2>2, <2>3, <2>4, <2>5, <2>6
<1> QED BY <1>3, <1>4, <1>5

-----------------------------------------------------------------------------
(***************************************************************************)
(* The steps of the specification.                                          *)
(***************************************************************************)
\* UringioLoop_init and the managers as they are created.
LEMMA InitInv == Init => Inv
<1> SUFFICES ASSUME Init PROVE Inv
  OBVIOUS
<1>1. DefaultContext \in ExecutionContext
  BY DEF DefaultContext, ExecutionContext
<1>2. TypeInv
  <2>1. var \in [Tasks -> ExecutionContext \cup {Null, None}] /\ base = var
    BY <1>1 DEF Init
  <2>2. pay \in [Managers -> PayloadState]
    BY DEF Init, PayloadState, Fixed
  <2>3. blocks \in [Tasks -> Seq(Managers)]
    BY DEF Init
  <2>4. token \in [Managers -> Token \cup {Null}]
    BY DEF Init
  <2>5. kernel \in [table : Managers \cup {Null}, ring : Managers \cup {Null}]
    BY DEF Init
  <2> QED BY <2>1, <2>2, <2>3, <2>4, <2>5 DEF Init, TypeInv
<1>3. \A m \in Managers : ~Active(m)
  BY DEF Init, Active
<1>4. BlockInv
  BY <1>3 DEF BlockInv, OwnBlocks, Active
<1>5. VarInv
  BY <1>1, NullAssumption DEF Init, VarInv
<1>6. FixedInv
  BY <1>3 DEF Init, FixedInv, Fixed
<1>7. RingInv
  BY NullAssumption DEF Init, RingInv
<1>8. ContextIsInnermost
  BY DEF Init, ContextIsInnermost, Before
<1> QED BY <1>2, <1>4, <1>5, <1>6, <1>7, <1>8 DEF Inv, NoUndefined, Init

\* asyncio creates a task, with a copy of a context or with an empty one.
LEMMA SpawnKeeps ==
    ASSUME Inv, NEW t \in Tasks, NEW u \in Tasks, Spawn(t, u) \/ SpawnEmpty(t, u)
    PROVE  Inv'
<1> USE DEF Inv
<1>0. PICK ctx \in {var[t], None} :
         /\ var' = [var EXCEPT ![u] = ctx]
         /\ base' = [base EXCEPT ![u] = ctx]
  BY DEF Spawn, SpawnEmpty
<1>1. /\ ~undefined /\ var[u] = Null
      /\ ctx \in ExecutionContext \cup {None} /\ ctx # Null
      /\ var' = [var EXCEPT ![u] = ctx]
      /\ base' = [base EXCEPT ![u] = ctx]
      /\ UNCHANGED <<blocks, token, pay, kernel, spent, misused, undefined>>
  BY <1>0, NullAssumption DEF Spawn, SpawnEmpty, TypeInv
<1>2. \A m \in Managers : Active(m)' <=> Active(m)
  BY <1>1 DEF Active
<1>3. TypeInv'
  BY <1>1 DEF TypeInv
<1>4. BlockInv'
  BY <1>1, <1>2 DEF BlockInv, OwnBlocks, Fixed
<1>5. VarInv'
  BY <1>1 DEF VarInv, TypeInv
<1>6. FixedInv' /\ RingInv'
  BY <1>1, <1>2 DEF FixedInv, RingInv, Fixed, Spent
<1>7. ContextIsInnermost'
  <2>1. SUFFICES ASSUME ~misused', NEW w \in Tasks
                 PROVE  /\ Before(w, 1)' = base'[w]
                        /\ \A k \in DOMAIN blocks'[w] :
                              Before(w, k + 1)' = Inside(blocks'[w][k], Before(w, k)')
    BY DEF ContextIsInnermost, Inside
  <2>2. /\ Before(w, 1) = base[w]
        /\ \A k \in DOMAIN blocks[w] : Before(w, k + 1) = Inside(blocks[w][k], Before(w, k))
    BY <1>1, <2>1 DEF ContextIsInnermost
  <2>3. CASE w = u
    BY <2>3, <1>1 DEF VarInv, Before, TypeInv
  <2>4. CASE w # u
    <3>1. var'[w] = var[w] /\ base'[w] = base[w] /\ blocks' = blocks /\ token' = token
      BY <2>4, <1>1 DEF TypeInv
    <3>2. \A k : Before(w, k)' = Before(w, k)
      BY <3>1 DEF Before
    <3> QED BY <2>2, <3>1, <3>2
  <2> QED BY <2>3, <2>4
<1> QED BY <1>1, <1>3, <1>4, <1>5, <1>6, <1>7 DEF NoUndefined

\* A block that registers nothing: EnterNormal and EnterProvided.
LEMMA EnterPlainKeeps ==
    ASSUME Inv, NEW t \in Tasks, NEW m \in Managers, MayEnter(t, m),
           ~Fixed(m), Entered(t, m), UNCHANGED <<pay, kernel>>
    PROVE  Inv'
<1> USE DEF Inv
<1>1. \A n \in Managers : Active(n)' <=> Active(n) \/ n = m
  BY EnteredBlocks
<1>2. TypeInv'
  BY EnteredKeeps, EnteredBlocks DEF TypeInv
<1>3. FixedInv'
  BY <1>1 DEF FixedInv, Fixed
<1>4. RingInv'
  BY <1>1 DEF RingInv, Spent, Entered, Spend
<1> QED BY <1>2, <1>3, <1>4, EnteredKeeps

\* init_fixed_mode succeeds.
LEMMA EnterFixedKeeps ==
    ASSUME Inv, NEW t \in Tasks, NEW m \in Managers, EnterFixed(t, m)
    PROVE  Inv'
<1> USE DEF Inv
<1>1. /\ MayEnter(t, m) /\ Entered(t, m)
      /\ Fixed(m) /\ pay[m].vector /\ kernel.table = Null
      /\ kernel' = [kernel EXCEPT !.table = m]
      /\ pay' = [pay EXCEPT ![m].idx_registry = "live", ![m].vector = FALSE]
  BY DEF EnterFixed
<1>2. pay[m].idx_registry = "none" /\ ~Active(m)
  BY <1>1 DEF FixedInv
<1>3. \A n \in Managers : Active(n)' <=> Active(n) \/ n = m
  BY <1>1, EnteredBlocks
<1>4. /\ kernel' \in [table : Managers \cup {Null}, ring : Managers \cup {Null}]
      /\ kernel'.table = m /\ kernel'.ring = kernel.ring
  BY <1>1 DEF TypeInv
<1>5. /\ pay' \in [Managers -> PayloadState]
      /\ pay'[m].idx_registry = "live" /\ ~pay'[m].vector
      /\ pay'[m].buf_ring = pay[m].buf_ring
      /\ \A n \in Managers \ {m} : pay'[n] = pay[n]
  BY <1>1 DEF TypeInv, PayloadState
<1>6. TypeInv'
  BY <1>1, <1>2, <1>4, <1>5, EnteredKeeps, EnteredBlocks DEF TypeInv
<1>7. \A n \in Managers : pay[n].idx_registry # "live"
  BY <1>1, NullAssumption DEF FixedInv
<1>8. FixedInv'
  <2>1. ASSUME NEW n \in Managers
        PROVE  /\ Fixed(n) => (pay'[n].vector <=> pay'[n].idx_registry = "none")
               /\ pay'[n].idx_registry # "none" => Fixed(n)
               /\ pay'[n].idx_registry = "live" =>
                      kernel'.table = n /\ (Active(n)' \/ Attr[n].kind = "exec")
               /\ Fixed(n) /\ Active(n)' => pay'[n].idx_registry = "live"
    <3>1. CASE n = m
      BY <3>1, <1>1, <1>3, <1>4, <1>5
    <3>2. CASE n # m
      BY <3>2, <1>3, <1>5, <1>7 DEF FixedInv
    <3> QED BY <3>1, <3>2
  <2> QED BY <2>1, <1>4, <1>5 DEF FixedInv, Fixed
<1>9. RingInv'
  <2>1. \A n \in Managers : pay'[n].buf_ring = pay[n].buf_ring
    BY <1>5
  <2> QED BY <2>1, <1>1, <1>3, <1>4 DEF RingInv, Spent, Entered, Spend
<1> QED BY <1>1, <1>2, <1>6, <1>8, <1>9, EnteredKeeps

\* __enter__ raises, whether or not the buffers stay registered.
LEMMA EnterRaisesKeeps ==
    ASSUME Inv, NEW t \in Tasks, NEW m \in Managers, EnterRaises(t, m),
           \/ UNCHANGED kernel
           \/ /\ pay[m].vector /\ Fixed(m) /\ kernel.table = Null
              /\ kernel' = [kernel EXCEPT !.table = m]
    PROVE  Inv'
<1> USE DEF Inv
<1>1. UNCHANGED <<pay, var, base, blocks, token, misused, undefined>> /\ spent \subseteq spent'
  BY DEF EnterRaises, Spend
<1>2. \A n \in Managers : Active(n)' <=> Active(n)
  BY <1>1 DEF Active
<1>3. /\ kernel' \in [table : Managers \cup {Null}, ring : Managers \cup {Null}]
      /\ kernel'.ring = kernel.ring
      /\ \/ kernel'.table = kernel.table
         \/ /\ pay[m].vector /\ Fixed(m) /\ kernel.table = Null
            /\ kernel'.table = m
  BY DEF TypeInv
<1>4. TypeInv'
  BY <1>1, <1>3 DEF TypeInv
<1>5. BlockInv' /\ VarInv'
  BY <1>1, <1>2 DEF BlockInv, OwnBlocks, VarInv, Fixed
<1>6. FixedInv'
  <2>1. CASE kernel'.table = kernel.table
    BY <2>1, <1>1, <1>2 DEF FixedInv, Fixed
  <2>2. CASE /\ pay[m].vector /\ Fixed(m) /\ kernel.table = Null /\ kernel'.table = m
    <3>1. \A n \in Managers : pay[n].idx_registry # "live"
      BY <2>2, NullAssumption DEF FixedInv
    <3>2. pay[m].idx_registry # "destroyed"
      BY <2>2 DEF FixedInv
    <3> QED BY <2>2, <3>1, <3>2, <1>1, <1>2 DEF FixedInv, Fixed
  <2> QED BY <2>1, <2>2, <1>3
<1>7. RingInv'
  BY <1>1, <1>2, <1>3 DEF RingInv, Spent
<1>8. ContextIsInnermost' /\ NoUndefined'
  <2>1. \A u, k : Before(u, k)' = Before(u, k)
    BY <1>1 DEF Before
  <2> QED BY <1>1, <2>1 DEF ContextIsInnermost, NoUndefined
<1> QED BY <1>4, <1>5, <1>6, <1>7, <1>8

\* init_buf_ring_mode, with a ring or without one.
LEMMA EnterBufRingKeeps ==
    ASSUME Inv, NEW t \in Tasks, NEW m \in Managers, NEW ok \in BOOLEAN,
           EnterBufRing(t, m, ok)
    PROVE  Inv'
<1> USE DEF Inv
<1>1. /\ MayEnter(t, m) /\ Entered(t, m) /\ ~Spent(m)
      /\ Attr[m].mode = "BUF_RING" /\ ~Fixed(m) /\ ~misused
      /\ misused' = (misused \/ Active(m))
      /\ ok => kernel.ring = Null
      /\ kernel' = IF ok THEN [kernel EXCEPT !.ring = m] ELSE kernel
      /\ pay' = [pay EXCEPT ![m].buf_ring = ok]
  BY DEF EnterBufRing, MayEnter, Fixed, Entered
<1>2. \A n \in Managers : Active(n)' <=> Active(n) \/ n = m
  BY <1>1, EnteredBlocks
<1>3. /\ kernel' \in [table : Managers \cup {Null}, ring : Managers \cup {Null}]
      /\ kernel'.table = kernel.table
      /\ kernel'.ring = IF ok THEN m ELSE kernel.ring
  BY <1>1 DEF TypeInv
<1>4. /\ pay' \in [Managers -> PayloadState]
      /\ pay'[m].idx_registry = pay[m].idx_registry /\ pay'[m].vector = pay[m].vector
      /\ pay'[m].buf_ring = ok
      /\ \A n \in Managers \ {m} : pay'[n] = pay[n]
  BY <1>1 DEF TypeInv, PayloadState
<1>5. TypeInv'
  BY <1>1, <1>3, <1>4, EnteredKeeps, EnteredBlocks DEF TypeInv
<1>6. \A n \in Managers :
         pay'[n].idx_registry = pay[n].idx_registry /\ pay'[n].vector = pay[n].vector
  BY <1>4
<1>7. FixedInv'
  BY <1>1, <1>2, <1>3, <1>6 DEF FixedInv, Fixed, TypeInv
<1>8. RingInv'
  <2> SUFFICES ASSUME ~Active(m), NEW n \in Managers
               PROVE  /\ pay'[n].buf_ring <=> kernel'.ring = n
                      /\ pay'[n].buf_ring => (Active(n)' \/ Spent(n)') /\ Attr[n].mode = "BUF_RING"
    BY <1>1 DEF RingInv
  <2>1. ~pay[m].buf_ring /\ kernel.ring # m
    BY <1>1 DEF RingInv
  <2>2. CASE n = m
    BY <2>1, <2>2, <1>1, <1>2, <1>3, <1>4
  <2>3. CASE n # m
    <3>1. ok => ~pay[n].buf_ring
      BY <1>1, NullAssumption DEF RingInv
    <3>2. spent \subseteq spent'
      BY <1>1 DEF Entered, Spend
    <3> QED BY <2>3, <3>1, <3>2, <1>1, <1>2, <1>3, <1>4 DEF RingInv, Spent
  <2> QED BY <2>2, <2>3
<1> QED BY <1>1, <1>5, <1>7, <1>8, EnteredKeeps

\* An __exit__ that closes the buffer mode.
LEMMA ExitKeeps ==
    ASSUME Inv, NEW t \in Tasks, Exit(t)
    PROVE  Inv'
<1> USE DEF Inv
<1>1. PICK m \in Managers : m = Last(blocks[t])
  BY LeftBlocks DEF Exit
<1>2. /\ Leave(t) /\ ResetWorks(t, m) /\ Attr[m].kind # "exec"
      /\ var' = [var EXCEPT ![t] = token[m].old]
      /\ CloseMode(m)
      /\ spent' = spent /\ misused' = misused
  BY <1>1 DEF Exit, Leave
<1>3. /\ \A n \in Managers : Active(n)' => Active(n)
      /\ \A n \in Managers \ {m} : Active(n) => Active(n)'
      /\ Active(m)
  BY <1>1, <1>2, LeftBlocks DEF Active
<1>4. VarInv' /\ ContextIsInnermost' /\ BlockInv' /\ NoUndefined'
  BY <1>1, <1>2, ResetKeeps, LeftKeeps
<1>5. ASSUME pay' \in [Managers -> PayloadState],
             kernel' \in [table : Managers \cup {Null}, ring : Managers \cup {Null}]
      PROVE  TypeInv'
  BY <1>1, <1>2, <1>5, ResetKeeps, LeftKeeps, LeftBlocks DEF TypeInv
<1>6. ~misused \/ Fixed(m) => ~Active(m)'
  BY <1>1, <1>2, LeftOnlyBlock
<1>7. CASE Fixed(m)
  <2>1. /\ kernel' = [kernel EXCEPT !.table = Null]
        /\ pay' = [pay EXCEPT ![m].idx_registry = "destroyed"]
    BY <1>2, <1>7 DEF CloseMode, Fixed
  <2>2. /\ kernel' \in [table : Managers \cup {Null}, ring : Managers \cup {Null}]
        /\ kernel'.table = Null /\ kernel'.ring = kernel.ring
    BY <2>1 DEF TypeInv
  <2>3. /\ pay' \in [Managers -> PayloadState]
        /\ pay'[m].idx_registry = "destroyed" /\ pay'[m].vector = pay[m].vector
        /\ pay'[m].buf_ring = pay[m].buf_ring
        /\ \A n \in Managers \ {m} : pay'[n] = pay[n]
    BY <2>1 DEF TypeInv, PayloadState
  <2>4. pay[m].idx_registry = "live" /\ kernel.table = m
    BY <1>3, <1>7 DEF FixedInv
  <2>5. \A n \in Managers \ {m} : pay[n].idx_registry # "live"
    BY <2>4 DEF FixedInv
  <2>6. FixedInv'
    <3>1. ASSUME NEW n \in Managers
          PROVE  /\ Fixed(n) => (pay'[n].vector <=> pay'[n].idx_registry = "none")
                 /\ pay'[n].idx_registry # "none" => Fixed(n)
                 /\ pay'[n].idx_registry # "live"
                 /\ Fixed(n) /\ Active(n)' => pay'[n].idx_registry = "live"
      <4>1. CASE n = m
        BY <4>1, <2>3, <2>4, <1>6, <1>7 DEF FixedInv
      <4>2. CASE n # m
        BY <4>2, <2>3, <2>5, <1>3 DEF FixedInv
      <4> QED BY <4>1, <4>2
    <3> QED BY <3>1, <2>2 DEF FixedInv, Fixed
  <2>7. RingInv'
    <3> SUFFICES ASSUME ~misused, NEW n \in Managers
                 PROVE  /\ pay'[n].buf_ring <=> kernel'.ring = n
                        /\ pay'[n].buf_ring => (Active(n)' \/ Spent(n)') /\ Attr[n].mode = "BUF_RING"
      BY <1>2 DEF RingInv
    <3>1. CASE n # m
      BY <3>1, <2>2, <2>3, <1>2, <1>3 DEF RingInv, Spent
    <3>2. CASE n = m
      BY <3>2, <2>2, <2>3, <1>2, <1>7, <1>3 DEF RingInv, Spent, Fixed
    <3> QED BY <3>1, <3>2
  <2> QED BY <2>2, <2>3, <2>6, <2>7, <1>4, <1>5
<1>8. CASE Attr[m].mode = "BUF_RING"
  <2>1. /\ kernel' = IF pay[m].buf_ring THEN [kernel EXCEPT !.ring = Null] ELSE kernel
        /\ pay' = [pay EXCEPT ![m].buf_ring = FALSE]
    BY <1>2, <1>8 DEF CloseMode
  <2>2. /\ kernel' \in [table : Managers \cup {Null}, ring : Managers \cup {Null}]
        /\ kernel'.table = kernel.table
        /\ kernel'.ring = IF pay[m].buf_ring THEN Null ELSE kernel.ring
    BY <2>1 DEF TypeInv
  <2>3. /\ pay' \in [Managers -> PayloadState]
        /\ pay'[m].idx_registry = pay[m].idx_registry /\ pay'[m].vector = pay[m].vector
        /\ ~pay'[m].buf_ring
        /\ \A n \in Managers \ {m} : pay'[n] = pay[n]
    BY <2>1 DEF TypeInv, PayloadState
  <2>4. \A n \in Managers :
           pay'[n].idx_registry = pay[n].idx_registry /\ pay'[n].vector = pay[n].vector
    BY <2>3
  <2>5. pay[m].idx_registry = "none"
    BY <1>8 DEF FixedInv, Fixed
  <2>6. FixedInv'
    <3>1. ASSUME NEW n \in Managers
          PROVE  /\ pay'[n].idx_registry = "live" =>
                       kernel'.table = n /\ (Active(n)' \/ Attr[n].kind = "exec")
                 /\ Fixed(n) /\ Active(n)' => pay'[n].idx_registry = "live"
      BY <1>3, <2>2, <2>4, <2>5 DEF FixedInv
    <3> QED BY <3>1, <2>2, <2>4 DEF FixedInv, Fixed, TypeInv
  <2>7. RingInv'
    <3> SUFFICES ASSUME ~misused, NEW n \in Managers
                 PROVE  /\ pay'[n].buf_ring <=> kernel'.ring = n
                        /\ pay'[n].buf_ring => (Active(n)' \/ Spent(n)') /\ Attr[n].mode = "BUF_RING"
      BY <1>2 DEF RingInv
    <3>1. CASE n # m
      BY <3>1, <2>2, <2>3, <1>2, <1>3, NullAssumption DEF RingInv, Spent
    <3>2. CASE n = m
      BY <3>2, <2>2, <2>3, NullAssumption DEF RingInv
    <3> QED BY <3>1, <3>2
  <2> QED BY <2>2, <2>3, <2>6, <2>7, <1>4, <1>5
<1>9. CASE ~Fixed(m) /\ Attr[m].mode # "BUF_RING"
  <2>1. UNCHANGED <<pay, kernel>>
    BY <1>2, <1>9 DEF CloseMode, Fixed
  <2>2. TypeInv'
    BY <2>1, <1>5 DEF TypeInv
  <2>3. FixedInv'
    BY <2>1, <1>3, <1>9 DEF FixedInv, Fixed
  <2>4. RingInv'
    BY <2>1, <1>2, <1>3, <1>9 DEF RingInv, Spent
  <2> QED BY <2>2, <2>3, <2>4, <1>4
<1> QED BY <1>7, <1>8, <1>9

\* ExecutionContextCtx_exit.
LEMMA ExitExecKeeps ==
    ASSUME Inv, NEW t \in Tasks, ExitExec(t)
    PROVE  Inv'
<1> USE DEF Inv
<1>1. PICK m \in Managers : m = Last(blocks[t])
  BY LeftBlocks DEF ExitExec
<1>2. /\ Leave(t) /\ ResetWorks(t, m) /\ Attr[m].kind = "exec"
      /\ var' = [var EXCEPT ![t] = token[m].old]
      /\ UNCHANGED <<pay, kernel>>
      /\ spent' = spent /\ misused' = misused
  BY <1>1 DEF ExitExec, Leave
<1>3. /\ \A n \in Managers : Active(n)' => Active(n)
      /\ \A n \in Managers \ {m} : Active(n) => Active(n)'
      /\ Active(m)
  BY <1>1, <1>2, LeftBlocks DEF Active
<1>4. VarInv' /\ ContextIsInnermost' /\ BlockInv' /\ NoUndefined'
  BY <1>1, <1>2, ResetKeeps, LeftKeeps
<1>5. TypeInv'
  BY <1>1, <1>2, ResetKeeps, LeftKeeps, LeftBlocks DEF TypeInv
<1>6. FixedInv'
  BY <1>2, <1>3 DEF FixedInv, Fixed
<1>7. RingInv'
  <2>1. m \in spent
    BY <1>2, <1>3 DEF BlockInv
  <2> QED BY <2>1, <1>2, <1>3 DEF RingInv, Spent
<1> QED BY <1>4, <1>5, <1>6, <1>7

\* An __exit__ that raises: the manager is neither FIXED nor, but for misuse, any.
LEMMA ExitRaisesKeeps ==
    ASSUME Inv, NEW t \in Tasks, ExitRaises(t)
    PROVE  Inv'
<1> USE DEF Inv
<1>1. PICK m \in Managers : m = Last(blocks[t])
  BY LeftBlocks DEF ExitRaises
<1>2. /\ Leave(t) /\ ~ResetWorks(t, m)
      /\ UNCHANGED <<var, pay, kernel, misused>>
  BY <1>1 DEF ExitRaises, Leave
<1>3. ~Fixed(m) /\ misused
  BY <1>1, <1>2, LeftOnlyBlock
<1>4. /\ \A n \in Managers : Active(n)' => Active(n)
      /\ \A n \in Managers \ {m} : Active(n) => Active(n)'
  BY <1>1, <1>2, LeftBlocks
<1>5. TypeInv'
  BY <1>2, LeftKeeps, LeftBlocks DEF TypeInv
<1>6. VarInv'
  <2>1. ASSUME NEW u \in Tasks, var'[u] = Null PROVE blocks'[u] = << >>
    BY <2>1, <1>2, LeftBlocks DEF VarInv
  <2>2. token' = [token EXCEPT ![m] = Null]
    BY <1>1, <1>2, LeftBlocks
  <2>3. ASSUME NEW n \in Managers, token'[n] # Null, Attr[n].kind # "exec"
        PROVE  token'[n].old # None
    BY <2>2, <2>3 DEF VarInv, TypeInv
  <2> QED BY <2>1, <2>3 DEF VarInv
<1>7. FixedInv'
  BY <1>2, <1>3, <1>4 DEF FixedInv, Fixed
<1>8. RingInv' /\ ContextIsInnermost'
  BY <1>2, <1>3 DEF RingInv, ContextIsInnermost
<1> QED BY <1>2, <1>5, <1>6, <1>7, <1>8, LeftKeeps

\* A task without a context was created without one, and is in no block.
LEMMA NoContextNoBlock ==
    ASSUME Inv, ~misused, NEW t \in Tasks, var[t] = None
    PROVE  base[t] = None /\ blocks[t] = << >>
<1> USE DEF Inv
<1>1. /\ Before(t, 1) = base[t]
      /\ \A k \in DOMAIN blocks[t] : Before(t, k + 1) = Inside(blocks[t][k], Before(t, k))
  BY DEF ContextIsInnermost
<1>2. blocks[t] \in Seq(Managers)
  BY DEF TypeInv
<1>3. ASSUME blocks[t] # << >> PROVE FALSE
  <2>1. PICK l \in Nat \ {0} : DOMAIN blocks[t] = 1 .. l
    BY <1>2, <1>3
  <2>2. PICK m \in Managers : m = blocks[t][l]
    BY <1>2, <2>1
  <2>3. OwnBlocks(m)
    BY DEF BlockInv
  <2>4. token[m] # Null
    BY <2>1, <2>2, <2>3 DEF OwnBlocks
  <2>5. /\ token[m].old \in ExecutionContext \cup {None}
        /\ Attr[m].kind # "exec" => token[m].old # None
    BY <2>4 DEF TypeInv, Token, VarInv
  <2>6. Before(t, l) = token[m].old /\ Before(t, l + 1) = var[t]
    BY <2>1, <2>2 DEF Before
  <2>7. var[t] = Inside(m, token[m].old)
    BY <1>1, <2>1, <2>2, <2>6
  <2>8. var[t] \in ExecutionContext
    BY <2>5, <2>7, InsideIsContext
  <2> QED
    BY <2>8, NullAssumption
<1>4. base[t] = var[t]
  BY <1>1, <1>2, <1>3 DEF Before
<1> QED
  BY <1>3, <1>4

\* Nothing changes but that the process may have reached undefined behaviour.
LEMMA CallKeeps ==
    ASSUME Inv, UNCHANGED <<var, base, blocks, token, pay, kernel, spent, misused>>,
           undefined' \in BOOLEAN, NoUndefined'
    PROVE  Inv'
<1>1. \A u, k : Before(u, k)' = Before(u, k)
  BY DEF Before
<1>2. \A n \in Managers : Active(n)' <=> Active(n)
  BY DEF Active
<1>3. TypeInv'
  BY DEF Inv, TypeInv
<1>4. BlockInv' /\ VarInv'
  BY <1>2 DEF Inv, BlockInv, OwnBlocks, VarInv, Fixed
<1>5. FixedInv' /\ RingInv'
  BY <1>2 DEF Inv, FixedInv, RingInv, Fixed, Spent
<1>6. ContextIsInnermost'
  BY <1>1 DEF Inv, ContextIsInnermost
<1> QED BY <1>3, <1>4, <1>5, <1>6 DEF Inv

\* Another loop is closed or a manager is entered again.
LEMMA MisuseKeeps ==
    ASSUME Inv, UNCHANGED <<base, blocks, token, pay, kernel, spent>>, misused' = TRUE,
           undefined' \in BOOLEAN,
           \/ var' = var
           \/ \E t \in Tasks : var[t] # Null /\ var' = [var EXCEPT ![t] = None]
    PROVE  Inv'
<1> USE DEF Inv
<1>1. TypeInv'
  BY DEF TypeInv
<1>2. \A n \in Managers : Active(n)' <=> Active(n)
  BY DEF Active
<1>3. BlockInv'
  <2>1. ASSUME NEW m \in Managers, Fixed(m) PROVE OwnBlocks(m)'
    BY <2>1 DEF BlockInv, OwnBlocks
  <2> QED BY <2>1, <1>2 DEF BlockInv, Fixed
<1>4. VarInv'
  <2>1. ASSUME NEW u \in Tasks, var'[u] = Null PROVE blocks'[u] = << >>
    BY <2>1, NullAssumption DEF VarInv, TypeInv
  <2> QED BY <2>1 DEF VarInv
<1>5. FixedInv'
  BY <1>2 DEF FixedInv, Fixed
<1> QED BY <1>1, <1>3, <1>4, <1>5 DEF RingInv, ContextIsInnermost, NoUndefined

\* Every step keeps the invariant.
LEMMA NextInv == Inv /\ [Next]_vars => Inv'
<1> SUFFICES ASSUME Inv, [Next]_vars PROVE Inv'
  OBVIOUS
<1>1. ASSUME NEW t \in Tasks, NEW u \in Tasks, Spawn(t, u) \/ SpawnEmpty(t, u) PROVE Inv'
  BY <1>1, SpawnKeeps
<1>2. ASSUME NEW t \in Tasks, NEW m \in Managers, EnterNormal(t, m) \/ EnterProvided(t, m)
      PROVE  Inv'
  BY <1>2, EnterPlainKeeps DEF EnterNormal, EnterProvided, Fixed
<1>3. ASSUME NEW t \in Tasks, NEW m \in Managers, EnterFixed(t, m) PROVE Inv'
  BY <1>3, EnterFixedKeeps
<1>4. ASSUME NEW t \in Tasks, NEW m \in Managers,
             EnterFixedRefused(t, m) \/ EnterFixedNoMemory(t, m) \/ EnterProvidedFails(t, m)
      PROVE  Inv'
  BY <1>4, EnterRaisesKeeps DEF EnterFixedRefused, EnterFixedNoMemory, EnterProvidedFails
<1>5. ASSUME NEW t \in Tasks, NEW m \in Managers, NEW ok \in BOOLEAN, EnterBufRing(t, m, ok)
      PROVE  Inv'
  BY <1>5, EnterBufRingKeeps
<1>6. ASSUME NEW t \in Tasks, NEW m \in Managers, EnterAgain(t, m) PROVE Inv'
  <2>1. misused' = TRUE /\ undefined' = TRUE
    BY <1>6 DEF EnterAgain, Inv, FixedInv
  <2> QED BY <1>6, <2>1, MisuseKeeps DEF EnterAgain
<1>7. ASSUME NEW t \in Tasks, Exit(t) \/ ExitExec(t) \/ ExitRaises(t) PROVE Inv'
  BY <1>7, ExitKeeps, ExitExecKeeps, ExitRaisesKeeps
<1>8. ASSUME NEW t \in Tasks, OtherLoopCloses(t) PROVE Inv'
  BY <1>8, MisuseKeeps DEF OtherLoopCloses, Inv, TypeInv
<1>9. ASSUME NEW t \in Tasks, CallWithoutContext(t) PROVE Inv'
  <2>1. NoUndefined'
    BY <1>9, NoContextNoBlock DEF CallWithoutContext, NoUndefined
  <2> QED BY <1>9, <2>1, CallKeeps DEF CallWithoutContext
<1>10. CASE UNCHANGED vars
  <2>1. NoUndefined' /\ undefined' \in BOOLEAN
    BY <1>10 DEF vars, Inv, NoUndefined, TypeInv
  <2> QED BY <1>10, <2>1, CallKeeps DEF vars
<1> QED BY <1>1, <1>2, <1>3, <1>4, <1>5, <1>6, <1>7, <1>8, <1>9, <1>10 DEF Next

LEMMA InvHolds == Spec => []Inv
  BY InitInv, NextInv, PTL DEF Spec

-----------------------------------------------------------------------------
\* With any number of tasks that enter and leave any managers, also when __enter__
\* raises, the context a task sees is what its open blocks make of the one it
\* inherited, and each token puts back what its block was entered in.
THEOREM ContextsAreRestored == Spec => []ContextIsInnermost
<1>1. Inv => ContextIsInnermost
  BY DEF Inv
<1> QED BY <1>1, InvHolds, PTL

\* A payload whose index stack hands out indices has its buffers in the kernel's
\* table: init_fixed_mode and close_fixed_mode keep the two together.
THEOREM IndicesNameRegisteredBuffers == Spec => []IndicesMeanTable
<1>1. Inv => IndicesMeanTable
  BY DEF Inv, FixedInv, IndicesMeanTable
<1> QED BY <1>1, InvHolds, PTL

\* The kernel's table is leaked in no other way than the two that TableOwned names.
THEOREM TableLeaksAreExplained == Spec => []TableOwned
<1>1. Inv => TableOwned
  <2> SUFFICES ASSUME Inv, kernel.table # Null PROVE TableOwned
    BY DEF TableOwned
  <2>1. PICK m \in Managers : m = kernel.table
    BY DEF Inv, TypeInv
  <2>2. pay[m].idx_registry \in {"none", "live"}
    BY <2>1 DEF Inv, TypeInv, PayloadState, FixedInv
  <2> QED BY <2>1, <2>2 DEF Inv, FixedInv, TableOwned
<1> QED BY <1>1, InvHolds, PTL

\* close_buf_ring_mode frees the ring that init_buf_ring_mode of its own block has
\* set up, and no other.
THEOREM RingsAreTheirOwners == Spec => []RingMatches
<1>1. Inv => RingMatches
  BY DEF Inv, RingInv, RingMatches
<1> QED BY <1>1, InvHolds, PTL

\* A program that enters a FIXED manager and an ExecutionContextCtx once, no other
\* while it is open, closes one loop, and calls nothing in a task that has neither
\* inherited nor entered a context, reaches neither the vector that init_fixed_mode
\* was left without nor the NULL context of _get_buffer.
THEOREM UndefinedTakesMisuse == Spec => []NoUndefined
<1>1. Inv => NoUndefined
  BY DEF Inv
<1> QED BY <1>1, InvHolds, PTL
=============================================================================
