---------------------------- MODULE PayloadProofs -----------------------------
(***************************************************************************)
(* What the constructors of a BufferPayload leave behind when a step fails, *)
(* and what free_buffer_payload gives back, for any number of buffers.      *)
(***************************************************************************)
EXTENDS PayloadMemory, TLAPS

Single(name) == {<<name, 0>>}

\* The blocks and views of a payload, in no order.
Owned(c, n) ==
    CASE c = "from_data" ->
           Single("payload") \cup Single("linear") \cup Single("views") \cup Blocks("view", 1)
      [] c = "from_pybuffer" ->
           Blocks("view", 1) \cup Single("payload") \cup Single("vector")
             \cup Single("iovecs") \cup Single("views")
      [] c \in {"linear_user", "ring_user"} ->
           Single("payload") \cup Single("views") \cup Single("linear") \cup Blocks("view", n)
      [] c \in {"linear_runtime", "ring_runtime"} ->
           Single("payload") \cup Single("linear") \cup Blocks("buffer", n)
      [] c = "vectored_user" ->
           Single("payload") \cup Single("views") \cup Single("vector") \cup Single("iovecs")
             \cup Blocks("view", n)
      [] c = "vectored_runtime" ->
           Single("payload") \cup Single("vector") \cup Single("iovecs") \cup Blocks("buffer", n)
      [] c = "fixed_user" ->
           Single("payload") \cup Single("views") \cup Single("linear") \cup Single("vector")
             \cup Single("iovecs") \cup Blocks("view", n)
      [] c = "fixed_runtime" ->
           Single("payload") \cup Single("linear") \cup Single("vector") \cup Single("iovecs")
             \cup Blocks("buffer", n)
      [] c = "normal_user" ->
           Single("payload") \cup Single("views0") \cup Single("linear0")
             \cup Blocks("view0", n) \cup Single("views") \cup Single("linear")
             \cup Single("vector") \cup Single("iovecs") \cup Blocks("view", n)
      [] c = "normal_runtime" ->
           Single("payload") \cup Single("linear0") \cup Blocks("buffer0", n)
             \cup Single("linear") \cup Single("vector") \cup Single("iovecs")
             \cup Blocks("buffer", n)

\* The order in which a constructor acquires its kinds of blocks.
Rank(c, kind) ==
    CASE c = "from_data" ->
           (CASE kind = "payload" -> 1 [] kind = "linear" -> 2
              [] kind = "views" -> 3 [] OTHER -> 4)
      [] c = "from_pybuffer" ->
           (CASE kind = "view" -> 1 [] kind = "payload" -> 2 [] kind = "vector" -> 3
              [] kind = "iovecs" -> 4 [] OTHER -> 5)
      [] c = "normal_user" ->
           (CASE kind = "payload" -> 1 [] kind = "views0" -> 2 [] kind = "linear0" -> 3
              [] kind = "view0" -> 4 [] kind = "views" -> 5 [] kind = "linear" -> 6
              [] kind = "vector" -> 7 [] kind = "iovecs" -> 8 [] OTHER -> 9)
      [] OTHER ->
           (CASE kind = "payload" -> 1 [] kind = "linear0" -> 2 [] kind = "buffer0" -> 3
              [] kind = "views" -> 4 [] kind = "linear" -> 5 [] kind = "vector" -> 6
              [] kind = "iovecs" -> 7 [] OTHER -> 8)

Precedes(c, x, y) ==
    \/ Rank(c, x[1]) < Rank(c, y[1])
    \/ x[1] = y[1] /\ x[2] < y[2]

\* s lists the blocks in B, each once, in the order of the constructor c.
Lists(c, s, B) ==
    /\ s \in Seq(B)
    /\ B \subseteq {s[i] : i \in 1 .. Len(s)}
    /\ \A i, j \in 1 .. Len(s) : i < j => Precedes(c, s[i], s[j])

\* What a constructor that runs has still to acquire is what it does not hold, in
\* order; what it holds came before.
RunningInv ==
    Running =>
        /\ heap \subseteq Owned(ctor, items)
        /\ Lists(ctor, todo, Owned(ctor, items) \ heap)
        /\ \A x \in heap, y \in Owned(ctor, items) \ heap : Precedes(ctor, x, y)

\* A payload for no buffers does not reach the point where NORMAL_BUF falls through.
NoFallThrough ==
    Running /\ ctor = "normal_user" /\ items = 0 => <<"views", 0>> \notin heap

BuiltInv ==
    status = "built" /\ ~undefined =>
        fields = Built(ctor) /\ heap \subseteq Owned(ctor, items)

Inv ==
    /\ ctor \in Ctors /\ items \in Items(ctor)
    /\ status \in {"running", "null", "built", "freed"} /\ undefined \in BOOLEAN
    /\ RunningInv /\ NoFallThrough /\ BuiltInv
    /\ FailureLeaks /\ FreedOnce

-----------------------------------------------------------------------------
LEMMA RankType ==
    ASSUME NEW c, NEW kind
    PROVE  Rank(c, kind) \in 1 .. 9
  BY DEF Rank

\* Lists can be joined.
LEMMA JoinedLists ==
    ASSUME NEW c, NEW A, NEW B, NEW s, NEW t, Lists(c, s, A), Lists(c, t, B),
           \A x \in A, y \in B : Rank(c, x[1]) < Rank(c, y[1])
    PROVE  Lists(c, s \o t, A \cup B)
<1>1. s \in Seq(A \cup B) /\ t \in Seq(A \cup B)
  BY DEF Lists
<1>2. /\ s \o t \in Seq(A \cup B) /\ Len(s \o t) = Len(s) + Len(t)
      /\ Len(s) \in Nat /\ Len(t) \in Nat
      /\ \A k \in 1 .. Len(s) : (s \o t)[k] = s[k]
      /\ \A k \in 1 .. Len(s) + Len(t) : k > Len(s) => (s \o t)[k] = t[k - Len(s)]
  BY <1>1
<1>3. \A k \in 1 .. Len(s) + Len(t) :
         k \in 1 .. Len(s) \/ (k > Len(s) /\ k - Len(s) \in 1 .. Len(t))
  BY <1>2
<1>4. A \subseteq {(s \o t)[i] : i \in 1 .. Len(s \o t)}
  BY <1>2 DEF Lists
<1>5. B \subseteq {(s \o t)[i] : i \in 1 .. Len(s \o t)}
  <2> SUFFICES ASSUME NEW y \in B PROVE \E i \in 1 .. Len(s \o t) : (s \o t)[i] = y
    OBVIOUS
  <2>0. PICK k \in 1 .. Len(t) : t[k] = y
    BY DEF Lists
  <2>1. k + Len(s) \in 1 .. Len(s) + Len(t) /\ (s \o t)[k + Len(s)] = t[k]
    BY <1>2
  <2> QED BY <2>0, <2>1, <1>2
<1>6. ASSUME NEW i \in 1 .. Len(s) + Len(t), NEW j \in 1 .. Len(s) + Len(t), i < j
      PROVE  Precedes(c, (s \o t)[i], (s \o t)[j])
  <2>1. CASE j \in 1 .. Len(s)
    <3>1. i \in 1 .. Len(s)
      BY <1>2, <1>6, <2>1
    <3> QED BY <1>2, <1>6, <2>1, <3>1 DEF Lists
  <2>2. CASE i > Len(s)
    <3>1. /\ j > Len(s) /\ i - Len(s) \in 1 .. Len(t) /\ j - Len(s) \in 1 .. Len(t)
          /\ i - Len(s) < j - Len(s)
      BY <1>2, <1>6, <2>2
    <3> QED BY <1>2, <2>2, <3>1 DEF Lists
  <2>3. CASE i \in 1 .. Len(s) /\ j > Len(s)
    <3>1. (s \o t)[i] = s[i] /\ s[i] \in A
      BY <1>2, <2>3 DEF Lists
    <3>2. (s \o t)[j] = t[j - Len(s)] /\ j - Len(s) \in 1 .. Len(t) /\ t[j - Len(s)] \in B
      <4>1. t \in Seq(B)
        BY DEF Lists
      <4>2. (s \o t)[j] = t[j - Len(s)] /\ j - Len(s) \in 1 .. Len(t)
        BY <1>2, <1>3, <2>3
      <4> QED BY <4>1, <4>2
    <3> QED BY <3>1, <3>2 DEF Precedes
  <2> QED BY <1>3, <2>1, <2>2, <2>3
<1> QED BY <1>2, <1>4, <1>5, <1>6 DEF Lists

LEMMA OneLists ==
    ASSUME NEW c, NEW name
    PROVE  Lists(c, One(name), Single(name))
  BY DEF Lists, One, Single

LEMMA EachLists ==
    ASSUME NEW c, NEW name, NEW n \in Nat
    PROVE  Lists(c, Each(name, n), Blocks(name, n))
<1>1. PICK s : s = Each(name, n)
  OBVIOUS
<1>2. s \in Seq(Blocks(name, n)) /\ Len(s) = n /\ \A i \in 1 .. n : s[i] = <<name, i>>
  BY <1>1 DEF Each, Blocks
<1>3. Blocks(name, n) \subseteq {s[i] : i \in 1 .. Len(s)}
  BY <1>2 DEF Blocks
<1>4. ASSUME NEW i \in 1 .. Len(s), NEW j \in 1 .. Len(s), i < j
      PROVE  Precedes(c, s[i], s[j])
  <2>1. s[i] = <<name, i>> /\ s[j] = <<name, j>>
    BY <1>2
  <2> QED BY <1>4, <2>1 DEF Precedes
<1>5. Lists(c, s, Blocks(name, n))
  BY <1>2, <1>3, <1>4 DEF Lists
<1> QED BY <1>1, <1>5

\* A list of blocks whose kinds rank no higher than r.
Upto(c, s, B, r) == Lists(c, s, B) /\ \A x \in B : Rank(c, x[1]) <= r

LEMMA FirstOne ==
    ASSUME NEW c, NEW name, NEW r \in Nat, Rank(c, name) = r
    PROVE  Upto(c, One(name), Single(name), r)
  BY OneLists DEF Upto, Single

LEMMA FirstEach ==
    ASSUME NEW c, NEW name, NEW n \in Nat, NEW r \in Nat, Rank(c, name) = r
    PROVE  Upto(c, Each(name, n), Blocks(name, n), r)
  BY EachLists DEF Upto, Blocks

LEMMA JoinOne ==
    ASSUME NEW c, NEW A, NEW s, NEW q \in Nat, Upto(c, s, A, q),
           NEW name, NEW r \in Nat, Rank(c, name) = r, q < r
    PROVE  Upto(c, s \o One(name), A \cup Single(name), r)
<1>1. \A y \in Single(name) : Rank(c, y[1]) = r
  BY DEF Single
<1>2. \A x \in A : Rank(c, x[1]) \in 1 .. 9 /\ Rank(c, x[1]) <= q
  BY RankType DEF Upto
<1>3. \A x \in A, y \in Single(name) : Rank(c, x[1]) < Rank(c, y[1])
  BY <1>1, <1>2
<1>4. Lists(c, s \o One(name), A \cup Single(name))
  BY <1>3, OneLists, JoinedLists DEF Upto
<1> QED BY <1>1, <1>2, <1>4 DEF Upto

LEMMA JoinEach ==
    ASSUME NEW c, NEW A, NEW s, NEW q \in Nat, Upto(c, s, A, q),
           NEW name, NEW n \in Nat, NEW r \in Nat, Rank(c, name) = r, q < r
    PROVE  Upto(c, s \o Each(name, n), A \cup Blocks(name, n), r)
<1>1. \A y \in Blocks(name, n) : Rank(c, y[1]) = r
  BY DEF Blocks
<1>2. \A x \in A : Rank(c, x[1]) \in 1 .. 9 /\ Rank(c, x[1]) <= q
  BY RankType DEF Upto
<1>3. \A x \in A, y \in Blocks(name, n) : Rank(c, x[1]) < Rank(c, y[1])
  BY <1>1, <1>2
<1>4. Lists(c, s \o Each(name, n), A \cup Blocks(name, n))
  BY <1>3, EachLists, JoinedLists DEF Upto
<1> QED BY <1>1, <1>2, <1>4 DEF Upto

\* Every constructor acquires what its payload owns, in its order.
LEMMA AcquiresLists ==
    ASSUME NEW c \in Ctors, NEW n \in Nat
    PROVE  Lists(c, Acquires(c, n), Owned(c, n))
<1>1. CASE c = "from_data"
  <2>0. /\ Rank(c, "payload") = 1 /\ Rank(c, "linear") = 2 /\ Rank(c, "views") = 3
        /\ Rank(c, "view") = 4
    BY <1>1 DEF Rank
  <2>1. Upto(c, One("payload"),
               Single("payload"), 1)
    BY <2>0, FirstOne
  <2>2. Upto(c, One("payload") \o One("linear"),
               Single("payload") \cup Single("linear"), 2)
    BY <2>0, <2>1, JoinOne
  <2>3. Upto(c, One("payload") \o One("linear") \o One("views"),
               Single("payload") \cup Single("linear") \cup Single("views"), 3)
    BY <2>0, <2>2, JoinOne
  <2>4. Upto(c, One("payload") \o One("linear") \o One("views") \o Each("view", 1),
               Single("payload") \cup Single("linear") \cup Single("views")
                   \cup Blocks("view", 1), 4)
    BY <2>0, <2>3, JoinEach
  <2> QED BY <1>1, <2>4 DEF Upto, Acquires, Owned
<1>2. CASE c = "from_pybuffer"
  <2>0. /\ Rank(c, "view") = 1 /\ Rank(c, "payload") = 2 /\ Rank(c, "vector") = 3
        /\ Rank(c, "iovecs") = 4 /\ Rank(c, "views") = 5
    BY <1>2 DEF Rank
  <2>1. Upto(c, Each("view", 1),
               Blocks("view", 1), 1)
    BY <2>0, FirstEach
  <2>2. Upto(c, Each("view", 1) \o One("payload"),
               Blocks("view", 1) \cup Single("payload"), 2)
    BY <2>0, <2>1, JoinOne
  <2>3. Upto(c, Each("view", 1) \o One("payload") \o One("vector"),
               Blocks("view", 1) \cup Single("payload") \cup Single("vector"), 3)
    BY <2>0, <2>2, JoinOne
  <2>4. Upto(c, Each("view", 1) \o One("payload") \o One("vector") \o One("iovecs"),
               Blocks("view", 1) \cup Single("payload") \cup Single("vector")
                   \cup Single("iovecs"), 4)
    BY <2>0, <2>3, JoinOne
  <2>5. Upto(c, Each("view", 1) \o One("payload") \o One("vector") \o One("iovecs")
                   \o One("views"),
               Blocks("view", 1) \cup Single("payload") \cup Single("vector")
                   \cup Single("iovecs") \cup Single("views"), 5)
    BY <2>0, <2>4, JoinOne
  <2> QED BY <1>2, <2>5 DEF Upto, Acquires, Owned
<1>3. CASE c \in {"linear_user", "ring_user"}
  <2>0. /\ Rank(c, "payload") = 1 /\ Rank(c, "views") = 4 /\ Rank(c, "linear") = 5
        /\ Rank(c, "view") = 8
    BY <1>3 DEF Rank
  <2>1. Upto(c, One("payload"),
               Single("payload"), 1)
    BY <2>0, FirstOne
  <2>2. Upto(c, One("payload") \o One("views"),
               Single("payload") \cup Single("views"), 4)
    BY <2>0, <2>1, JoinOne
  <2>3. Upto(c, One("payload") \o One("views") \o One("linear"),
               Single("payload") \cup Single("views") \cup Single("linear"), 5)
    BY <2>0, <2>2, JoinOne
  <2>4. Upto(c, One("payload") \o One("views") \o One("linear") \o Each("view", n),
               Single("payload") \cup Single("views") \cup Single("linear")
                   \cup Blocks("view", n), 8)
    BY <2>0, <2>3, JoinEach
  <2> QED BY <1>3, <2>4 DEF Upto, Acquires, Owned
<1>4. CASE c \in {"linear_runtime", "ring_runtime"}
  <2>0. /\ Rank(c, "payload") = 1 /\ Rank(c, "linear") = 5 /\ Rank(c, "buffer") = 8
    BY <1>4 DEF Rank
  <2>1. Upto(c, One("payload"),
               Single("payload"), 1)
    BY <2>0, FirstOne
  <2>2. Upto(c, One("payload") \o One("linear"),
               Single("payload") \cup Single("linear"), 5)
    BY <2>0, <2>1, JoinOne
  <2>3. Upto(c, One("payload") \o One("linear") \o Each("buffer", n),
               Single("payload") \cup Single("linear") \cup Blocks("buffer", n), 8)
    BY <2>0, <2>2, JoinEach
  <2> QED BY <1>4, <2>3 DEF Upto, Acquires, Owned
<1>5. CASE c = "vectored_user"
  <2>0. /\ Rank(c, "payload") = 1 /\ Rank(c, "views") = 4 /\ Rank(c, "vector") = 6
        /\ Rank(c, "iovecs") = 7 /\ Rank(c, "view") = 8
    BY <1>5 DEF Rank
  <2>1. Upto(c, One("payload"),
               Single("payload"), 1)
    BY <2>0, FirstOne
  <2>2. Upto(c, One("payload") \o One("views"),
               Single("payload") \cup Single("views"), 4)
    BY <2>0, <2>1, JoinOne
  <2>3. Upto(c, One("payload") \o One("views") \o One("vector"),
               Single("payload") \cup Single("views") \cup Single("vector"), 6)
    BY <2>0, <2>2, JoinOne
  <2>4. Upto(c, One("payload") \o One("views") \o One("vector") \o One("iovecs"),
               Single("payload") \cup Single("views") \cup Single("vector")
                   \cup Single("iovecs"), 7)
    BY <2>0, <2>3, JoinOne
  <2>5. Upto(c, One("payload") \o One("views") \o One("vector") \o One("iovecs")
                   \o Each("view", n),
               Single("payload") \cup Single("views") \cup Single("vector")
                   \cup Single("iovecs") \cup Blocks("view", n), 8)
    BY <2>0, <2>4, JoinEach
  <2> QED BY <1>5, <2>5 DEF Upto, Acquires, Owned
<1>6. CASE c = "vectored_runtime"
  <2>0. /\ Rank(c, "payload") = 1 /\ Rank(c, "vector") = 6 /\ Rank(c, "iovecs") = 7
        /\ Rank(c, "buffer") = 8
    BY <1>6 DEF Rank
  <2>1. Upto(c, One("payload"),
               Single("payload"), 1)
    BY <2>0, FirstOne
  <2>2. Upto(c, One("payload") \o One("vector"),
               Single("payload") \cup Single("vector"), 6)
    BY <2>0, <2>1, JoinOne
  <2>3. Upto(c, One("payload") \o One("vector") \o One("iovecs"),
               Single("payload") \cup Single("vector") \cup Single("iovecs"), 7)
    BY <2>0, <2>2, JoinOne
  <2>4. Upto(c, One("payload") \o One("vector") \o One("iovecs") \o Each("buffer", n),
               Single("payload") \cup Single("vector") \cup Single("iovecs")
                   \cup Blocks("buffer", n), 8)
    BY <2>0, <2>3, JoinEach
  <2> QED BY <1>6, <2>4 DEF Upto, Acquires, Owned
<1>7. CASE c = "fixed_user"
  <2>0. /\ Rank(c, "payload") = 1 /\ Rank(c, "views") = 4 /\ Rank(c, "linear") = 5
        /\ Rank(c, "vector") = 6 /\ Rank(c, "iovecs") = 7 /\ Rank(c, "view") = 8
    BY <1>7 DEF Rank
  <2>1. Upto(c, One("payload"),
               Single("payload"), 1)
    BY <2>0, FirstOne
  <2>2. Upto(c, One("payload") \o One("views"),
               Single("payload") \cup Single("views"), 4)
    BY <2>0, <2>1, JoinOne
  <2>3. Upto(c, One("payload") \o One("views") \o One("linear"),
               Single("payload") \cup Single("views") \cup Single("linear"), 5)
    BY <2>0, <2>2, JoinOne
  <2>4. Upto(c, One("payload") \o One("views") \o One("linear") \o One("vector"),
               Single("payload") \cup Single("views") \cup Single("linear")
                   \cup Single("vector"), 6)
    BY <2>0, <2>3, JoinOne
  <2>5. Upto(c, One("payload") \o One("views") \o One("linear") \o One("vector")
                   \o One("iovecs"),
               Single("payload") \cup Single("views") \cup Single("linear")
                   \cup Single("vector") \cup Single("iovecs"), 7)
    BY <2>0, <2>4, JoinOne
  <2>6. Upto(c, One("payload") \o One("views") \o One("linear") \o One("vector")
                   \o One("iovecs") \o Each("view", n),
               Single("payload") \cup Single("views") \cup Single("linear")
                   \cup Single("vector") \cup Single("iovecs")
                   \cup Blocks("view", n), 8)
    BY <2>0, <2>5, JoinEach
  <2> QED BY <1>7, <2>6 DEF Upto, Acquires, Owned
<1>8. CASE c = "fixed_runtime"
  <2>0. /\ Rank(c, "payload") = 1 /\ Rank(c, "linear") = 5 /\ Rank(c, "vector") = 6
        /\ Rank(c, "iovecs") = 7 /\ Rank(c, "buffer") = 8
    BY <1>8 DEF Rank
  <2>1. Upto(c, One("payload"),
               Single("payload"), 1)
    BY <2>0, FirstOne
  <2>2. Upto(c, One("payload") \o One("linear"),
               Single("payload") \cup Single("linear"), 5)
    BY <2>0, <2>1, JoinOne
  <2>3. Upto(c, One("payload") \o One("linear") \o One("vector"),
               Single("payload") \cup Single("linear") \cup Single("vector"), 6)
    BY <2>0, <2>2, JoinOne
  <2>4. Upto(c, One("payload") \o One("linear") \o One("vector") \o One("iovecs"),
               Single("payload") \cup Single("linear") \cup Single("vector")
                   \cup Single("iovecs"), 7)
    BY <2>0, <2>3, JoinOne
  <2>5. Upto(c, One("payload") \o One("linear") \o One("vector") \o One("iovecs")
                   \o Each("buffer", n),
               Single("payload") \cup Single("linear") \cup Single("vector")
                   \cup Single("iovecs") \cup Blocks("buffer", n), 8)
    BY <2>0, <2>4, JoinEach
  <2> QED BY <1>8, <2>5 DEF Upto, Acquires, Owned
<1>9. CASE c = "normal_runtime"
  <2>0. /\ Rank(c, "payload") = 1 /\ Rank(c, "linear0") = 2 /\ Rank(c, "buffer0") = 3
        /\ Rank(c, "linear") = 5 /\ Rank(c, "vector") = 6 /\ Rank(c, "iovecs") = 7
        /\ Rank(c, "buffer") = 8
    BY <1>9 DEF Rank
  <2>1. Upto(c, One("payload"),
               Single("payload"), 1)
    BY <2>0, FirstOne
  <2>2. Upto(c, One("payload") \o One("linear0"),
               Single("payload") \cup Single("linear0"), 2)
    BY <2>0, <2>1, JoinOne
  <2>3. Upto(c, One("payload") \o One("linear0") \o Each("buffer0", n),
               Single("payload") \cup Single("linear0") \cup Blocks("buffer0", n), 3)
    BY <2>0, <2>2, JoinEach
  <2>4. Upto(c, One("payload") \o One("linear0") \o Each("buffer0", n)
                   \o One("linear"),
               Single("payload") \cup Single("linear0") \cup Blocks("buffer0", n)
                   \cup Single("linear"), 5)
    BY <2>0, <2>3, JoinOne
  <2>5. Upto(c, One("payload") \o One("linear0") \o Each("buffer0", n)
                   \o One("linear") \o One("vector"),
               Single("payload") \cup Single("linear0") \cup Blocks("buffer0", n)
                   \cup Single("linear") \cup Single("vector"), 6)
    BY <2>0, <2>4, JoinOne
  <2>6. Upto(c, One("payload") \o One("linear0") \o Each("buffer0", n)
                   \o One("linear") \o One("vector") \o One("iovecs"),
               Single("payload") \cup Single("linear0") \cup Blocks("buffer0", n)
                   \cup Single("linear") \cup Single("vector") \cup Single("iovecs"), 7)
    BY <2>0, <2>5, JoinOne
  <2>7. Upto(c, One("payload") \o One("linear0") \o Each("buffer0", n)
                   \o One("linear") \o One("vector") \o One("iovecs")
                   \o Each("buffer", n),
               Single("payload") \cup Single("linear0") \cup Blocks("buffer0", n)
                   \cup Single("linear") \cup Single("vector") \cup Single("iovecs")
                   \cup Blocks("buffer", n), 8)
    BY <2>0, <2>6, JoinEach
  <2> QED BY <1>9, <2>7 DEF Upto, Acquires, Owned
<1>10. CASE c = "normal_user"
  <2>0. /\ Rank(c, "payload") = 1
        /\ Rank(c, "views0") = 2
        /\ Rank(c, "linear0") = 3
        /\ Rank(c, "view0") = 4
        /\ Rank(c, "views") = 5
        /\ Rank(c, "linear") = 6
        /\ Rank(c, "vector") = 7
        /\ Rank(c, "iovecs") = 8
        /\ Rank(c, "view") = 9
    BY <1>10 DEF Rank
  <2>1. Upto(c, One("payload"),
               Single("payload"), 1)
    BY <2>0, FirstOne
  <2>2. Upto(c, One("payload") \o One("views0"),
               Single("payload") \cup Single("views0"), 2)
    BY <2>0, <2>1, JoinOne
  <2>3. Upto(c, One("payload") \o One("views0") \o One("linear0"),
               Single("payload") \cup Single("views0") \cup Single("linear0"), 3)
    BY <2>0, <2>2, JoinOne
  <2>4. Upto(c, One("payload") \o One("views0") \o One("linear0")
                   \o Each("view0", n),
               Single("payload") \cup Single("views0") \cup Single("linear0")
                   \cup Blocks("view0", n), 4)
    BY <2>0, <2>3, JoinEach
  <2>5. Upto(c, One("payload") \o One("views0") \o One("linear0")
                   \o Each("view0", n) \o One("views"),
               Single("payload") \cup Single("views0") \cup Single("linear0")
                   \cup Blocks("view0", n) \cup Single("views"), 5)
    BY <2>0, <2>4, JoinOne
  <2>6. Upto(c, One("payload") \o One("views0") \o One("linear0")
                   \o Each("view0", n) \o One("views") \o One("linear"),
               Single("payload") \cup Single("views0") \cup Single("linear0")
                   \cup Blocks("view0", n) \cup Single("views") \cup Single("linear"), 6)
    BY <2>0, <2>5, JoinOne
  <2>7. Upto(c, One("payload") \o One("views0") \o One("linear0")
                   \o Each("view0", n) \o One("views") \o One("linear")
                   \o One("vector"),
               Single("payload") \cup Single("views0") \cup Single("linear0")
                   \cup Blocks("view0", n) \cup Single("views") \cup Single("linear")
                   \cup Single("vector"), 7)
    BY <2>0, <2>6, JoinOne
  <2>8. Upto(c, One("payload") \o One("views0") \o One("linear0")
                   \o Each("view0", n) \o One("views") \o One("linear")
                   \o One("vector") \o One("iovecs"),
               Single("payload") \cup Single("views0") \cup Single("linear0")
                   \cup Blocks("view0", n) \cup Single("views") \cup Single("linear")
                   \cup Single("vector") \cup Single("iovecs"), 8)
    BY <2>0, <2>7, JoinOne
  <2>9. Upto(c, One("payload") \o One("views0") \o One("linear0")
                   \o Each("view0", n) \o One("views") \o One("linear")
                   \o One("vector") \o One("iovecs") \o Each("view", n),
               Single("payload") \cup Single("views0") \cup Single("linear0")
                   \cup Blocks("view0", n) \cup Single("views") \cup Single("linear")
                   \cup Single("vector") \cup Single("iovecs") \cup Blocks("view", n), 9)
    BY <2>0, <2>8, JoinEach
  <2> QED BY <1>10, <2>9 DEF Upto, Acquires, Owned
<1> QED BY <1>1, <1>2, <1>3, <1>4, <1>5, <1>6, <1>7, <1>8, <1>9, <1>10
        DEF Ctors, Handlers, Cleaning, Linear, RingModes, FixedModes, NormalModes

-----------------------------------------------------------------------------
(***************************************************************************)
(* The steps of a constructor.                                              *)
(***************************************************************************)
\* A block is a name with a number.
LEMMA OwnedBlocks ==
    ASSUME NEW c \in Ctors, NEW n \in Nat, NEW x \in Owned(c, n)
    PROVE  x = <<x[1], x[2]>> /\ x[2] \in Nat
<1>1. \A name : \A y \in Single(name) : y = <<y[1], y[2]>> /\ y[2] \in Nat
  BY DEF Single
<1>2. \A name : \A k \in Nat : \A y \in Blocks(name, k) : y = <<y[1], y[2]>> /\ y[2] \in Nat
  BY DEF Blocks
<1> QED BY <1>1, <1>2
        DEF Owned, Ctors, Handlers, Cleaning, Linear, RingModes, FixedModes, NormalModes

LEMMA ItemsType ==
    ASSUME NEW c \in Ctors, NEW n \in Items(c)
    PROVE  /\ n \in Nat
           /\ c \in {"from_data", "from_pybuffer", "linear_user", "linear_runtime",
                     "vectored_runtime"} => n = 1
           /\ c = "normal_runtime" => n >= 1
  BY MaxItemsAssumption DEF Items, Ctors, Handlers, Cleaning, Linear, RingModes, FixedModes,
                            NormalModes, Sequenced

LEMMA InitInv == Init => Inv
<1> SUFFICES ASSUME Init PROVE Inv
  OBVIOUS
<1>1. ctor \in Ctors /\ items \in Items(ctor) /\ items \in Nat
  BY ItemsType DEF Init
<1>2. RunningInv
  <2>1. Owned(ctor, items) \ heap = Owned(ctor, items)
    BY DEF Init
  <2> QED BY <1>1, <2>1, AcquiresLists DEF Init, RunningInv
<1> QED BY <1>1, <1>2 DEF Init, Inv, NoFallThrough, BuiltInv, FailureLeaks, FreedOnce

\* The head of a list comes before the rest, and the rest lists the others.
LEMMA ListTail ==
    ASSUME NEW c, NEW B, NEW s, Lists(c, s, B), s # << >>,
           \A x \in B : x[2] \in Nat
    PROVE  /\ Head(s) \in B
           /\ \A y \in B \ {Head(s)} : Precedes(c, Head(s), y)
           /\ Lists(c, Tail(s), B \ {Head(s)})
<1>1. s \in Seq(B)
  BY DEF Lists
<1>2. /\ Head(s) = s[1] /\ Head(s) \in B /\ Len(s) \in Nat \ {0}
      /\ Tail(s) \in Seq(B) /\ Len(Tail(s)) = Len(s) - 1
      /\ \A k \in 1 .. Len(s) - 1 : Tail(s)[k] = s[k + 1]
  BY <1>1
<1>3. \A k \in 1 .. Len(s) : k = 1 \/ (k - 1 \in 1 .. Len(s) - 1 /\ Tail(s)[k - 1] = s[k])
  BY <1>2
<1>4. \A k \in 1 .. Len(s) - 1 : Precedes(c, Head(s), Tail(s)[k])
  <2> SUFFICES ASSUME NEW k \in 1 .. Len(s) - 1 PROVE Precedes(c, Head(s), Tail(s)[k])
    OBVIOUS
  <2>1. 1 \in 1 .. Len(s) /\ k + 1 \in 1 .. Len(s) /\ 1 < k + 1
    BY <1>2
  <2>2. Precedes(c, s[1], s[k + 1])
    BY <2>1 DEF Lists
  <2> QED BY <1>2, <2>2
<1>5. ~Precedes(c, Head(s), Head(s))
  BY <1>2, RankType DEF Precedes
<1>6. \A k \in 1 .. Len(s) - 1 : Tail(s)[k] \in B \ {Head(s)}
  BY <1>2, <1>4, <1>5
<1>7. Tail(s) \in Seq(B \ {Head(s)})
  <2>1. PICK t : t = Tail(s)
    OBVIOUS
  <2>2. PICK m \in Nat : m = Len(s) - 1
    <3>1. Len(s) - 1 \in Nat
      BY <1>2
    <3> QED BY <3>1
  <2>3. t \in Seq(B) /\ Len(t) = m /\ \A k \in 1 .. m : t[k] \in B \ {Head(s)}
    BY <2>1, <2>2, <1>2, <1>6
  <2>4. t \in [1 .. m -> B \ {Head(s)}]
    BY <2>3
  <2>5. t \in Seq(B \ {Head(s)})
    BY <2>4
  <2> QED BY <2>1, <2>5
<1>8. B \ {Head(s)} \subseteq {Tail(s)[i] : i \in 1 .. Len(Tail(s))}
  <2> SUFFICES ASSUME NEW y \in B, y # Head(s)
               PROVE  \E i \in 1 .. Len(Tail(s)) : Tail(s)[i] = y
    OBVIOUS
  <2>1. PICK k \in 1 .. Len(s) : s[k] = y
    BY DEF Lists
  <2>2. k # 1
    BY <2>1, <1>2
  <2> QED BY <2>1, <2>2, <1>2, <1>3
<1>9. \A i, j \in 1 .. Len(Tail(s)) : i < j => Precedes(c, Tail(s)[i], Tail(s)[j])
  <2> SUFFICES ASSUME NEW i \in 1 .. Len(Tail(s)), NEW j \in 1 .. Len(Tail(s)), i < j
               PROVE  Precedes(c, Tail(s)[i], Tail(s)[j])
    OBVIOUS
  <2>1. i + 1 \in 1 .. Len(s) /\ j + 1 \in 1 .. Len(s) /\ i + 1 < j + 1
    BY <1>2
  <2>2. Precedes(c, s[i + 1], s[j + 1])
    BY <2>1 DEF Lists
  <2> QED BY <2>2, <1>2
<1>10. \A y \in B \ {Head(s)} : Precedes(c, Head(s), y)
  BY <1>2, <1>4, <1>8
<1> QED BY <1>2, <1>7, <1>8, <1>9, <1>10 DEF Lists

\* An acquisition succeeds.
LEMMA AcquireInv ==
    ASSUME Inv, Acquire
    PROVE  Inv'
<1> USE DEF Inv
<1>1. PICK c \in Ctors, n \in Nat : c = ctor /\ n = items
  BY ItemsType
<1>2. /\ Running /\ todo # << >> /\ heap' = heap \cup {Head(todo)} /\ todo' = Tail(todo)
      /\ UNCHANGED <<ctor, items, status, fields, twice, undefined>>
  BY DEF Acquire
<1>3. /\ heap \subseteq Owned(c, n) /\ Lists(c, todo, Owned(c, n) \ heap)
      /\ \A x \in heap, y \in Owned(c, n) \ heap : Precedes(c, x, y)
  BY <1>1, <1>2 DEF RunningInv
<1>4. \A x \in Owned(c, n) : x[2] \in Nat
  BY OwnedBlocks
<1>5. PICK h : h = Head(todo)
  OBVIOUS
<1>6. /\ h \in Owned(c, n) \ heap
      /\ \A y \in (Owned(c, n) \ heap) \ {h} : Precedes(c, h, y)
      /\ Lists(c, todo', (Owned(c, n) \ heap) \ {h})
  BY <1>2, <1>3, <1>4, <1>5, ListTail
<1>7. (Owned(c, n) \ heap) \ {h} = Owned(c, n) \ heap'
  BY <1>2, <1>5
<1>8. RunningInv'
  <2>1. ctor' = c /\ items' = n
    BY <1>1, <1>2
  <2>2. heap' \subseteq Owned(c, n)
    BY <1>2, <1>3, <1>5, <1>6
  <2>3. \A x \in heap', y \in Owned(c, n) \ heap' : Precedes(c, x, y)
    BY <1>2, <1>3, <1>5, <1>6
  <2>4. Lists(c, todo', Owned(c, n) \ heap')
    BY <1>6, <1>7
  <2> QED BY <2>1, <2>2, <2>3, <2>4 DEF RunningInv
<1>9. NoFallThrough'
  <2>1. ctor = "normal_user" /\ items = 0 => Head(todo) # <<"views", 0>>
    BY DEF Acquire, Overruns, NoItems, Sequenced, SetsViews
  <2> QED BY <1>2, <2>1 DEF NoFallThrough, Running
<1> QED BY <1>2, <1>8, <1>9 DEF Running, BuiltInv, FailureLeaks, FreedOnce

\* What a constructor holds came before what it fails to acquire.
LEMMA HeldBefore ==
    ASSUME Inv, Failing
    PROVE  /\ heap \subseteq Owned(ctor, items) /\ Head(todo) \in Owned(ctor, items)
           /\ \A x \in heap : Precedes(ctor, x, Head(todo))
           /\ \A x \in heap, y \in Owned(ctor, items) \ heap : Precedes(ctor, x, y)
<1>1. PICK c \in Ctors, n \in Nat : c = ctor /\ n = items
  BY ItemsType DEF Inv
<1>2. /\ heap \subseteq Owned(c, n) /\ Lists(c, todo, Owned(c, n) \ heap)
      /\ \A x \in heap, y \in Owned(c, n) \ heap : Precedes(c, x, y)
  BY <1>1 DEF Inv, RunningInv, Failing
<1>3. todo \in Seq(Owned(c, n) \ heap) /\ todo # << >>
  BY <1>2 DEF Lists, Failing
<1>4. Head(todo) \in Owned(c, n) \ heap
  BY <1>3
<1> QED BY <1>1, <1>2, <1>4

\* The branches for a failing acquisition, constructor by constructor: what they
\* leave of the blocks held.
LEMMA Leftovers ==
    ASSUME NEW c \in Ctors \ (Linear \cup FixedModes \cup NormalModes),
           NEW n \in Items(c), NEW b \in Owned(c, n), NEW x \in Owned(c, n),
           Precedes(c, x, b), x[1] \notin GivesBack(c, b[1])
    PROVE  \/ c = "from_pybuffer" /\ x = <<"view", 1>>
           \/ c \in RingModes /\ x = <<"payload", 0>>
<1>1. n \in Nat /\ (c \in {"from_data", "from_pybuffer", "vectored_runtime"} => n = 1)
  BY ItemsType
<1>2. CASE c = "from_data"
  <2>1. /\ b \in {<<"payload", 0>>, <<"linear", 0>>, <<"views", 0>>, <<"view", 1>>}
        /\ x \in {<<"payload", 0>>, <<"linear", 0>>, <<"views", 0>>, <<"view", 1>>}
    BY <1>2 DEF Owned, Single, Blocks
  <2> QED BY <1>2, <2>1 DEF Precedes, Rank, GivesBack, FromData
<1>3. CASE c = "from_pybuffer"
  <2>1. /\ b \in {<<"view", 1>>, <<"payload", 0>>, <<"vector", 0>>, <<"iovecs", 0>>, <<"views", 0>>}
        /\ x \in {<<"view", 1>>, <<"payload", 0>>, <<"vector", 0>>, <<"iovecs", 0>>, <<"views", 0>>}
    BY <1>3 DEF Owned, Single, Blocks
  <2> QED BY <1>3, <2>1 DEF Precedes, Rank, GivesBack, FromPybuffer
<1>4. CASE c = "ring_user"
  <2>1. /\ b[1] \in {"payload", "views", "linear", "view"}
        /\ x[1] \in {"payload", "views", "linear", "view"}
        /\ x[1] = "payload" => x = <<"payload", 0>>
        /\ b[1] = "payload" => b[2] = 0
    BY <1>4 DEF Owned, Single, Blocks
  <2> QED BY <1>4, <2>1 DEF Precedes, Rank, GivesBack, SerializeLinear, RingModes
<1>5. CASE c = "ring_runtime"
  <2>1. /\ b[1] \in {"payload", "linear", "buffer"}
        /\ x[1] \in {"payload", "linear", "buffer"}
        /\ x[1] \in {"payload", "linear"} => x = <<x[1], 0>>
        /\ b[1] \in {"payload", "linear"} => b = <<b[1], 0>>
    BY <1>5 DEF Owned, Single, Blocks
  <2> QED BY <1>5, <2>1 DEF Precedes, Rank, GivesBack, CreateLinear, RingModes
<1>6. CASE c = "vectored_user"
  <2>1. /\ b[1] \in {"payload", "views", "vector", "iovecs", "view"}
        /\ x[1] \in {"payload", "views", "vector", "iovecs", "view"}
        /\ x[1] # "view" => x = <<x[1], 0>>
        /\ b[1] # "view" => b = <<b[1], 0>>
    BY <1>6 DEF Owned, Single, Blocks
  <2> QED BY <1>6, <2>1 DEF Precedes, Rank, GivesBack, SerializeVectored
<1>7. CASE c = "vectored_runtime"
  <2>1. /\ b[1] \in {"payload", "vector", "iovecs", "buffer"}
        /\ x[1] \in {"payload", "vector", "iovecs", "buffer"}
        /\ x[1] # "buffer" => x = <<x[1], 0>>
        /\ b[1] # "buffer" => b = <<b[1], 0>>
    BY <1>7 DEF Owned, Single, Blocks
  <2> QED BY <1>7, <2>1 DEF Precedes, Rank, GivesBack, CreateVectored
<1> QED BY <1>2, <1>3, <1>4, <1>5, <1>6, <1>7
        DEF Ctors, Handlers, Cleaning, Linear, RingModes, FixedModes, NormalModes

\* What the constructors that fill both arrays hold before the linear array.
LEMMA BeforeLinear ==
    ASSUME NEW c \in FixedModes \cup NormalModes, NEW n \in Nat,
           NEW x \in Owned(c, n), Precedes(c, x, <<"linear", 0>>)
    PROVE  \/ x = <<"payload", 0>>
           \/ c = "fixed_user" /\ x = <<"views", 0>>
           \/ c \in NormalModes /\ x[1] \in FirstKinds \cup {"views"}
<1>1. CASE c = "fixed_user"
  <2>1. /\ x[1] \in {"payload", "views", "linear", "vector", "iovecs", "view"}
        /\ x[1] # "view" => x = <<x[1], 0>>
    BY <1>1 DEF Owned, Single, Blocks
  <2> QED BY <1>1, <2>1 DEF Precedes, Rank
<1>2. CASE c = "fixed_runtime"
  <2>1. /\ x[1] \in {"payload", "linear", "vector", "iovecs", "buffer"}
        /\ x[1] # "buffer" => x = <<x[1], 0>>
    BY <1>2 DEF Owned, Single, Blocks
  <2> QED BY <1>2, <2>1 DEF Precedes, Rank
<1>3. CASE c = "normal_runtime"
  <2>1. /\ x[1] \in {"payload", "linear0", "buffer0", "linear", "vector", "iovecs", "buffer"}
        /\ x[1] = "linear" => x = <<x[1], 0>>
    BY <1>3 DEF Owned, Single, Blocks
  <2> QED BY <1>3, <2>1 DEF Precedes, Rank, NormalModes, FirstKinds
<1>4. CASE c = "normal_user"
  <2>1. /\ x[1] \in {"payload", "views0", "linear0", "view0", "views", "linear", "vector",
                     "iovecs", "view"}
        /\ x[1] = "linear" => x = <<x[1], 0>>
    BY <1>4 DEF Owned, Single, Blocks
  <2> QED BY <1>4, <2>1 DEF Precedes, Rank, NormalModes, FirstKinds
<1> QED BY <1>1, <1>2, <1>3, <1>4 DEF FixedModes, NormalModes

\* And what NORMAL_BUF holds before it falls through.
LEMMA BeforeFallThrough ==
    ASSUME NEW c \in NormalModes, NEW n \in Nat, NEW x \in Owned(c, n),
           \/ Precedes(c, x, <<"buffer0", n>>) /\ c = "normal_runtime"
           \/ Precedes(c, x, <<"view0", n>>) /\ c = "normal_user"
           \/ Precedes(c, x, <<"views", 0>>) /\ c = "normal_user"
    PROVE  x[1] \in FirstKinds
<1>1. CASE c = "normal_runtime"
  <2>1. x[1] \in {"payload", "linear0", "buffer0", "linear", "vector", "iovecs", "buffer"}
    BY <1>1 DEF Owned, Single, Blocks
  <2> QED BY <1>1, <2>1 DEF Precedes, Rank, FirstKinds
<1>2. CASE c = "normal_user"
  <2>1. /\ x[1] \in {"payload", "views0", "linear0", "view0", "views", "linear", "vector",
                     "iovecs", "view"}
        /\ x[1] = "views" => x = <<x[1], 0>>
    BY <1>2 DEF Owned, Single, Blocks
  <2> QED BY <1>2, <2>1 DEF Precedes, Rank, FirstKinds
<1> QED BY <1>1, <1>2 DEF NormalModes

\* An acquisition fails.
LEMMA FailInv ==
    ASSUME Inv, Fail
    PROVE  Inv'
<1> USE DEF Inv
<1>1. PICK c \in Ctors : c = ctor
  OBVIOUS
<1>2. PICK n \in Items(c) : n = items
  BY <1>1
<1>3. n \in Nat /\ (c = "normal_runtime" => n >= 1)
  BY ItemsType
<1>4. /\ Failing /\ c \notin Linear /\ ~FillsBoth /\ status' = "null"
      /\ heap' = IF heap = {} THEN {}
                 ELSE {x \in heap : x[1] \notin GivesBack(c, Head(todo)[1])}
      /\ UNCHANGED <<ctor, items, undefined>>
  BY <1>1 DEF Fail
<1>5. /\ heap \subseteq Owned(c, n) /\ Head(todo) \in Owned(c, n)
      /\ \A x \in heap : Precedes(c, x, Head(todo))
      /\ \A x \in heap, y \in Owned(c, n) \ heap : Precedes(c, x, y)
  BY <1>1, <1>2, <1>4, HeldBefore
<1>6. ASSUME NEW x \in heap'
      PROVE  \/ c = "from_pybuffer" /\ x = <<"view", 1>>
             \/ c \in RingModes /\ x = <<"payload", 0>>
             \/ c \in NormalModes /\ x[1] \in FirstKinds
  <2>1. x \in heap /\ x[1] \notin GivesBack(c, Head(todo)[1])
    BY <1>4
  <2>2. c \notin FixedModes
    BY <1>1, <1>4, <2>1 DEF FillsBoth
  <2>3. CASE c = "normal_runtime"
    <3>0. c \in NormalModes
      BY <2>3 DEF NormalModes
    <3>1. <<"buffer0", n>> \in Owned(c, n)
      BY <1>3, <2>3 DEF Owned, Blocks
    <3>2. <<"buffer0", n>> \notin heap
      BY <1>1, <1>2, <1>4, <3>0 DEF FillsBoth
    <3>3. Precedes(c, x, <<"buffer0", n>>) /\ x \in Owned(c, n)
      BY <1>5, <2>1, <3>1, <3>2
    <3> QED BY <1>3, <2>3, <3>0, <3>3, BeforeFallThrough
  <2>5. CASE c = "normal_user"
    <3>0. c \in NormalModes
      BY <2>5 DEF NormalModes
    <3>1. CASE n = 0
      <4>1. <<"views", 0>> \in Owned(c, n)
        BY <2>5 DEF Owned, Single
      <4>2. <<"views", 0>> \notin heap
        BY <1>1, <1>2, <1>4, <2>5, <3>1 DEF NoFallThrough, Failing
      <4>3. Precedes(c, x, <<"views", 0>>) /\ x \in Owned(c, n)
        BY <1>5, <2>1, <4>1, <4>2
      <4> QED BY <1>3, <2>5, <3>0, <4>3, BeforeFallThrough
    <3>2. CASE n # 0
      <4>1. <<"view0", n>> \in Owned(c, n)
        <5>1. n \in 1 .. n
          BY <1>3, <3>2
        <5> QED BY <2>5, <5>1 DEF Owned, Blocks
      <4>2. <<"view0", n>> \notin heap
        BY <1>1, <1>2, <1>4, <3>0 DEF FillsBoth
      <4>3. Precedes(c, x, <<"view0", n>>) /\ x \in Owned(c, n)
        BY <1>5, <2>1, <4>1, <4>2
      <4> QED BY <1>3, <2>5, <3>0, <4>3, BeforeFallThrough
    <3> QED BY <3>1, <3>2
  <2>4. CASE c \notin NormalModes
    <3>1. c \in Ctors \ (Linear \cup FixedModes \cup NormalModes)
      BY <1>4, <2>2, <2>4
    <3> QED BY <1>5, <2>1, <3>1, Leftovers
  <2> QED BY <2>3, <2>4, <2>5 DEF NormalModes
<1>7. FailureLeaks'
  <2>1. ctor' = c
    BY <1>1, <1>4
  <2>2. CASE c = "from_pybuffer"
    BY <1>6, <2>1, <2>2 DEF FailureLeaks, RingModes, NormalModes
  <2>3. CASE c \in RingModes
    BY <1>6, <2>1, <2>3 DEF FailureLeaks, RingModes, NormalModes
  <2>4. CASE c \in NormalModes
    BY <1>6, <2>1, <2>4 DEF FailureLeaks, RingModes, NormalModes
  <2>5. CASE c \notin RingModes \cup NormalModes \cup {"from_pybuffer"}
    <3>1. heap' = {}
      BY <1>6, <2>5
    <3> QED BY <3>1 DEF FailureLeaks
  <2> QED BY <2>2, <2>3, <2>4, <2>5
<1> QED BY <1>4, <1>7 DEF Running, RunningInv, NoFallThrough, BuiltInv, FreedOnce

LEMMA FailLinearInv ==
    ASSUME Inv, FailLinear
    PROVE  Inv'
<1> USE DEF Inv
<1>1. /\ UNCHANGED <<ctor, items>>
      /\ undefined' \in BOOLEAN
      /\ \/ status' = "null" /\ heap' = {}
         \/ status' = "built" /\ undefined' = TRUE
  BY DEF FailLinear
<1>2. FailureLeaks'
  BY <1>1 DEF FailureLeaks
<1> QED BY <1>1, <1>2 DEF Running, RunningInv, NoFallThrough, BuiltInv, FreedOnce

LEMMA FailBothInv ==
    ASSUME Inv, FailBoth
    PROVE  Inv'
<1> USE DEF Inv
<1>1. PICK c \in Ctors : c = ctor
  OBVIOUS
<1>2. PICK n \in Items(c) : n = items
  BY <1>1
<1>3. n \in Nat
  BY ItemsType
<1>4. Failing /\ FillsBoth /\ UNCHANGED <<ctor, items>> /\ c \in FixedModes \cup NormalModes
  BY <1>1 DEF FailBoth, FillsBoth
<1>5. CASE <<"linear", 0>> \in heap
  <2>1. undefined' = TRUE /\ status' = status /\ status = "running"
    BY <1>5 DEF FailBoth, Failing, Running
  <2> QED BY <2>1, <1>4 DEF Running, RunningInv, NoFallThrough, BuiltInv, FailureLeaks, FreedOnce
<1>6. CASE <<"linear", 0>> \notin heap
  <2>1. /\ status' = "null" /\ heap' = heap \ {<<"payload", 0>>} /\ undefined' = undefined
    BY <1>6 DEF FailBoth
  <2>2. <<"linear", 0>> \in Owned(c, n)
    BY <1>4 DEF Owned, Single, FixedModes, NormalModes
  <2>3. \A x \in heap : x \in Owned(c, n) /\ Precedes(c, x, <<"linear", 0>>)
    BY <1>1, <1>2, <1>4, <1>6, <2>2, HeldBefore
  <2>4. \A x \in heap' : \/ c = "fixed_user" /\ x = <<"views", 0>>
                         \/ c \in NormalModes /\ x[1] \in FirstKinds \cup {"views"}
    BY <1>3, <1>4, <2>1, <2>3, BeforeLinear
  <2>5. FailureLeaks'
    <3>1. ctor' = c
      BY <1>1, <1>4
    <3>2. CASE c = "fixed_user"
      BY <3>1, <3>2, <2>4 DEF FailureLeaks, RingModes
    <3>3. CASE c \in NormalModes
      BY <3>1, <3>3, <2>4 DEF FailureLeaks, RingModes, NormalModes
    <3>4. CASE c \notin NormalModes \cup {"fixed_user"}
      <4>1. heap' = {}
        BY <2>4, <3>4
      <4> QED BY <4>1 DEF FailureLeaks
    <3> QED BY <3>2, <3>3, <3>4
  <2> QED BY <2>1, <2>5, <1>4 DEF Running, RunningInv, NoFallThrough, BuiltInv, FreedOnce
<1> QED BY <1>5, <1>6

-----------------------------------------------------------------------------
(***************************************************************************)
(* free_buffer_payload.                                                     *)
(***************************************************************************)
\* What the fields of a payload that was built say, against what it owns.
LEMMA FieldsCover ==
    ASSUME NEW c \in Ctors \ NormalModes, NEW n \in Items(c), items = n
    PROVE  Owned(c, n) \subseteq
               LinearFrees(Built(c)) \cup VectorFrees(Built(c)) \cup {<<"payload", 0>>}
<1>1. n \in Nat /\ (c \in {"from_data", "from_pybuffer", "linear_user", "linear_runtime",
                           "vectored_runtime"} => n = 1)
  BY ItemsType
<1>2. CASE c \in {"from_data", "linear_user", "ring_user"}
  <2>1. Built(c).linear /\ Built(c).lviews
    BY <1>2 DEF Built, FixedModes
  <2> QED BY <1>1, <1>2, <2>1 DEF Owned, LinearFrees, Single
<1>3. CASE c \in {"linear_runtime", "ring_runtime"}
  <2>1. Built(c).linear /\ Built(c).runtime
    BY <1>3 DEF Built, FixedModes
  <2> QED BY <1>1, <1>3, <2>1 DEF Owned, LinearFrees, Single
<1>4. CASE c \in {"from_pybuffer", "vectored_user"}
  <2>1. Built(c).vector /\ Built(c).vviews = "set"
    BY <1>4 DEF Built, FixedModes
  <2> QED BY <1>1, <1>4, <2>1 DEF Owned, VectorFrees, Single
<1>5. CASE c = "vectored_runtime"
  <2>1. Built(c).vector /\ Built(c).runtime
    BY <1>5 DEF Built, FixedModes
  <2> QED BY <1>1, <1>5, <2>1 DEF Owned, VectorFrees, Single
<1>6. CASE c = "fixed_user"
  <2>1. Built(c).vector /\ Built(c).linear /\ Built(c).lviews
    BY <1>6 DEF Built, FixedModes
  <2> QED BY <1>1, <1>6, <2>1 DEF Owned, VectorFrees, LinearFrees, Single
<1>7. CASE c = "fixed_runtime"
  <2>1. Built(c).vector /\ Built(c).linear /\ Built(c).runtime
    BY <1>7 DEF Built, FixedModes
  <2> QED BY <1>1, <1>7, <2>1 DEF Owned, VectorFrees, LinearFrees, Single
<1> QED BY <1>2, <1>3, <1>4, <1>5, <1>6, <1>7
        DEF Ctors, Handlers, Cleaning, Linear, RingModes, FixedModes

\* Two arrays share blocks only where make_buffers has filled both.
LEMMA FieldsDisjoint ==
    ASSUME NEW c \in Ctors \ {"normal_runtime", "fixed_runtime"}
    PROVE  LinearFrees(Built(c)) \cap VectorFrees(Built(c)) = {}
<1>1. CASE c \in {"fixed_user", "normal_user"}
  <2>1. ~Built(c).runtime /\ Built(c).vviews = "null"
    BY <1>1 DEF Built
  <2>2. VectorFrees(Built(c)) \subseteq {<<"vector", 0>>, <<"iovecs", 0>>}
    BY <2>1 DEF VectorFrees
  <2>3. LinearFrees(Built(c)) \subseteq
            {<<"linear", 0>>, <<"views", 0>>} \cup Blocks("view", items)
    BY <2>1 DEF LinearFrees
  <2> QED BY <2>2, <2>3 DEF Blocks
<1>2. CASE c \notin {"fixed_user", "normal_user"}
  <2>1. ~Built(c).linear \/ ~Built(c).vector
    BY <1>2 DEF Built, Ctors, Handlers, Cleaning, Linear, RingModes, FixedModes, NormalModes
  <2> QED BY <2>1 DEF LinearFrees, VectorFrees
<1> QED BY <1>1, <1>2

LEMMA FreePayloadInv ==
    ASSUME Inv, NEW force \in BOOLEAN, FreePayload(force)
    PROVE  Inv'
<1> USE DEF Inv
<1>1. /\ status' = "freed" /\ UNCHANGED <<ctor, items>> /\ undefined' \in BOOLEAN
      /\ heap' = heap \ (LinearFrees(fields) \cup VectorFrees(fields) \cup {<<"payload", 0>>})
      /\ twice' = LinearFrees(fields) \cap VectorFrees(fields)
      /\ fields = Built(ctor) /\ heap \subseteq Owned(ctor, items)
  BY DEF FreePayload, BuiltInv
<1>2. ctor \notin NormalModes => heap' = {}
  BY <1>1, FieldsCover
<1>3. ctor \notin {"normal_runtime", "fixed_runtime"} => twice' = {}
  BY <1>1, FieldsDisjoint
<1>4. FreedOnce'
  BY <1>1, <1>2, <1>3 DEF FreedOnce
<1> QED BY <1>1, <1>4 DEF Running, RunningInv, NoFallThrough, BuiltInv, FailureLeaks

\* Every step keeps the invariant.
LEMMA NextInv == Inv /\ [Next]_vars => Inv'
<1> SUFFICES ASSUME Inv, [Next]_vars PROVE Inv'
  OBVIOUS
<1>1. CASE NoBuffers
  BY <1>1 DEF Inv, NoBuffers, Running, RunningInv, NoFallThrough, BuiltInv, FailureLeaks, FreedOnce
<1>2. CASE Succeed
  BY <1>2 DEF Inv, Succeed, Running, RunningInv, NoFallThrough, BuiltInv, FailureLeaks, FreedOnce
<1>3. CASE UNCHANGED vars
  BY <1>3 DEF Inv, vars, Running, RunningInv, NoFallThrough, BuiltInv, FailureLeaks, FreedOnce
<1> QED BY <1>1, <1>2, <1>3, AcquireInv, FailInv, FailLinearInv, FailBothInv, FreePayloadInv
        DEF Next

LEMMA InvHolds == Spec => []Inv
  BY InitInv, NextInv, PTL DEF Spec

-----------------------------------------------------------------------------
\* A constructor that returns NULL leaves no more behind than FailureLeaks says,
\* whichever of its acquisitions has failed and however many buffers there are.
THEOREM FailuresLeakNoMore == Spec => []FailureLeaks
<1>1. Inv => FailureLeaks
  BY DEF Inv
<1> QED BY <1>1, InvHolds, PTL

\* free_buffer_payload gives back everything once, but for the two modes whose
\* arrays make_buffers fills with the same buffers.
THEOREM PayloadsAreFreedOnce == Spec => []FreedOnce
<1>1. Inv => FreedOnce
  BY DEF Inv
<1> QED BY <1>1, InvHolds, PTL
=============================================================================
