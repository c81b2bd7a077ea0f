--------------------------- MODULE EventLoopProofs ---------------------------
(***************************************************************************)
(* What holds of run_once for every set of handles, every choice of delays, *)
(* clock resolution and longest wait, and however far the clock runs.       *)
(***************************************************************************)
EXTENDS EventLoop, FiniteSetTheorems, WellFoundedInduction, TLAPS

Distinct(s) == \A j, k \in 1 .. Len(s) : s[j] = s[k] => j = k

\* Where a handle can be.  A callback whose future was cancelled is in the kernel
\* and in _ready, or has run.
PlaceInv ==
    /\ Distinct(ready) /\ Distinct(cqes)
    /\ Range(ready) \cap (ran \cup scheduled \cup lost) = {}
    /\ scheduled \cap (ran \cup lost) = {}
    /\ Range(cqes) \cap requests = {}
    /\ ((requests \cup Range(cqes)) \ orphaned) \cap (Range(ready) \cup ran \cup lost) = {}
    /\ orphaned \subseteq ran \cup cancelled \cup lost \cup Range(ready)
    /\ ran \cap cancelled = {}
    /\ Range(ready) \cup ran \cup scheduled \cup requests \cup Range(cqes) \cup lost
           \cup cancelled \subseteq issued
    /\ issued \subseteq ran \cup cancelled \cup lost \cup Range(ready) \cup scheduled
                        \cup requests \cup Range(cqes)

ErrorInv == (pyerr => erred) /\ (lost # {} => erred)

\* What compute_timeout has read stays true until it waits.
TimingInv ==
    /\ pc = "timing" => /\ Range(ready) \subseteq Threaded
                        /\ \A h \in scheduled : first <= when[h]
    /\ NoOversleep

TimersInv == NoEarlyTimer /\ IsFiniteSet(scheduled)

Inv == TypeOK /\ PlaceInv /\ ErrorInv /\ TimingInv /\ TimersInv

-----------------------------------------------------------------------------
\* A set of natural numbers has a least element.
LEMMA LeastNumber ==
    ASSUME NEW S \in SUBSET Nat, S # {}
    PROVE  \E n \in S : \A m \in S : n <= m
<1>1. PICK R : R = {ss \in Nat \X Nat : ss[1] < ss[2]}
  OBVIOUS
<1>2. IsWellFoundedOn(R, Nat)
  BY <1>1, NatLessThanWellFounded DEF OpToRel
<1>3. S \subseteq Nat
  OBVIOUS
<1>4. PICK x \in S : \A y \in S : ~(<<y, x>> \in R)
  BY <1>2, <1>3, WFMin
<1>5. ASSUME NEW y \in S PROVE x <= y
  <2>1. <<y, x>> \notin R
    BY <1>4
  <2>2. x \in Nat /\ y \in Nat
    BY <1>3
  <2>3. ~(y < x)
    BY <1>1, <2>1, <2>2
  <2> QED BY <2>2, <2>3
<1> QED BY <1>5

\* The orders in which the elements of a finite set can be popped.
LEMMA PoppedIsOrder ==
    ASSUME NEW S, IsFiniteSet(S), NEW s \in SetToSeqs(S)
    PROVE  s \in Seq(S) /\ Distinct(s) /\ Range(s) = S
<1>1. PICK n \in Nat : n = Cardinality(S)
  BY FS_CardinalityType
<1>2. s \in [1 .. n -> S] /\ \A i, j \in 1 .. n : i # j => s[i] # s[j]
  BY <1>1 DEF SetToSeqs
<1>3. s \in Seq(S) /\ Len(s) = n
  BY <1>2
<1>4. Distinct(s)
  BY <1>2, <1>3 DEF Distinct
<1>5. Range(s) = {s[i] : i \in 1 .. n} /\ Range(s) \subseteq S
  BY <1>2 DEF Range
<1>6. ASSUME NEW x \in S PROVE x \in Range(s)
  <2> SUFFICES ASSUME x \notin Range(s) PROVE FALSE
    OBVIOUS
  <2>1. IsFiniteSet(S \ {x}) /\ Cardinality(S \ {x}) = n - 1
    BY <1>1, FS_RemoveElement
  <2>2. IsFiniteSet(1 .. n) /\ Cardinality(1 .. n) = n
    BY FS_Interval
  <2>3. s \in [1 .. n -> S \ {x}]
    BY <1>2, <1>5
  <2>4. \E i, j \in 1 .. n : i # j /\ s[i] = s[j]
    BY <2>1, <2>2, <2>3, FS_PigeonHole
  <2> QED BY <2>4, <1>2
<1> QED BY <1>3, <1>4, <1>5, <1>6

\* Append, Tail and concatenation, of sequences without duplicates.
LEMMA AppendRange ==
    ASSUME NEW S, NEW s \in Seq(S), NEW x \in S
    PROVE  /\ Append(s, x) \in Seq(S) /\ Append(s, x) # s
           /\ Range(Append(s, x)) = Range(s) \cup {x}
           /\ Distinct(s) /\ x \notin Range(s) => Distinct(Append(s, x))
<1>1. /\ Append(s, x) \in Seq(S) /\ Len(Append(s, x)) = Len(s) + 1 /\ Len(s) \in Nat
      /\ Append(s, x)[Len(s) + 1] = x
      /\ \A k \in 1 .. Len(s) : Append(s, x)[k] = s[k]
  OBVIOUS
<1>2. DOMAIN Append(s, x) = 1 .. Len(s) + 1 /\ DOMAIN s = 1 .. Len(s)
  BY <1>1
<1>3. Range(Append(s, x)) = Range(s) \cup {x}
  <2>1. Range(Append(s, x)) \subseteq Range(s) \cup {x}
    BY <1>1, <1>2 DEF Range
  <2>2. Range(s) \subseteq Range(Append(s, x))
    BY <1>1, <1>2 DEF Range
  <2>3. x \in Range(Append(s, x))
    BY <1>1, <1>2 DEF Range
  <2> QED BY <2>1, <2>2, <2>3
<1>4. ASSUME Distinct(s), x \notin Range(s) PROVE Distinct(Append(s, x))
  <2>1. \A k \in 1 .. Len(s) : s[k] # x
    BY <1>2, <1>4 DEF Range
  <2> QED BY <1>1, <1>4, <2>1 DEF Distinct
<1> QED BY <1>1, <1>3, <1>4

LEMMA TailRange ==
    ASSUME NEW S, NEW s \in Seq(S), s # << >>
    PROVE  /\ Tail(s) \in Seq(S) /\ Len(Tail(s)) = Len(s) - 1 /\ Len(s) \in Nat \ {0}
           /\ Head(s) \in S /\ Head(s) \in Range(s)
           /\ Range(s) = Range(Tail(s)) \cup {Head(s)}
           /\ Distinct(s) => Distinct(Tail(s)) /\ Head(s) \notin Range(Tail(s))
           /\ Distinct(s) => \A k \in 2 .. Len(s) : s[k] \in Range(Tail(s))
<1>1. /\ Tail(s) \in Seq(S) /\ Len(Tail(s)) = Len(s) - 1 /\ Len(s) \in Nat \ {0}
      /\ Head(s) = s[1] /\ Head(s) \in S
      /\ \A k \in 1 .. Len(s) - 1 : Tail(s)[k] = s[k + 1]
  OBVIOUS
<1>2. DOMAIN Tail(s) = 1 .. Len(s) - 1 /\ DOMAIN s = 1 .. Len(s)
  BY <1>1
<1>3. Head(s) \in Range(s)
  BY <1>1, <1>2 DEF Range
<1>4. Range(Tail(s)) \subseteq Range(s)
  BY <1>1, <1>2 DEF Range
<1>5. ASSUME NEW k \in 2 .. Len(s) PROVE s[k] \in Range(Tail(s))
  <2>1. k - 1 \in 1 .. Len(s) - 1 /\ Tail(s)[k - 1] = s[k]
    BY <1>1
  <2> QED BY <2>1, <1>2 DEF Range
<1>6. Range(s) \subseteq Range(Tail(s)) \cup {Head(s)}
  <2> SUFFICES ASSUME NEW k \in 1 .. Len(s) PROVE s[k] \in Range(Tail(s)) \cup {Head(s)}
    BY <1>2 DEF Range
  <2>1. k = 1 \/ k \in 2 .. Len(s)
    BY <1>1
  <2> QED BY <2>1, <1>1, <1>5
<1>7. ASSUME Distinct(s) PROVE Distinct(Tail(s)) /\ Head(s) \notin Range(Tail(s))
  <2>1. Distinct(Tail(s))
    BY <1>1, <1>7 DEF Distinct
  <2>2. \A k \in 1 .. Len(s) - 1 : Tail(s)[k] # Head(s)
    BY <1>1, <1>7 DEF Distinct
  <2> QED BY <2>1, <2>2, <1>2 DEF Range
<1> QED BY <1>1, <1>3, <1>4, <1>5, <1>6, <1>7

LEMMA ConcatRange ==
    ASSUME NEW S, NEW s \in Seq(S), NEW p \in Seq(S)
    PROVE  /\ s \o p \in Seq(S) /\ Len(s \o p) = Len(s) + Len(p)
           /\ Range(s \o p) = Range(s) \cup Range(p)
           /\ Distinct(s) /\ Distinct(p) /\ Range(s) \cap Range(p) = {} => Distinct(s \o p)
<1>1. /\ s \o p \in Seq(S) /\ Len(s \o p) = Len(s) + Len(p)
      /\ Len(s) \in Nat /\ Len(p) \in Nat
      /\ \A k \in 1 .. Len(s) : (s \o p)[k] = s[k]
      /\ \A k \in 1 .. Len(s) + Len(p) : k > Len(s) => (s \o p)[k] = p[k - Len(s)]
  OBVIOUS
<1>2. /\ DOMAIN (s \o p) = 1 .. Len(s) + Len(p)
      /\ DOMAIN s = 1 .. Len(s) /\ DOMAIN p = 1 .. Len(p)
  BY <1>1
<1>3. \A k \in 1 .. Len(s) + Len(p) : k \in 1 .. Len(s) \/ (k > Len(s) /\ k - Len(s) \in 1 .. Len(p))
  BY <1>1
<1>4. Range(s \o p) \subseteq Range(s) \cup Range(p)
  BY <1>1, <1>2, <1>3 DEF Range
<1>5. Range(s) \subseteq Range(s \o p)
  BY <1>1, <1>2 DEF Range
<1>6. ASSUME NEW k \in 1 .. Len(p) PROVE p[k] \in Range(s \o p)
  <2>1. k + Len(s) \in 1 .. Len(s) + Len(p) /\ (s \o p)[k + Len(s)] = p[k]
    BY <1>1
  <2> QED BY <2>1, <1>2 DEF Range
<1>7. Range(p) \subseteq Range(s \o p)
  BY <1>2, <1>6 DEF Range
<1>8. ASSUME Distinct(s), Distinct(p), Range(s) \cap Range(p) = {} PROVE Distinct(s \o p)
  <2>1. \A j \in 1 .. Len(s), k \in 1 .. Len(p) : s[j] # p[k]
    BY <1>2, <1>8 DEF Range
  <2>2. SUFFICES ASSUME NEW j \in 1 .. Len(s) + Len(p), NEW k \in 1 .. Len(s) + Len(p),
                        (s \o p)[j] = (s \o p)[k]
                 PROVE  j = k
    BY <1>1 DEF Distinct
  <2>3. CASE j \in 1 .. Len(s) /\ k \in 1 .. Len(s)
    BY <2>2, <2>3, <1>1, <1>8 DEF Distinct
  <2>4. CASE j > Len(s) /\ k > Len(s)
    <3>1. p[j - Len(s)] = p[k - Len(s)] /\ j - Len(s) \in 1 .. Len(p) /\ k - Len(s) \in 1 .. Len(p)
      BY <2>2, <2>4, <1>1, <1>3
    <3>2. j - Len(s) = k - Len(s)
      BY <3>1, <1>8 DEF Distinct
    <3> QED BY <3>2, <1>1
  <2>5. CASE j \in 1 .. Len(s) /\ k > Len(s)
    BY <2>1, <2>2, <2>5, <1>1, <1>3
  <2>6. CASE j > Len(s) /\ k \in 1 .. Len(s)
    BY <2>1, <2>2, <2>6, <1>1, <1>3
  <2> QED BY <2>3, <2>4, <2>5, <2>6, <1>1, <1>3
<1> QED BY <1>1, <1>4, <1>5, <1>7, <1>8

-----------------------------------------------------------------------------
\* compute_timeout: the first timer of the heap, and the wait for its delay.
LEMMA FirstTimer ==
    ASSUME TypeOK, scheduled # {}
    PROVE  FirstWhen \in 0 .. MaxTime /\ \A h \in scheduled : FirstWhen <= when[h]
<1> DEFINE W == {when[h] : h \in scheduled}
<1>1. W \subseteq 0 .. MaxTime /\ W # {}
  BY DEF TypeOK
<1>2. W \in SUBSET Nat
  BY <1>1, TimeAssumption
<1>3. PICK t \in W : \A u \in W : t <= u
  BY <1>1, <1>2, LeastNumber
<1>4. t \in W /\ \A h \in scheduled : t <= when[h]
  BY <1>3
<1>5. FirstWhen \in W /\ \A h \in scheduled : FirstWhen <= when[h]
  BY <1>4 DEF FirstWhen
<1> QED BY <1>1, <1>5

LEMMA WaitIsShort ==
    ASSUME NEW delay \in Int
    PROVE  WaitFor(delay) \in Nat /\ (delay >= 0 => WaitFor(delay) <= delay)
                                  /\ (delay < 0 => WaitFor(delay) = 0)
<1>1. \A a \in Nat : (a \div Second) * Second \in Nat /\ (a \div Second) * Second <= a
  BY TimeAssumption
<1> DEFINE capped == IF delay < 0 THEN 0 ELSE IF delay > MaxWait THEN MaxWait ELSE delay
<1>2. capped \in Nat /\ (delay >= 0 => capped <= delay) /\ (delay < 0 => capped = 0)
  BY TimeAssumption
<1>3. WaitFor(delay) = (capped \div Second) * Second
  BY DEF WaitFor
<1> HIDE DEF capped
<1>4. WaitFor(delay) \in Nat /\ WaitFor(delay) <= capped
  BY <1>1, <1>2, <1>3
<1> QED BY <1>2, <1>4

-----------------------------------------------------------------------------
(***************************************************************************)
(* Where handles are, step by step.                                         *)
(***************************************************************************)
LEMMA InitInv == Init => Inv
<1> SUFFICES ASSUME Init PROVE Inv
  OBVIOUS
<1>1. PICK h \in Soon : ready = <<h>> /\ issued = {h}
  BY HandlesAssumption DEF Init
<1>2. Range(ready) = {h} /\ Distinct(ready) /\ ready \in Seq(Handles)
  BY <1>1 DEF Range, Distinct, Handles
<1>3. Range(cqes) = {} /\ Distinct(cqes)
  BY DEF Init, Range, Distinct
<1>4. TypeOK
  <2>1. when \in [Timers -> 0 .. MaxTime] /\ now \in 0 .. MaxTime /\ first \in 0 .. MaxTime
    BY TimeAssumption DEF Init
  <2>2. ntodo \in 0 .. Len(ready) /\ issued \subseteq Handles
    BY <1>1 DEF Init, Handles
  <2>3. cqes \in Seq(Callbacks)
    BY DEF Init
  <2> QED BY <1>2, <2>1, <2>2, <2>3 DEF Init, TypeOK, Steps
<1>5. PlaceInv
  BY <1>1, <1>2, <1>3 DEF Init, PlaceInv
<1>6. IsFiniteSet(scheduled)
  BY FS_EmptySet DEF Init
<1>7. NoEarlyTimer
  <2> SUFFICES ASSUME NEW t \in Timers, \E k \in 1 .. Len(ready) : ready[k] = t PROVE FALSE
    BY DEF NoEarlyTimer, Init
  <2> QED BY <1>1, HandlesAssumption
<1> QED BY <1>4, <1>5, <1>6, <1>7 DEF Inv, ErrorInv, TimingInv, NoOversleep, TimersInv, Init

\* A step that moves no handle.
LEMMA QuietPlaces ==
    ASSUME PlaceInv, UNCHANGED <<handles, requests, cqes, orphaned, lost>>
    PROVE  PlaceInv'
  BY DEF PlaceInv, handles

\* on_uring_ready.
LEMMA ReadCqePlaces ==
    ASSUME Inv, ReadCqe
    PROVE  PlaceInv' /\ ErrorInv'
<1> USE DEF Inv
<1>1. PICK h : h = Head(cqes)
  OBVIOUS
<1>2. /\ cqes \in Seq(Callbacks) /\ cqes # << >> /\ cqes' = Tail(cqes)
      /\ ready \in Seq(Handles)
      /\ UNCHANGED <<scheduled, cancelled, ran, issued, requests, orphaned>>
  BY DEF ReadCqe, TypeOK
<1>3. h \in Callbacks /\ h \in Handles
  BY <1>1, <1>2, TailRange DEF Handles
<1>4. /\ Distinct(cqes') /\ Range(cqes) = Range(cqes') \cup {h} /\ h \notin Range(cqes')
  BY <1>1, <1>2, TailRange DEF PlaceInv
<1>5. /\ Range(Append(ready, h)) = Range(ready) \cup {h} /\ Append(ready, h) # ready
      /\ h \notin Range(ready) => Distinct(Append(ready, h))
  BY <1>2, <1>3, AppendRange DEF PlaceInv
<1>6. h \notin scheduled
  BY <1>3, HandlesAssumption DEF TypeOK
<1>7. h \notin requests
  BY <1>4 DEF PlaceInv
<1>8. CASE h \notin orphaned /\ ready' = Append(ready, h)
  <2>1. lost' = lost
    BY <1>1, <1>5, <1>8 DEF ReadCqe
  <2>2. h \notin Range(ready) \cup ran \cup lost
    BY <1>4, <1>8 DEF PlaceInv
  <2>3. Distinct(ready') /\ Range(ready') = Range(ready) \cup {h}
    BY <2>2, <1>5, <1>8
  <2>4. PlaceInv'
    BY <2>1, <2>2, <2>3, <1>2, <1>4, <1>6, <1>7 DEF PlaceInv
  <2>5. ErrorInv'
    BY <2>1, <1>1 DEF ReadCqe, ErrorInv
  <2> QED BY <2>4, <2>5
<1>9. CASE h \notin orphaned /\ ready' = ready
  <2>1. lost' = lost \cup {h} /\ pyerr
    BY <1>1, <1>5, <1>9 DEF ReadCqe
  <2>2. h \notin Range(ready) \cup ran \cup lost
    BY <1>4, <1>9 DEF PlaceInv
  <2>3. PlaceInv'
    BY <2>1, <2>2, <1>2, <1>4, <1>6, <1>7, <1>9 DEF PlaceInv
  <2>4. ErrorInv'
    BY <2>1 DEF ReadCqe, ErrorInv
  <2> QED BY <2>3, <2>4
<1>10. CASE h \in orphaned
  <2>1. lost' = lost /\ ready' = ready
    BY <1>1, <1>10 DEF ReadCqe
  <2>2. PlaceInv'
    BY <2>1, <1>2, <1>4, <1>10 DEF PlaceInv
  <2>3. ErrorInv'
    BY <2>1 DEF ReadCqe, ErrorInv
  <2> QED BY <2>2, <2>3
<1>11. h \notin orphaned => ready' = Append(ready, h) \/ ready' = ready
  BY <1>1 DEF ReadCqe
<1> QED BY <1>8, <1>9, <1>10, <1>11

\* promote_scheduled.
LEMMA PromotePlaces ==
    ASSUME Inv, Promote
    PROVE  /\ PlaceInv' /\ ready' \in Seq(Handles) /\ ntodo' = Len(ready')
           /\ Range(ready') = Range(ready) \cup Due
<1> USE DEF Inv
<1>1. PICK popped \in SetToSeqs(Due) :
         ready' = ready \o popped /\ ntodo' = Len(ready) + Len(popped)
  BY DEF Promote
<1>2. Due \subseteq scheduled /\ Due \subseteq Handles /\ IsFiniteSet(Due)
  BY FS_Subset DEF Due, TimersInv, TypeOK, Handles
<1>3. popped \in Seq(Due) /\ Distinct(popped) /\ Range(popped) = Due
  BY <1>2, PoppedIsOrder
<1>4. ready \in Seq(Handles) /\ popped \in Seq(Handles)
  BY <1>2, <1>3 DEF TypeOK
<1>5. Range(ready) \cap Due = {}
  BY <1>2 DEF PlaceInv
<1>6. /\ ready' \in Seq(Handles) /\ ntodo' = Len(ready')
      /\ Range(ready') = Range(ready) \cup Due /\ Distinct(ready')
  BY <1>1, <1>3, <1>4, <1>5, ConcatRange DEF PlaceInv
<1>7. /\ scheduled' = scheduled \ Due
      /\ UNCHANGED <<cancelled, ran, issued, requests, cqes, orphaned, lost>>
  BY DEF Promote, kernel, errors, raising
<1>8. PlaceInv'
  <2>1. Distinct(ready') /\ Distinct(cqes')
    BY <1>6, <1>7 DEF PlaceInv
  <2>2. /\ Range(ready') \cap (ran' \cup scheduled' \cup lost') = {}
        /\ scheduled' \cap (ran' \cup lost') = {}
    BY <1>2, <1>6, <1>7 DEF PlaceInv
  <2>3. ((requests' \cup Range(cqes')) \ orphaned') \cap (Range(ready') \cup ran' \cup lost') = {}
    <3>1. (requests \cup Range(cqes)) \cap Due = {}
      BY <1>2, HandlesAssumption DEF TypeOK, Range
    <3> QED BY <3>1, <1>6, <1>7 DEF PlaceInv
  <2>4. /\ Range(cqes') \cap requests' = {}
        /\ orphaned' \subseteq ran' \cup cancelled' \cup lost' \cup Range(ready')
        /\ ran' \cap cancelled' = {}
    BY <1>6, <1>7 DEF PlaceInv
  <2>5. /\ Range(ready') \cup ran' \cup scheduled' \cup requests' \cup Range(cqes') \cup lost'
             \cup cancelled' \subseteq issued'
        /\ issued' \subseteq ran' \cup cancelled' \cup lost' \cup Range(ready') \cup scheduled'
                            \cup requests' \cup Range(cqes')
    BY <1>2, <1>6, <1>7 DEF PlaceInv
  <2> QED BY <2>1, <2>2, <2>3, <2>4, <2>5 DEF PlaceInv
<1> QED BY <1>6, <1>8

\* drain_ready: the head of _ready, and what is left of it.
Rest == Tail(ready)

LEMMA DrainHead ==
    ASSUME Inv, ntodo > 0
    PROVE  /\ ready # << >> /\ Rest \in Seq(Handles) /\ Len(Rest) = Len(ready) - 1
           /\ Len(ready) \in Nat \ {0}
           /\ Head(ready) \in Handles /\ Head(ready) \notin Range(Rest)
           /\ Range(ready) = Range(Rest) \cup {Head(ready)}
           /\ Distinct(Rest)
           /\ \A k \in 2 .. Len(ready) : ready[k] \in Range(Rest)
<1>1. ready \in Seq(Handles) /\ ntodo \in 0 .. Len(ready) /\ Distinct(ready)
  BY DEF Inv, TypeOK, PlaceInv
<1>2. ready # << >>
  BY <1>1
<1> QED BY <1>1, <1>2, TailRange DEF Rest

\* A handle that is skipped or taken without being run, and one whose body
\* schedules, starts or cancels nothing.
LEMMA TakenPlaces ==
    ASSUME Inv, ntodo > 0, ready' = Rest,
           UNCHANGED <<scheduled, issued, requests, cqes, orphaned, cancelled>>,
           \/ ran' = ran \cup {Head(ready)} /\ lost' = lost /\ Head(ready) \notin cancelled
           \/ ran' = ran /\ lost' = lost \cup {Head(ready)}
           \/ ran' = ran /\ lost' = lost /\ Head(ready) \in cancelled
    PROVE  PlaceInv'
<1> USE DEF Inv
<1>1. PICK x : x = Head(ready)
  OBVIOUS
<1>2. /\ x \notin Range(ready') /\ Range(ready) = Range(ready') \cup {x} /\ Distinct(ready')
  BY <1>1, DrainHead
<1>3. x \notin ran \cup scheduled \cup lost
  BY <1>2 DEF PlaceInv
<1>4. x \in requests \cup Range(cqes) => x \in orphaned
  BY <1>2 DEF PlaceInv
<1> QED BY <1>1, <1>2, <1>3, <1>4 DEF PlaceInv

\* The handle runs, and its body gives the handle h a place in _ready, in the heap or
\* in the kernel for the first time.
LEMMA IssuedPlaces ==
    ASSUME Inv, ntodo > 0, Head(ready) \notin cancelled,
           NEW h \in Handles, h \notin issued, issued' = issued \cup {h},
           ran' = ran \cup {Head(ready)},
           UNCHANGED <<cqes, orphaned, cancelled, lost>>,
           \/ ready' = Append(Rest, h) /\ UNCHANGED <<scheduled, requests>>
           \/ ready' = Rest /\ scheduled' = scheduled \cup {h} /\ requests' = requests
           \/ ready' = Rest /\ requests' = requests \cup {h} /\ scheduled' = scheduled
    PROVE  PlaceInv'
<1> USE DEF Inv
<1>1. PICK x : x = Head(ready)
  OBVIOUS
<1>2. /\ x \notin Range(Rest) /\ Range(ready) = Range(Rest) \cup {x} /\ Distinct(Rest)
      /\ Rest \in Seq(Handles)
  BY <1>1, DrainHead
<1>3. x \notin ran \cup scheduled \cup lost
  BY <1>2 DEF PlaceInv
<1>4. x \in requests \cup Range(cqes) => x \in orphaned
  BY <1>2 DEF PlaceInv
<1>5. /\ h \notin Range(ready) \cup ran \cup scheduled \cup requests \cup Range(cqes) \cup lost
      /\ h \notin cancelled /\ h # x
  BY <1>2 DEF PlaceInv
<1>6. CASE ready' = Append(Rest, h) /\ UNCHANGED <<scheduled, requests>>
  <2>1. Distinct(ready') /\ Range(ready') = Range(Rest) \cup {h}
    BY <1>2, <1>5, <1>6, AppendRange
  <2> QED BY <2>1, <1>1, <1>2, <1>3, <1>4, <1>5, <1>6 DEF PlaceInv
<1>7. CASE ready' = Rest /\ scheduled' = scheduled \cup {h} /\ requests' = requests
  BY <1>1, <1>2, <1>3, <1>4, <1>5, <1>7 DEF PlaceInv
<1>8. CASE ready' = Rest /\ requests' = requests \cup {h} /\ scheduled' = scheduled
  BY <1>1, <1>2, <1>3, <1>4, <1>5, <1>8 DEF PlaceInv
<1> QED BY <1>6, <1>7, <1>8

\* The handle runs and cancels another one, or a request.
LEMMA CancelPlaces ==
    ASSUME Inv, ntodo > 0, Head(ready) \notin cancelled, NEW h \in Handles, Cancel(h),
           ran' = ran \cup {Head(ready)}, UNCHANGED <<cqes, lost>>
    PROVE  PlaceInv'
<1> USE DEF Inv
<1>1. PICK x : x = Head(ready)
  OBVIOUS
<1>2. /\ x \notin Range(Rest) /\ Range(ready) = Range(Rest) \cup {x} /\ Distinct(Rest)
      /\ \A k \in 2 .. Len(ready) : ready[k] \in Range(Rest)
  BY <1>1, DrainHead
<1>3. x \notin ran \cup scheduled \cup lost
  BY <1>2 DEF PlaceInv
<1>4. x \in requests \cup Range(cqes) => x \in orphaned
  BY <1>2 DEF PlaceInv
<1>5. /\ ready' = Rest /\ cancelled' = cancelled \cup {h}
      /\ UNCHANGED <<scheduled, issued, requests, orphaned>>
  BY DEF Cancel, Rest, raising
<1>6. h \in scheduled \cup Range(Rest)
  BY <1>2 DEF Cancel
<1>7. h # x /\ h \notin ran
  BY <1>2, <1>3, <1>6 DEF PlaceInv
<1>8. h \in issued
  BY <1>2, <1>6 DEF PlaceInv
<1> QED BY <1>1, <1>2, <1>3, <1>4, <1>5, <1>7, <1>8 DEF PlaceInv

LEMMA CancelRequestPlaces ==
    ASSUME Inv, ntodo > 0, Head(ready) \notin cancelled, NEW h \in Callbacks,
           CancelRequest(h),
           ran' = ran \cup {Head(ready)}, UNCHANGED <<cqes, lost>>
    PROVE  PlaceInv'
<1> USE DEF Inv
<1>1. PICK x : x = Head(ready)
  OBVIOUS
<1>2. /\ x \notin Range(Rest) /\ Range(ready) = Range(Rest) \cup {x} /\ Distinct(Rest)
      /\ Rest \in Seq(Handles)
  BY <1>1, DrainHead
<1>3. x \notin ran \cup scheduled \cup lost
  BY <1>2 DEF PlaceInv
<1>4. x \in requests \cup Range(cqes) => x \in orphaned
  BY <1>2 DEF PlaceInv
<1>5. /\ ready' = Append(Rest, h) /\ orphaned' = orphaned \cup {h}
      /\ h \in requests \cup Range(cqes) /\ h \notin orphaned
      /\ UNCHANGED <<scheduled, cancelled, issued, requests>>
  BY DEF CancelRequest, Rest
<1>6. h \notin Range(ready) \cup ran \cup lost
  BY <1>5 DEF PlaceInv
<1>7. h \notin scheduled /\ h \in Handles
  BY HandlesAssumption DEF TypeOK, Handles
<1>8. h \in issued /\ h # x /\ h \notin Range(Rest)
  BY <1>2, <1>5, <1>6 DEF PlaceInv
<1>9. Distinct(ready') /\ Range(ready') = Range(Rest) \cup {h}
  BY <1>2, <1>5, <1>7, <1>8, AppendRange
<1> QED BY <1>1, <1>2, <1>3, <1>4, <1>5, <1>6, <1>7, <1>8, <1>9 DEF PlaceInv

\* What the body of a handle does to the rest of the state.
BodyTypes ==
    /\ ready' \in Seq(Handles) /\ Len(ready') \in {Len(ready) - 1, Len(ready)}
    /\ Range(ready') \cap Timers \subseteq Range(ready)
    /\ scheduled' \subseteq Timers /\ IsFiniteSet(scheduled')
    /\ when' \in [Timers -> 0 .. MaxTime]
    /\ \A t \in Timers \cap issued : when'[t] = when[t]
    /\ cancelled' \subseteq Handles /\ issued' \subseteq Handles
    /\ requests' \subseteq Callbacks /\ orphaned' \subseteq Callbacks
    /\ counter' \in Nat /\ stopping' \in BOOLEAN /\ pyerr' \in BOOLEAN /\ erred' \in BOOLEAN
    /\ (pyerr => erred) => (pyerr' => erred')
    /\ erred => erred'

LEMMA BodyStep ==
    ASSUME Inv, ntodo > 0, Head(ready) \notin cancelled, Body,
           ran' = ran \cup {Head(ready)}, UNCHANGED <<cqes, lost>>
    PROVE  PlaceInv' /\ BodyTypes
<1> USE DEF Inv
<1>1. /\ Rest \in Seq(Handles) /\ Len(Rest) = Len(ready) - 1 /\ Len(ready) \in Nat \ {0}
      /\ Range(Rest) \subseteq Range(ready)
  BY DrainHead
<1>2. ASSUME ready' = Rest,
             UNCHANGED <<scheduled, when, cancelled, issued, requests, orphaned>>,
             counter' \in Nat, stopping' \in BOOLEAN, pyerr' \in BOOLEAN, erred' \in BOOLEAN,
             (pyerr => erred) => (pyerr' => erred'), erred => erred'
      PROVE  PlaceInv' /\ BodyTypes
  <2>1. PlaceInv'
    BY <1>2, TakenPlaces
  <2>2. BodyTypes
    BY <1>1, <1>2 DEF BodyTypes, TypeOK, TimersInv
  <2> QED BY <2>1, <2>2
<1>3. ASSUME DoNothing \/ Stop \/ WriteToSelf \/ Interrupt PROVE PlaceInv' /\ BodyTypes
  <2>1. /\ counter \in Nat /\ stopping \in BOOLEAN /\ pyerr \in BOOLEAN /\ erred \in BOOLEAN
    BY DEF TypeOK
  <2>2. /\ ready' = Rest
        /\ UNCHANGED <<scheduled, when, cancelled, issued, requests, orphaned>>
    BY <1>3 DEF DoNothing, Stop, WriteToSelf, Interrupt, Rest, raising
  <2>3. /\ counter' = counter \/ counter' = counter + 1
        /\ stopping' = stopping \/ stopping' = TRUE
        /\ (pyerr' = pyerr /\ erred' = erred) \/ (pyerr' = TRUE /\ erred' = TRUE)
    <3>1. CASE DoNothing
      BY <3>1, Zenon DEF DoNothing, raising
    <3>2. CASE Stop
      BY <3>2, Zenon DEF Stop, raising
    <3>3. CASE WriteToSelf
      BY <3>3, Zenon DEF WriteToSelf, raising
    <3>4. CASE Interrupt
      BY <3>4, Zenon DEF Interrupt
    <3> QED BY <1>3, <3>1, <3>2, <3>3, <3>4
  <2>4. counter' \in Nat
    BY <2>1, <2>3
  <2>5. stopping' \in BOOLEAN /\ pyerr' \in BOOLEAN /\ erred' \in BOOLEAN
    BY <2>1, <2>3
  <2>6. ((pyerr => erred) => (pyerr' => erred')) /\ (erred => erred')
    <3>1. CASE pyerr' = pyerr /\ erred' = erred
      BY <3>1
    <3>2. CASE pyerr' = TRUE /\ erred' = TRUE
      BY <3>2
    <3> QED BY <3>1, <3>2, <2>3
  <2> QED BY <2>2, <2>4, <2>5, <2>6, <1>2
<1>4. ASSUME NEW h \in Unissued(Soon), CallSoon(h) PROVE PlaceInv' /\ BodyTypes
  <2>1. /\ ready' = Append(Rest, h) /\ issued' = issued \cup {h}
        /\ h \in Handles /\ h \notin issued /\ h \notin Timers
        /\ UNCHANGED <<scheduled, when, cancelled, requests, counter, stopping, orphaned,
                       pyerr, erred>>
    BY <1>4, HandlesAssumption DEF CallSoon, Rest, raising, Unissued, Handles
  <2>2. PlaceInv'
    BY <2>1, IssuedPlaces
  <2>3. /\ ready' \in Seq(Handles) /\ Range(ready') = Range(Rest) \cup {h}
        /\ Len(ready') = Len(ready)
    BY <2>1, <1>1, AppendRange
  <2>4. BodyTypes
    BY <2>1, <2>3, <1>1 DEF BodyTypes, TypeOK, TimersInv
  <2> QED BY <2>2, <2>4
<1>5. ASSUME NEW h \in Unissued(Timers), NEW delay \in Delays, CallAt(h, delay)
      PROVE  PlaceInv' /\ BodyTypes
  <2>1. /\ ready' = Rest /\ issued' = issued \cup {h}
        /\ scheduled' = scheduled \cup {h}
        /\ when' = [when EXCEPT ![h] = now + delay] /\ now + delay <= MaxTime
        /\ h \in Timers /\ h \in Handles /\ h \notin issued
        /\ UNCHANGED <<cancelled, requests, counter, stopping, orphaned, pyerr, erred>>
    BY <1>5 DEF CallAt, Rest, raising, Unissued, Handles
  <2>2. PlaceInv'
    BY <2>1, IssuedPlaces
  <2>3. IsFiniteSet(scheduled')
    BY <2>1, FS_AddElement DEF TimersInv
  <2>4. now + delay \in 0 .. MaxTime
    BY <2>1, TimeAssumption DEF TypeOK
  <2>5. when' \in [Timers -> 0 .. MaxTime] /\ \A t \in Timers \cap issued : when'[t] = when[t]
    BY <2>1, <2>4 DEF TypeOK
  <2>6. BodyTypes
    BY <2>1, <2>3, <2>5, <1>1 DEF BodyTypes, TypeOK
  <2> QED BY <2>2, <2>6
<1>6. ASSUME NEW h \in Unissued(Callbacks), StartRequest(h) PROVE PlaceInv' /\ BodyTypes
  <2>1. /\ ready' = Rest /\ issued' = issued \cup {h} /\ requests' = requests \cup {h}
        /\ h \in Callbacks /\ h \in Handles /\ h \notin issued
        /\ UNCHANGED <<scheduled, when, cancelled, counter, stopping, orphaned, pyerr, erred>>
    BY <1>6 DEF StartRequest, Rest, raising, Unissued, Handles
  <2>2. PlaceInv'
    BY <2>1, IssuedPlaces
  <2>3. BodyTypes
    BY <2>1, <1>1 DEF BodyTypes, TypeOK, TimersInv
  <2> QED BY <2>2, <2>3
<1>7. ASSUME NEW h \in Handles, Cancel(h) PROVE PlaceInv' /\ BodyTypes
  <2>1. PlaceInv'
    BY <1>7, CancelPlaces
  <2>2. /\ ready' = Rest /\ cancelled' = cancelled \cup {h}
        /\ UNCHANGED <<scheduled, when, issued, requests, counter, stopping, orphaned,
                       pyerr, erred>>
    BY <1>7 DEF Cancel, Rest, raising
  <2>3. BodyTypes
    BY <2>2, <1>1 DEF BodyTypes, TypeOK, TimersInv
  <2> QED BY <2>1, <2>3
<1>8. ASSUME NEW h \in Callbacks, CancelRequest(h) PROVE PlaceInv' /\ BodyTypes
  <2>1. PlaceInv'
    BY <1>8, CancelRequestPlaces
  <2>2. /\ ready' = Append(Rest, h) /\ orphaned' = orphaned \cup {h}
        /\ h \in Handles /\ h \notin Timers
        /\ UNCHANGED <<scheduled, when, cancelled, issued, requests, counter, stopping,
                       pyerr, erred>>
    BY <1>8, HandlesAssumption DEF CancelRequest, Rest, Handles
  <2>3. /\ ready' \in Seq(Handles) /\ Range(ready') = Range(Rest) \cup {h}
        /\ Len(ready') = Len(ready)
    BY <2>2, <1>1, AppendRange
  <2>4. BodyTypes
    BY <2>2, <2>3, <1>1 DEF BodyTypes, TypeOK, TimersInv
  <2> QED BY <2>1, <2>4
<1> QED BY <1>3, <1>4, <1>5, <1>6, <1>7, <1>8 DEF Body

\* NoEarlyTimer, with the set of the handles in _ready.
LEMMA EarlyTimers ==
    ASSUME ready \in Seq(Handles)
    PROVE  NoEarlyTimer <=> \A h \in Timers \cap (ran \cup Range(ready)) :
                                when[h] < now + ClockResolution
<1>1. DOMAIN ready = 1 .. Len(ready)
  OBVIOUS
<1>2. \A h : (\E k \in 1 .. Len(ready) : ready[k] = h) <=> h \in Range(ready)
  BY <1>1 DEF Range
<1> QED BY <1>2 DEF NoEarlyTimer

-----------------------------------------------------------------------------
(***************************************************************************)
(* The steps of the specification.                                          *)
(***************************************************************************)
\* A step that moves no handle and does not begin to wait.
LEMMA QuietStep ==
    ASSUME Inv, TypeOK', UNCHANGED <<handles, requests, cqes, orphaned, lost, erred>>,
           pyerr' => pyerr, now' >= now,
           pc' \notin {"timing", "waiting"} \/ UNCHANGED <<pc, first, deadline>>
    PROVE  Inv'
<1> USE DEF Inv
<1>1. PlaceInv'
  BY QuietPlaces
<1>2. ErrorInv'
  BY DEF ErrorInv
<1>3. TimingInv'
  BY DEF TimingInv, NoOversleep, TypeOK, handles
<1>4. TimersInv'
  <2>1. when' = when /\ ran' = ran /\ ready' = ready /\ scheduled' = scheduled
    BY DEF handles
  <2>2. \A h \in Timers : when[h] \in Int
    BY TimeAssumption DEF TypeOK
  <2> QED BY <2>1, <2>2, TimeAssumption DEF TimersInv, NoEarlyTimer, TypeOK
<1> QED BY <1>1, <1>2, <1>3, <1>4

\* compute_timeout.
LEMMA ComputeTimeoutInv ==
    ASSUME Inv, ComputeTimeout
    PROVE  Inv'
<1> USE DEF Inv
<1>1. /\ pc' = "waiting"
      /\ UNCHANGED <<now, first, ntodo, stopping, writer, handles, requests, cqes, counter,
                     armed, wakeup_cqe, orphaned, pyerr, erred, lost>>
      /\ \/ deadline' = now
         \/ ready = << >> /\ scheduled = {} /\ deadline' = now + MaxWait
  BY DEF ComputeTimeout, kernel, errors, raising
<1>2. deadline' \in Nat
  BY <1>1, TimeAssumption DEF TypeOK
<1>3. TypeOK'
  BY <1>1, <1>2 DEF TypeOK, handles, Steps
<1>4. PlaceInv' /\ ErrorInv'
  BY <1>1, QuietPlaces DEF ErrorInv
<1>5. TimingInv'
  <2>1. CASE deadline' = now
    BY <2>1, <1>1 DEF TimingInv, NoOversleep, TypeOK
  <2>2. CASE ready = << >> /\ scheduled = {}
    <3>1. ready' = << >> /\ scheduled' = {} /\ pc' = "waiting"
      BY <1>1, <2>2 DEF handles
    <3> QED BY <3>1 DEF TimingInv, NoOversleep, Range
  <2> QED BY <1>1, <2>1, <2>2
<1>6. TimersInv'
  BY <1>1 DEF TimersInv, NoEarlyTimer, handles
<1> QED BY <1>3, <1>4, <1>5, <1>6

LEMMA ComputeTimeoutReadsInv ==
    ASSUME Inv, ComputeTimeoutReads
    PROVE  Inv'
<1> USE DEF Inv
<1>1. /\ pc' = "timing" /\ first' = FirstWhen /\ ready = << >> /\ scheduled # {}
      /\ UNCHANGED <<now, deadline, ntodo, stopping, writer, handles, requests, cqes, counter,
                     armed, wakeup_cqe, orphaned, pyerr, erred, lost>>
  BY DEF ComputeTimeoutReads, kernel, errors, raising
<1>2. FirstWhen \in 0 .. MaxTime /\ \A h \in scheduled : FirstWhen <= when[h]
  BY <1>1, FirstTimer
<1>3. TypeOK'
  BY <1>1, <1>2 DEF TypeOK, handles, Steps
<1>4. PlaceInv' /\ ErrorInv'
  BY <1>1, QuietPlaces DEF ErrorInv
<1>5. TimingInv'
  <2>1. ready' = << >> /\ scheduled' = scheduled /\ when' = when /\ pc' = "timing"
    BY <1>1 DEF handles
  <2>2. \A h \in scheduled' : first' <= when'[h]
    BY <2>1, <1>1, <1>2
  <2> QED BY <2>1, <2>2 DEF TimingInv, NoOversleep, Range
<1>6. TimersInv'
  BY <1>1 DEF TimersInv, NoEarlyTimer, handles
<1> QED BY <1>3, <1>4, <1>5, <1>6

LEMMA ComputeTimeoutDelayInv ==
    ASSUME Inv, ComputeTimeoutDelay
    PROVE  Inv'
<1> USE DEF Inv
<1>1. /\ pc = "timing" /\ pc' = "waiting" /\ deadline' = now + WaitFor(first - now)
      /\ UNCHANGED <<now, first, ntodo, stopping, writer, handles, requests, cqes, counter,
                     armed, wakeup_cqe, orphaned, pyerr, erred, lost>>
  BY DEF ComputeTimeoutDelay, kernel, errors, raising
<1>2. now \in Nat /\ first \in Nat /\ first - now \in Int
  BY TimeAssumption DEF TypeOK
<1>3. /\ WaitFor(first - now) \in Nat
      /\ first - now >= 0 => WaitFor(first - now) <= first - now
      /\ first - now < 0 => WaitFor(first - now) = 0
  BY <1>2, WaitIsShort
<1>4. deadline' \in Nat /\ (deadline' > now => deadline' <= first)
  BY <1>1, <1>2, <1>3
<1>5. TypeOK'
  BY <1>1, <1>4 DEF TypeOK, handles, Steps
<1>6. PlaceInv' /\ ErrorInv'
  BY <1>1, QuietPlaces DEF ErrorInv
<1>7. TimingInv'
  <2>1. /\ ready' = ready /\ scheduled' = scheduled /\ when' = when /\ now' = now
        /\ pc' = "waiting"
    BY <1>1 DEF handles
  <2>2. Range(ready) \subseteq Threaded /\ \A h \in scheduled : first <= when[h]
    BY <1>1 DEF TimingInv
  <2>3. \A h \in scheduled : when[h] \in Int
    BY TimeAssumption DEF TypeOK
  <2>4. deadline' > now => \A h \in scheduled : deadline' <= when[h]
    BY <2>2, <2>3, <1>2, <1>4
  <2> QED BY <2>1, <2>2, <2>4 DEF TimingInv, NoOversleep
<1>8. TimersInv'
  BY <1>1 DEF TimersInv, NoEarlyTimer, handles
<1> QED BY <1>5, <1>6, <1>7, <1>8

\* The steps that QuietStep covers.
LEMMA QuietActionsInv ==
    ASSUME Inv,
           \/ WaitReturns \/ ReadEnds \/ PromoteFails \/ DrainEnds \/ RunOnceRaises
           \/ RunAgain \/ ThreadWrites \/ CompleteWakeupRead \/ Tick \/ UNCHANGED vars
    PROVE  Inv'
<1> USE DEF Inv, handles, kernel, errors, raising, timing
<1>0. Len(ready) \in Nat /\ now \in Nat /\ counter \in Nat
  BY TimeAssumption DEF TypeOK
<1>1. CASE WaitReturns
  <2>1. TypeOK'
    BY <1>1 DEF WaitReturns, TypeOK, Steps
  <2> QED BY <1>0, <1>1, <2>1, QuietStep DEF WaitReturns
<1>2. CASE ReadEnds
  <2>1. TypeOK'
    BY <1>2 DEF ReadEnds, TypeOK, Steps
  <2> QED BY <1>0, <1>2, <2>1, QuietStep DEF ReadEnds
<1>3. CASE PromoteFails
  <2>1. TypeOK'
    BY <1>0, <1>3 DEF PromoteFails, TypeOK, Steps
  <2> QED BY <1>0, <1>3, <2>1, QuietStep DEF PromoteFails
<1>4. CASE DrainEnds
  <2>1. pc' \in {"stopped", "idle"}
    BY <1>4 DEF DrainEnds
  <2>2. TypeOK'
    BY <1>4, <2>1 DEF DrainEnds, TypeOK, Steps
  <2> QED BY <1>0, <1>4, <2>1, <2>2, QuietStep DEF DrainEnds
<1>5. CASE RunOnceRaises
  <2>1. TypeOK'
    BY <1>5 DEF RunOnceRaises, TypeOK, Steps
  <2> QED BY <1>0, <1>5, <2>1, QuietStep DEF RunOnceRaises
<1>6. CASE RunAgain
  <2>1. TypeOK'
    BY <1>6 DEF RunAgain, TypeOK, Steps
  <2> QED BY <1>0, <1>6, <2>1, QuietStep DEF RunAgain
<1>7. CASE ThreadWrites
  <2>0. counter' \in Nat /\ writer' = FALSE
    BY <1>0, <1>7 DEF ThreadWrites
  <2>1. TypeOK'
    BY <1>7, <2>0 DEF ThreadWrites, TypeOK
  <2> QED BY <1>0, <1>7, <2>1, QuietStep DEF ThreadWrites
<1>8. CASE CompleteWakeupRead
  <2>1. TypeOK'
    BY <1>8 DEF CompleteWakeupRead, TypeOK
  <2> QED BY <1>0, <1>8, <2>1, QuietStep DEF CompleteWakeupRead
<1>9. CASE Tick
  <2>1. TypeOK'
    BY <1>9, TimeAssumption DEF Tick, TypeOK
  <2> QED BY <1>0, <1>9, <2>1, QuietStep DEF Tick
<1>10. CASE UNCHANGED vars
  <2>1. TypeOK'
    BY <1>10 DEF vars, TypeOK
  <2> QED BY <1>0, <1>10, <2>1, QuietStep DEF vars
<1> QED BY <1>1, <1>2, <1>3, <1>4, <1>5, <1>6, <1>7, <1>8, <1>9, <1>10

\* on_uring_ready.
LEMMA ReadCqeInv ==
    ASSUME Inv, ReadCqe
    PROVE  Inv'
<1> USE DEF Inv
<1>1. /\ cqes \in Seq(Callbacks) /\ cqes # << >> /\ ready \in Seq(Handles)
      /\ cqes' = Tail(cqes)
      /\ pc' = "reading" /\ pc = "reading"
      /\ UNCHANGED <<now, first, deadline, ntodo, stopping, scheduled, when, cancelled, ran,
                     issued, requests, counter, armed, wakeup_cqe, writer, orphaned>>
  BY DEF ReadCqe, TypeOK, timing
<1>2. cqes' \in Seq(Callbacks) /\ Head(cqes) \in Callbacks
  BY <1>1, TailRange
<1>3. Head(cqes) \in Handles /\ Head(cqes) \notin Timers
  BY <1>2, HandlesAssumption DEF Handles
<1>4. ready' = ready \/ ready' = Append(ready, Head(cqes))
  BY DEF ReadCqe
<1>5. /\ ready' \in Seq(Handles) /\ Len(ready') >= Len(ready)
      /\ Range(ready') \subseteq Range(ready) \cup {Head(cqes)}
      /\ Len(ready') \in Nat /\ Len(ready) \in Nat
  <2>1. CASE ready' = ready
    BY <2>1, <1>1
  <2>2. CASE ready' = Append(ready, Head(cqes))
    <3>1. Len(ready') = Len(ready) + 1 /\ Len(ready) \in Nat
      BY <2>2, <1>1
    <3>2. ready' \in Seq(Handles) /\ Range(ready') = Range(ready) \cup {Head(cqes)}
      BY <2>2, <1>1, <1>3, AppendRange
    <3> QED BY <3>1, <3>2
  <2> QED BY <1>4, <2>1, <2>2
<1>6. lost' \subseteq Handles
  BY <1>3 DEF ReadCqe, TypeOK
<1>7. pyerr' \in BOOLEAN /\ erred' \in BOOLEAN
  <2>1. pyerr' \in BOOLEAN
    BY Zenon DEF ReadCqe, TypeOK
  <2>2. erred' = (erred \/ pyerr')
    BY DEF ReadCqe
  <2> QED BY <2>1, <2>2 DEF TypeOK
<1>8. ntodo' \in 0 .. Len(ready')
  BY <1>1, <1>5 DEF TypeOK
<1>9. TypeOK'
  BY <1>1, <1>2, <1>5, <1>6, <1>7, <1>8 DEF TypeOK
<1>10. TimingInv'
  BY <1>1 DEF TimingInv, NoOversleep
<1>11. TimersInv'
  <2>1. \A h \in Timers \cap (ran \cup Range(ready)) : when[h] < now + ClockResolution
    BY <1>1, EarlyTimers DEF TimersInv
  <2>2. \A h \in Timers \cap (ran' \cup Range(ready')) : when'[h] < now' + ClockResolution
    BY <2>1, <1>1, <1>3, <1>5
  <2>3. NoEarlyTimer'
    BY <2>2, <1>1, <1>5 DEF NoEarlyTimer, Range
  <2> QED BY <2>3, <1>1 DEF TimersInv
<1> QED BY <1>9, <1>10, <1>11, ReadCqePlaces

\* promote_scheduled.
LEMMA PromoteInv ==
    ASSUME Inv, Promote
    PROVE  Inv'
<1> USE DEF Inv
<1>1. /\ pc' = "draining" /\ scheduled' = scheduled \ Due
      /\ UNCHANGED <<now, first, deadline, stopping, when, cancelled, ran, issued, requests,
                     cqes, counter, armed, wakeup_cqe, writer, orphaned, pyerr, erred, lost>>
  BY DEF Promote, timing, kernel, errors, raising
<1>2. /\ PlaceInv' /\ ready' \in Seq(Handles) /\ ntodo' = Len(ready')
      /\ Range(ready') = Range(ready) \cup Due
  BY PromotePlaces
<1>3. ntodo' \in 0 .. Len(ready')
  BY <1>2
<1>4. TypeOK'
  BY <1>1, <1>2, <1>3 DEF TypeOK, Steps
<1>5. TimingInv'
  BY <1>1 DEF TimingInv, NoOversleep
<1>6. TimersInv'
  <2>1. \A h \in Timers \cap (ran \cup Range(ready)) : when[h] < now + ClockResolution
    BY EarlyTimers DEF TimersInv, TypeOK
  <2>2. \A h \in Timers \cap (ran' \cup Range(ready')) : when'[h] < now' + ClockResolution
    BY <2>1, <1>1, <1>2 DEF Due
  <2>3. NoEarlyTimer'
    BY <2>2, <1>1, <1>2 DEF NoEarlyTimer, Range
  <2>4. IsFiniteSet(scheduled')
    BY <1>1, FS_Difference DEF TimersInv
  <2> QED BY <2>3, <2>4 DEF TimersInv
<1> QED BY <1>1, <1>2, <1>4, <1>5, <1>6 DEF ErrorInv

\* drain_ready, the handle runs.
LEMMA DrainRunsInv ==
    ASSUME Inv, DrainRuns
    PROVE  Inv'
<1> USE DEF Inv
<1>1. /\ ntodo > 0 /\ Head(ready) \notin cancelled /\ Body
      /\ ran' = ran \cup {Head(ready)} /\ ntodo' = ntodo - 1
      /\ pc = "draining" /\ pc' = "draining"
      /\ UNCHANGED <<now, first, deadline, cqes, armed, wakeup_cqe, writer, lost>>
  BY DEF DrainRuns, timing
<1>2. PlaceInv' /\ BodyTypes
  BY <1>1, BodyStep
<1>3. Head(ready) \in Handles /\ Head(ready) \in Range(ready)
  BY <1>1, DrainHead
<1>4. ntodo' \in 0 .. Len(ready')
  BY <1>1, <1>2 DEF TypeOK, BodyTypes
<1>5. TypeOK'
  BY <1>1, <1>2, <1>3, <1>4 DEF TypeOK, BodyTypes, Steps
<1>6. ErrorInv'
  BY <1>1, <1>2 DEF ErrorInv, BodyTypes
<1>7. TimingInv'
  BY <1>1 DEF TimingInv, NoOversleep
<1>8. TimersInv'
  <2>1. \A h \in Timers \cap (ran \cup Range(ready)) : when[h] < now + ClockResolution
    BY EarlyTimers DEF TimersInv, TypeOK
  <2>2. Timers \cap (ran' \cup Range(ready')) \subseteq Timers \cap (ran \cup Range(ready))
    BY <1>1, <1>2, <1>3 DEF BodyTypes
  <2>3. \A h \in Timers \cap (ran \cup Range(ready)) : when'[h] = when[h]
    BY <1>2 DEF BodyTypes, PlaceInv
  <2>4. \A h \in Timers \cap (ran' \cup Range(ready')) : when'[h] < now' + ClockResolution
    BY <2>1, <2>2, <2>3, <1>1
  <2>5. NoEarlyTimer'
    BY <2>4, <1>5 DEF NoEarlyTimer, Range, TypeOK
  <2> QED BY <2>5, <1>2 DEF TimersInv, BodyTypes
<1> QED BY <1>2, <1>5, <1>6, <1>7, <1>8

\* drain_ready, the handle is skipped or lost.
LEMMA DrainTakesInv ==
    ASSUME Inv, DrainSkips \/ DrainLoses
    PROVE  Inv'
<1> USE DEF Inv
<1>1. /\ ntodo > 0 /\ ready' = Rest /\ ran' = ran
      /\ ntodo' = ntodo - 1 \/ ntodo' = 0
      /\ pc = "draining" /\ pc' = "draining"
      /\ UNCHANGED <<now, first, deadline, stopping, scheduled, when, cancelled, issued,
                     requests, cqes, counter, armed, wakeup_cqe, writer, orphaned>>
      /\ pyerr' = pyerr /\ erred' = erred
      /\ \/ lost' = lost /\ Head(ready) \in cancelled
         \/ lost' = lost \cup {Head(ready)} /\ pyerr
  <2>1. CASE DrainSkips
    BY <2>1 DEF DrainSkips, DoNothing, Rest, timing, raising
  <2>2. CASE DrainLoses
    BY <2>2 DEF DrainLoses, Rest, timing, raising, kernel
  <2> QED BY <2>1, <2>2
<1>2. /\ Rest \in Seq(Handles) /\ Len(Rest) = Len(ready) - 1 /\ Len(ready) \in Nat \ {0}
      /\ Head(ready) \in Handles /\ Range(Rest) \subseteq Range(ready)
  BY <1>1, DrainHead
<1>3. ntodo' \in 0 .. Len(ready')
  BY <1>1, <1>2 DEF TypeOK
<1>4. lost' \subseteq Handles
  BY <1>1, <1>2 DEF TypeOK
<1>5. TypeOK'
  BY <1>1, <1>2, <1>3, <1>4 DEF TypeOK, Steps
<1>6. PlaceInv'
  BY <1>1, TakenPlaces
<1>7. ErrorInv'
  BY <1>1 DEF ErrorInv
<1>8. TimingInv'
  BY <1>1 DEF TimingInv, NoOversleep
<1>9. TimersInv'
  <2>1. \A h \in Timers \cap (ran \cup Range(ready)) : when[h] < now + ClockResolution
    BY EarlyTimers DEF TimersInv, TypeOK
  <2>2. \A h \in Timers \cap (ran' \cup Range(ready')) : when'[h] < now' + ClockResolution
    BY <2>1, <1>1, <1>2
  <2>3. NoEarlyTimer'
    BY <2>2, <1>5 DEF NoEarlyTimer, Range, TypeOK
  <2> QED BY <2>3, <1>1 DEF TimersInv
<1> QED BY <1>5, <1>6, <1>7, <1>8, <1>9

\* call_soon_threadsafe of another thread.
LEMMA ThreadAppendsInv ==
    ASSUME Inv, NEW h \in Unissued(Threaded), ThreadAppends(h)
    PROVE  Inv'
<1> USE DEF Inv
<1>1. /\ ready \in Seq(Handles) /\ h \in Threaded /\ h \in Handles /\ h \notin issued
      /\ h \notin Timers /\ pc # "waiting"
      /\ ready' = Append(ready, h) /\ issued' = issued \cup {h} /\ writer' = TRUE
      /\ UNCHANGED <<pc, now, first, deadline, ntodo, stopping, scheduled, when, cancelled,
                     ran, requests, cqes, counter, armed, wakeup_cqe, orphaned, pyerr, erred,
                     lost>>
  BY HandlesAssumption DEF ThreadAppends, GilReleased, Unissued, Handles, TypeOK, timing,
                           kernel, errors, raising
<1>2. h \notin Range(ready) \cup ran \cup scheduled \cup requests \cup Range(cqes) \cup lost
                 \cup cancelled
  BY <1>1 DEF PlaceInv
<1>3. /\ ready' \in Seq(Handles) /\ Range(ready') = Range(ready) \cup {h} /\ Distinct(ready')
      /\ Len(ready') = Len(ready) + 1 /\ Len(ready) \in Nat
  BY <1>1, <1>2, AppendRange DEF PlaceInv
<1>4. ntodo' \in 0 .. Len(ready')
  BY <1>1, <1>3 DEF TypeOK
<1>5. TypeOK'
  BY <1>1, <1>3, <1>4 DEF TypeOK
<1>6. PlaceInv'
  BY <1>1, <1>2, <1>3 DEF PlaceInv
<1>7. TimingInv'
  BY <1>1, <1>3 DEF TimingInv, NoOversleep
<1>8. TimersInv'
  <2>1. \A t \in Timers \cap (ran \cup Range(ready)) : when[t] < now + ClockResolution
    BY EarlyTimers DEF TimersInv, TypeOK
  <2>2. \A t \in Timers \cap (ran' \cup Range(ready')) : when'[t] < now' + ClockResolution
    BY <2>1, <1>1, <1>3
  <2>3. NoEarlyTimer'
    BY <2>2, <1>5 DEF NoEarlyTimer, Range, TypeOK
  <2> QED BY <2>3, <1>1 DEF TimersInv
<1> QED BY <1>1, <1>5, <1>6, <1>7, <1>8 DEF ErrorInv

\* The kernel completes a request.
LEMMA CompleteRequestInv ==
    ASSUME Inv, NEW h \in requests, CompleteRequest(h)
    PROVE  Inv'
<1> USE DEF Inv
<1>1. /\ cqes \in Seq(Callbacks) /\ h \in Callbacks
      /\ requests' = requests \ {h} /\ cqes' = Append(cqes, h)
      /\ UNCHANGED <<pc, now, first, deadline, ntodo, stopping, handles, counter, armed,
                     wakeup_cqe, writer, orphaned, pyerr, erred, lost>>
  BY DEF CompleteRequest, TypeOK, timing, errors, raising
<1>2. h \notin Range(cqes)
  BY DEF PlaceInv
<1>3. cqes' \in Seq(Callbacks) /\ Range(cqes') = Range(cqes) \cup {h} /\ Distinct(cqes')
  BY <1>1, <1>2, AppendRange DEF PlaceInv
<1>4. TypeOK'
  BY <1>1, <1>3 DEF TypeOK, handles
<1>5. PlaceInv'
  BY <1>1, <1>2, <1>3 DEF PlaceInv, handles
<1>6. TimingInv' /\ TimersInv' /\ ErrorInv'
  BY <1>1 DEF TimingInv, NoOversleep, TimersInv, NoEarlyTimer, ErrorInv, handles
<1> QED BY <1>4, <1>5, <1>6

\* Every step keeps the invariant.
LEMMA NextInv == Inv /\ [Next]_vars => Inv'
<1> SUFFICES ASSUME Inv, [Next]_vars PROVE Inv'
  OBVIOUS
<1>1. CASE RunOnce
  BY <1>1, ComputeTimeoutInv, ComputeTimeoutReadsInv, ComputeTimeoutDelayInv, ReadCqeInv,
     PromoteInv, DrainRunsInv, DrainTakesInv, QuietActionsInv DEF RunOnce
<1>2. CASE RunAgain \/ ThreadWrites \/ CompleteWakeupRead \/ Tick \/ UNCHANGED vars
  BY <1>2, QuietActionsInv
<1>3. CASE \E h \in Unissued(Threaded) : ThreadAppends(h)
  BY <1>3, ThreadAppendsInv
<1>4. CASE \E h \in requests : CompleteRequest(h)
  BY <1>4, CompleteRequestInv
<1> QED BY <1>1, <1>2, <1>3, <1>4 DEF Next

LEMMA InvHolds == Spec => []Inv
  BY InitInv, NextInv, PTL DEF Spec

-----------------------------------------------------------------------------
\* Every variable of run_once keeps its type; drain_ready in particular never pops
\* from an empty _ready.
THEOREM LoopTypeCorrect == Spec => []TypeOK
<1>1. Inv => TypeOK
  BY DEF Inv
<1> QED BY <1>1, InvHolds, PTL

\* compute_timeout never lets the loop sleep past a timer, nor while a handle of the
\* loop thread is ready, although the fraction of a delay is lost.
THEOREM LoopNeverOversleeps == Spec => []NoOversleep
<1>1. Inv => NoOversleep
  BY DEF Inv, TimingInv
<1> QED BY <1>1, InvHolds, PTL

\* promote_scheduled makes no timer ready before its time.
THEOREM TimersAreNotEarly == Spec => []NoEarlyTimer
<1>1. Inv => NoEarlyTimer
  BY DEF Inv, TimersInv
<1> QED BY <1>1, InvHolds, PTL

\* drain_ready runs no handle that was cancelled while it waited.
THEOREM CancelledHandlesDoNotRun == Spec => []CancelledNeverRuns
<1>1. Inv => CancelledNeverRuns
  BY DEF Inv, PlaceInv, CancelledNeverRuns
<1> QED BY <1>1, InvHolds, PTL

\* No handle is lost between call_soon, call_at or a request and its run, but for the
\* errors that run_once leaves behind.
THEOREM NoHandleDisappears == Spec => []HandlesAccounted
<1>1. Inv => HandlesAccounted
  BY DEF Inv, PlaceInv, ErrorInv, HandlesAccounted
<1> QED BY <1>1, InvHolds, PTL

\* No handle is ready twice, or ready again after it ran.
THEOREM HandlesRunOnce == Spec => []RunsOnce
<1>1. Inv => RunsOnce
  BY DEF Inv, PlaceInv, Distinct, RunsOnce
<1> QED BY <1>1, InvHolds, PTL
=============================================================================
