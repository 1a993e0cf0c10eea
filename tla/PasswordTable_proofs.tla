------------------------ MODULE PasswordTable_proofs ------------------------
(***************************************************************************)
(* Proofs about PasswordTable, for every set of requests, documents,       *)
(* processes, nodes and tries.  What a walk over the list returns is       *)
(* proved by induction on its length; the list is a function from its      *)
(* places to its nodes, and Linked says how the nodes carry it.            *)
(***************************************************************************)
EXTENDS PasswordTable, Integers, FiniteSetTheorems, WellFoundedInduction, TLAPS

-----------------------------------------------------------------------------
(* Induction, for sets of numbers in place of predicates.                    *)

LEMMA LeastNat ==
  ASSUME NEW S \in SUBSET Nat, S # {}
  PROVE  \E m \in S : \A k \in S : m <= k
<1> DEFINE R == OpToRel(<, Nat)
<1>1. IsWellFoundedOn(R, Nat)
  BY NatLessThanWellFounded, Zenon
<1>2. \A x, y \in Nat : x < y => <<x, y>> \in R
  BY DEF OpToRel
<1> HIDE DEF R
<1>3. PICK m \in S : \A y \in S : ~ (<<y, m>> \in R)
  BY <1>1, WFMin, Zenon
<1>4. \A k \in S : ~(k < m)
  BY <1>2, <1>3
<1> QED BY <1>4

LEMMA SetInduction ==
  ASSUME NEW S, 0 \in S, \A n \in Nat : n \in S => n + 1 \in S
  PROVE  Nat \subseteq S
<1> SUFFICES ASSUME Nat \ S # {} PROVE FALSE
  OBVIOUS
<1>1. PICK m \in Nat \ S : \A k \in Nat \ S : m <= k
  BY LeastNat
<1>2. m # 0 /\ m - 1 \in Nat /\ m - 1 \in S
  BY <1>1
<1> QED BY <1>1, <1>2

-----------------------------------------------------------------------------
(* The walk satisfies its recursion.                                         *)

StepFrom(n, w) == IF n \in DOMAIN cell \ w THEN cell[n].next ELSE n

Max == Cardinality(Nodes)

LEMMA MaxIs == Max \in Nat
  BY PasswordAssumption, FS_CardinalityType DEF PasswordAssumption, Max

LEMMA WalkExists ==
  ASSUME NEW w, NEW N \in Nat
  PROVE  \E g : g = [k \in 0..N |-> IF k = 0 THEN head ELSE StepFrom(g[k - 1], w)]
<1> DEFINE Walks(g, n) == g = [k \in 0..n |-> IF k = 0 THEN head ELSE StepFrom(g[k - 1], w)]
           S == {n \in Nat : \E g : Walks(g, n)}
<1>1. 0 \in S
  <2> DEFINE g == [k \in 0..0 |-> head]
  <2>1. g = [k \in 0..0 |-> IF k = 0 THEN head ELSE StepFrom(g[k - 1], w)]
    OBVIOUS
  <2> QED BY <2>1
<1>2. ASSUME NEW n \in Nat, n \in S PROVE n + 1 \in S
  <2>1. PICK g : Walks(g, n)
    BY <1>2
  <2>2. \A k \in 0..n : g[k] = IF k = 0 THEN head ELSE StepFrom(g[k - 1], w)
    BY <2>1
  <2> DEFINE h == [k \in 0..(n + 1) |-> IF k <= n THEN g[k] ELSE StepFrom(g[n], w)]
             f == [k \in 0..(n + 1) |-> IF k = 0 THEN head ELSE StepFrom(h[k - 1], w)]
  <2>3. ASSUME NEW k \in 0..(n + 1) PROVE h[k] = f[k]
    <3>1. CASE k = 0
      BY <2>2, <3>1
    <3>2. CASE k # 0 /\ k <= n
      <4>1. k \in 0..n /\ k - 1 \in 0..n /\ k - 1 \in 0..(n + 1) /\ k - 1 <= n
        BY <3>2
      <4>2. h[k] = g[k] /\ h[k - 1] = g[k - 1]
        BY <4>1
      <4> QED BY <2>2, <3>2, <4>1, <4>2
    <3>3. CASE k = n + 1
      <4>1. k - 1 = n /\ k # 0 /\ ~(k <= n) /\ n \in 0..(n + 1)
        BY <3>3
      <4>2. h[k] = StepFrom(g[n], w) /\ h[n] = g[n]
        BY <4>1
      <4>3. f[k] = StepFrom(h[n], w)
        BY <4>1
      <4> QED BY <4>2, <4>3
    <3> QED BY <3>1, <3>2, <3>3
  <2>4. h = f
    BY <2>3
  <2>5. Walks(h, n + 1)
    BY <2>4
  <2> HIDE DEF Walks, h, f
  <2>6. n + 1 \in Nat /\ \E u : Walks(u, n + 1)
    BY <2>5
  <2> QED BY <2>6
<1> HIDE DEF S
<1>3. Nat \subseteq S
  BY <1>1, <1>2, SetInduction
<1> QED BY <1>3 DEF S

LEMMA WalkIs ==
  ASSUME NEW w
  PROVE  /\ DOMAIN Walk(w) = 0..Max
         /\ Walk(w)[0] = head
         /\ \A k \in 1..Max : Walk(w)[k] = StepFrom(Walk(w)[k - 1], w)
<1>1. Walk(w) = CHOOSE g :
         g = [k \in 0..Max |-> IF k = 0 THEN head ELSE StepFrom(g[k - 1], w)]
  BY DEF Walk, StepFrom, Max
<1>2. Walk(w) = [k \in 0..Max |-> IF k = 0 THEN head ELSE StepFrom(Walk(w)[k - 1], w)]
  BY <1>1, WalkExists, MaxIs
<1> QED BY <1>2, MaxIs

\* What holds at the head and is kept by each link holds wherever a walk is.
LEMMA WalkStays ==
  ASSUME NEW w, NEW X, head \in X, \A n \in X : StepFrom(n, w) \in X
  PROVE  \A k \in 0..Max : Walk(w)[k] \in X
<1> DEFINE S == {k \in Nat : k <= Max => Walk(w)[k] \in X}
<1>1. 0 \in S
  BY WalkIs
<1>2. ASSUME NEW k \in Nat, k \in S PROVE k + 1 \in S
  <2> SUFFICES ASSUME k + 1 <= Max PROVE Walk(w)[k + 1] \in X
    OBVIOUS
  <2>1. k + 1 \in 1..Max /\ k <= Max /\ (k + 1) - 1 = k
    BY MaxIs
  <2>2. Walk(w)[k] \in X
    BY <1>2, <2>1
  <2>3. Walk(w)[k + 1] = StepFrom(Walk(w)[k], w)
    BY <2>1, WalkIs
  <2> QED BY <2>2, <2>3
<1> HIDE DEF S
<1>3. Nat \subseteq S
  BY <1>1, <1>2, SetInduction
<1> QED BY <1>3, MaxIs DEF S

LEMMA WalkTyped ==
  ASSUME TypeOK, NEW w
  PROVE  \A k \in 0..Max : Walk(w)[k] \in Nodes \cup {"nil"}
<1>1. \A n \in Nodes \cup {"nil"} : StepFrom(n, w) \in Nodes \cup {"nil"}
  BY DEF TypeOK, Cells, StepFrom
<1> QED BY <1>1, WalkStays DEF TypeOK

LEMMA BeforeTyped ==
  ASSUME TypeOK, NEW r, NEW n, Finds(r, n)
  PROVE  n \in Nodes /\ n \in DOMAIN cell /\ Before(r, n) \in Nodes \cup {"nil"}
<1> DEFINE at == Walk(Wanted(r))
<1>1. n \in DOMAIN cell /\ n \in Nodes /\ at[Max] = n
  BY DEF Finds, Wanted, End, TypeOK, Max
<1>2. CASE head = n
  BY <1>1, <1>2 DEF Before
<1>3. CASE head # n
  <2> DEFINE S == {k \in 0..Max : at[k] = n}
             K == CHOOSE k \in DOMAIN at : at[k] # n /\ at[k + 1] = n
  <2>1. Max \in S /\ S \in SUBSET Nat
    BY <1>1, MaxIs
  <2>2. PICK m \in S : \A k \in S : m <= k
    BY <2>1, LeastNat
  <2>3. m # 0
    BY <1>3, <2>2, WalkIs
  <2>4. /\ m - 1 \in DOMAIN at /\ at[m - 1] # n /\ at[(m - 1) + 1] = n
    BY <2>2, <2>3, WalkIs, MaxIs
  <2>5. K \in DOMAIN at
    BY <2>4
  <2>6. Before(r, n) = at[K]
    BY <1>3 DEF Before
  <2> HIDE DEF K
  <2> QED BY <1>1, <2>5, <2>6, WalkIs, WalkTyped
<1> QED BY <1>2, <1>3

-----------------------------------------------------------------------------
(* The list, place by place: u[1] is what head points to, u[len] the last.   *)

NameOf(r) == [doc |-> DocOf[r], process |-> ProcessOf[r]]

Distinct(len, u) == \A i, j \in 1..len : u[i] = u[j] => i = j

In(len, u, n) == \E i \in 1..len : u[i] = n

Link(len, u, i) == IF i \in 1..len THEN u[i] ELSE "nil"

Linked(len, u) ==
    /\ Distinct(len, u) /\ head = Link(len, u, 1)
    /\ \A i \in 1..len : u[i] \in DOMAIN cell /\ cell[u[i]].next = Link(len, u, i + 1)

OneOfName == \A m, n \in DOMAIN cell : cell[m].name = cell[n].name => m = n

LEMMA LengthBound ==
  ASSUME NEW len \in Nat, NEW u \in [1..len -> Nodes], Distinct(len, u)
  PROVE  len <= Max
<1>1. u \in Injection(1..len, Nodes)
  BY DEF Injection, IsInjective, Distinct
<1>2. IsFiniteSet(Nodes)
  BY PasswordAssumption DEF PasswordAssumption
<1>3. Cardinality(1..len) <= Max
  BY <1>1, <1>2, FS_Injection DEF Max
<1>4. Cardinality(1..len) = len
  BY FS_Interval
<1> QED BY <1>3, <1>4

\* A walk that wants nothing of the list reads it to its end.
LEMMA WalkMisses ==
  ASSUME TypeOK, NEW len \in Nat, NEW u \in [1..len -> Nodes], Linked(len, u),
         NEW w, \A i \in 1..len : u[i] \notin w
  PROVE  \A k \in 0..Max : Walk(w)[k] = Link(len, u, k + 1)
<1> DEFINE S == {k \in Nat : k <= Max => Walk(w)[k] = Link(len, u, k + 1)}
<1>1. 0 \in S
  BY WalkIs DEF Linked
<1>2. ASSUME NEW k \in Nat, k \in S PROVE k + 1 \in S
  <2> SUFFICES ASSUME k + 1 <= Max PROVE Walk(w)[k + 1] = Link(len, u, (k + 1) + 1)
    OBVIOUS
  <2>1. k + 1 \in 1..Max /\ k <= Max /\ (k + 1) - 1 = k
    BY MaxIs
  <2>2. Walk(w)[k] = Link(len, u, k + 1)
    BY <1>2, <2>1
  <2>3. Walk(w)[k + 1] = StepFrom(Link(len, u, k + 1), w)
    BY <2>1, <2>2, WalkIs
  <2>4. CASE k + 1 \in 1..len
    <3>1. /\ Link(len, u, k + 1) = u[k + 1] /\ u[k + 1] \in DOMAIN cell \ w
          /\ cell[u[k + 1]].next = Link(len, u, (k + 1) + 1)
      BY <2>4 DEF Link, Linked
    <3> QED BY <2>3, <3>1 DEF StepFrom
  <2>5. CASE k + 1 \notin 1..len
    <3>1. Link(len, u, k + 1) = "nil" /\ Link(len, u, (k + 1) + 1) = "nil"
      BY <2>5 DEF Link
    <3>2. "nil" \notin DOMAIN cell
      BY PasswordAssumption DEF PasswordAssumption, TypeOK
    <3> QED BY <2>3, <3>1, <3>2 DEF StepFrom
  <2> QED BY <2>4, <2>5
<1> HIDE DEF S
<1>3. Nat \subseteq S
  BY <1>1, <1>2, SetInduction
<1> QED BY <1>3, MaxIs DEF S

\* A walk stops at the first node of the list that it wants.
LEMMA WalkHits ==
  ASSUME NEW len \in Nat, NEW u \in [1..len -> Nodes], Linked(len, u),
         NEW w, NEW i \in 1..len, u[i] \in w, \A j \in 1..len : j < i => u[j] \notin w
  PROVE  \A k \in 0..Max : Walk(w)[k] = IF k + 1 < i THEN u[k + 1] ELSE u[i]
<1> DEFINE At(k) == IF k + 1 < i THEN u[k + 1] ELSE u[i]
           S == {k \in Nat : k <= Max => Walk(w)[k] = At(k)}
<1>0. i \in Nat /\ i >= 1 /\ i <= len
  OBVIOUS
<1>1. 0 \in S
  <2>1. 1 \in 1..len /\ (i = 1 \/ 0 + 1 < i)
    BY <1>0
  <2>2. head = u[1]
    BY <2>1 DEF Linked, Link
  <2> QED BY <2>1, <2>2, WalkIs
<1>2. ASSUME NEW k \in Nat, k \in S PROVE k + 1 \in S
  <2> SUFFICES ASSUME k + 1 <= Max PROVE Walk(w)[k + 1] = At(k + 1)
    OBVIOUS
  <2>1. k + 1 \in 1..Max /\ k <= Max /\ (k + 1) - 1 = k
    BY MaxIs
  <2>2. Walk(w)[k + 1] = StepFrom(At(k), w)
    BY <1>2, <2>1, WalkIs
  <2>3. CASE k + 1 < i
    <3>1. k + 1 \in 1..len /\ k + 2 \in 1..len /\ (k + 1) + 1 = k + 2
      BY <1>0, <2>3
    <3>2. At(k) = u[k + 1] /\ u[k + 1] \in DOMAIN cell \ w /\ cell[u[k + 1]].next = u[k + 2]
      BY <2>3, <3>1 DEF Linked, Link
    <3>3. At(k + 1) = u[k + 2]
      <4>1. (k + 1) + 1 < i \/ i = k + 2
        BY <1>0, <2>3
      <4> QED BY <3>1, <4>1
    <3> QED BY <2>2, <3>2, <3>3 DEF StepFrom
  <2>4. CASE ~(k + 1 < i)
    <3>1. ~((k + 1) + 1 < i)
      BY <1>0, <2>4
    <3> QED BY <2>2, <2>4, <3>1 DEF StepFrom
  <2> QED BY <2>3, <2>4
<1> HIDE DEF S
<1>3. Nat \subseteq S
  BY <1>1, <1>2, SetInduction
<1> QED BY <1>3, MaxIs DEF S

LEMMA WantedIs ==
  ASSUME NEW r
  PROVE  Wanted(r) = {n \in DOMAIN cell : cell[n].name = NameOf(r)}
  BY DEF Wanted, Matches, NameOf

\* The search of a thread whose name is at place i of the list, and of one whose
\* name is nowhere in the list.
LEMMA SearchFinds ==
  ASSUME TypeOK, OneOfName, NEW len \in Nat, NEW u \in [1..len -> Nodes], Linked(len, u),
         NEW r, NEW i \in 1..len, cell[u[i]].name = NameOf(r)
  PROVE  /\ Finds(r, u[i]) /\ \A n : Finds(r, n) => n = u[i]
         /\ ~FindsNone(r) /\ ~Breaks(r)
         /\ Before(r, u[i]) = Link(len, u, i - 1)
<1> DEFINE at == Walk(Wanted(r))
<1>0. i \in Nat /\ i >= 1 /\ i <= len /\ len <= Max
  BY LengthBound DEF Linked
<1>1. u[i] \in Wanted(r) /\ u[i] \in DOMAIN cell /\ u[i] # "nil"
  BY WantedIs, PasswordAssumption DEF PasswordAssumption, Linked
<1>2. ASSUME NEW j \in 1..len, j < i PROVE u[j] \notin Wanted(r)
  <2> SUFFICES ASSUME u[j] \in Wanted(r) PROVE FALSE
    OBVIOUS
  <2>1. u[j] = u[i]
    BY <1>1, WantedIs DEF OneOfName
  <2>2. j = i
    BY <2>1 DEF Linked, Distinct
  <2> QED BY <1>0, <1>2, <2>2
<1>3. \A k \in 0..Max : at[k] = IF k + 1 < i THEN u[k + 1] ELSE u[i]
  BY <1>1, <1>2, WalkHits
<1>4. at[Max] = u[i]
  <2>1. Max \in 0..Max /\ ~(Max + 1 < i)
    BY <1>0, MaxIs
  <2> QED BY <1>3, <2>1
<1>5. End(r) = u[i]
  BY <1>4 DEF End, Max
<1>6. Before(r, u[i]) = Link(len, u, i - 1)
  <2>1. CASE i = 1
    <3>1. head = u[i] /\ i - 1 \notin 1..len /\ 1 \in 1..len
      BY <1>0, <2>1 DEF Linked, Link
    <3> QED BY <3>1 DEF Before, Link
  <2>2. CASE i # 1
    <3>1. /\ 1 \in 1..len /\ i - 1 \in 1..len /\ i - 2 \in 0..Max /\ i - 1 \in 0..Max
          /\ (i - 2) + 1 = i - 1 /\ (i - 2) + 1 < i /\ ~((i - 1) + 1 < i)
      BY <1>0, <2>2, MaxIs
    <3>2. head # u[i]
      BY <2>2, <3>1 DEF Linked, Link, Distinct
    <3> DEFINE P(k) == k \in DOMAIN at /\ at[k] # u[i] /\ at[k + 1] = u[i]
               K == CHOOSE k \in DOMAIN at : at[k] # u[i] /\ at[k + 1] = u[i]
    <3>3. P(i - 2)
      <4>1. at[i - 2] = u[i - 1] /\ at[i - 1] = u[i]
        BY <1>3, <3>1
      <4>2. u[i - 1] # u[i]
        BY <1>0, <3>1 DEF Linked, Distinct
      <4> QED BY <3>1, <4>1, <4>2, WalkIs
    <3>4. ASSUME NEW k, P(k) PROVE k = i - 2
      <4>1. k \in 0..Max /\ k \in Nat
        BY <3>4, WalkIs, MaxIs
      <4>2. k # Max /\ k + 1 < i
        BY <1>3, <1>4, <3>4, <4>1
      <4>3. k + 1 \in 0..Max
        BY <4>1, <4>2, MaxIs
      <4>4. ~((k + 1) + 1 < i)
        <5> SUFFICES ASSUME (k + 1) + 1 < i PROVE FALSE
          OBVIOUS
        <5>1. at[k + 1] = u[(k + 1) + 1]
          BY <1>3, <4>3
        <5>2. (k + 1) + 1 \in 1..len
          BY <1>0, <4>1
        <5>3. (k + 1) + 1 = i
          BY <3>4, <5>1, <5>2 DEF Linked, Distinct
        <5> QED BY <1>0, <4>1, <5>3
      <4> QED BY <1>0, <4>1, <4>2, <4>4
    <3>5. K = i - 2
      <4>1. i - 2 \in DOMAIN at /\ at[i - 2] # u[i] /\ at[(i - 2) + 1] = u[i]
        BY <3>3
      <4>2. P(K)
        BY <4>1
      <4> HIDE DEF K, P
      <4> QED BY <3>4, <4>2
    <3>6. Before(r, u[i]) = at[K]
      BY <3>2 DEF Before
    <3>7. at[i - 2] = u[i - 1]
      BY <1>3, <3>1
    <3> HIDE DEF K, at
    <3> QED BY <3>1, <3>5, <3>6, <3>7 DEF Link
  <2> QED BY <2>1, <2>2
<1> QED BY <1>1, <1>5, <1>6 DEF Finds, FindsNone, Breaks

LEMMA SearchMisses ==
  ASSUME TypeOK, NEW len \in Nat, NEW u \in [1..len -> Nodes], Linked(len, u),
         NEW r, \A i \in 1..len : cell[u[i]].name # NameOf(r)
  PROVE  FindsNone(r) /\ (\A n : ~Finds(r, n)) /\ ~Breaks(r)
<1>1. \A i \in 1..len : u[i] \notin Wanted(r)
  BY WantedIs
<1>2. Max \in 0..Max /\ Max + 1 \notin 1..len
  BY MaxIs, LengthBound DEF Linked
<1>3. End(r) = "nil"
  BY <1>1, <1>2, WalkMisses DEF End, Max, Link
<1>4. "nil" \notin Wanted(r)
  BY PasswordAssumption DEF PasswordAssumption, Wanted, TypeOK
<1> QED BY <1>3, <1>4 DEF Finds, FindsNone, Breaks

-----------------------------------------------------------------------------
(* What a step does to its thread.                                           *)

Typed ==
    /\ pc \in [Requests -> Stages] /\ tries \in [Requests -> 0..Tries]
    /\ result \in [Requests -> {"none", "key", "refused"}] /\ overlapped \in BOOLEAN
    /\ \A r \in Requests : pc[r] = "done" <=> result[r] # "none"

LEMMA ComesEffect ==
  ASSUME TypeOK, NEW r \in Requests, NEW s \in Stages, Comes(r, s)
  PROVE  /\ pc' = [pc EXCEPT ![r] = s] /\ pc' \in [Requests -> Stages]
         /\ pc'[r] = s /\ \A q \in Requests : q # r => pc'[q] = pc[q]
         /\ overlapped' \in BOOLEAN /\ (overlapped => overlapped')
         /\ ~overlapped' /\ s \in Inside => \A q \in Requests \ {r} : pc[q] \notin Inside
<1>1. pc' = [pc EXCEPT ![r] = s]
  BY DEF Comes
<1>2. overlapped' = (overlapped \/ (s \in Inside /\ \E q \in Requests \ {r} : pc[q] \in Inside))
  BY DEF Comes
<1>3. overlapped' \in BOOLEAN
  BY <1>2, Zenon
<1> QED BY <1>1, <1>2, <1>3 DEF TypeOK

LEMMA ComesTyped ==
  ASSUME TypeOK, NEW r \in Requests, NEW s \in Stages \ {"done"}, pc[r] # "done",
         Comes(r, s), ThreadFrame
  PROVE  Typed'
  BY ComesEffect DEF TypeOK, Typed, ThreadFrame

\* A try that fails leads to the next one, or to a refusal.
LEMMA FailsEffect ==
  ASSUME TypeOK, NEW r \in Requests, pc[r] # "done", Fails(r)
  PROVE  /\ Typed'
         /\ \/ Comes(r, "test") /\ result' = result
            \/ Comes(r, "done") /\ result' = [result EXCEPT ![r] = "refused"]
<1>1. tries[r] \in 0..Tries /\ Tries \in Nat
  BY PasswordAssumption DEF PasswordAssumption, TypeOK
<1>2. tries' = [tries EXCEPT ![r] = tries[r] + 1]
  BY DEF Fails
<1>3. CASE tries[r] + 1 < Tries /\ Comes(r, "test") /\ UNCHANGED result
  <2>1. tries[r] + 1 \in 0..Tries
    BY <1>1, <1>3
  <2>2. tries' \in [Requests -> 0..Tries]
    BY <1>2, <2>1 DEF TypeOK
  <2> QED BY <1>3, <2>2, ComesEffect DEF Stages, TypeOK, Typed
<1>4. CASE tries[r] + 1 = Tries /\ Comes(r, "done") /\ result' = [result EXCEPT ![r] = "refused"]
  <2>1. tries[r] + 1 \in 0..Tries
    BY <1>1, <1>4
  <2>2. tries' \in [Requests -> 0..Tries]
    BY <1>2, <2>1 DEF TypeOK
  <2>3. /\ result' \in [Requests -> {"none", "key", "refused"}] /\ result'[r] = "refused"
        /\ \A q \in Requests : q # r => result'[q] = result[q]
    BY <1>4 DEF TypeOK
  <2> QED BY <1>4, <2>2, <2>3, ComesEffect DEF Stages, TypeOK, Typed
<1> QED BY <1>3, <1>4 DEF Fails

LEMMA NameTyped ==
  ASSUME NEW r \in Requests
  PROVE  NameOf(r) \in Names
  BY DEF NameOf, Names

LEMMA UnlinksEffect ==
  ASSUME TypeOK, NEW r \in Requests, Unlinks(r)
  PROVE  /\ pc[r] = "unlink" /\ here[r] \in DOMAIN cell
         /\ DOMAIN cell' = DOMAIN cell \ {here[r]}
         /\ \A m \in DOMAIN cell' :
               cell'[m] = IF before[r] # "nil" /\ m = before[r]
                          THEN [cell[m] EXCEPT !.next = cell[here[r]].next] ELSE cell[m]
         /\ head' = IF before[r] = "nil" THEN cell[here[r]].next ELSE head
<1> DEFINE n == here[r]
<1>0. "nil" \notin DOMAIN cell
  BY PasswordAssumption DEF PasswordAssumption, TypeOK
<1>1. CASE /\ before[r] = "nil" /\ head' = cell[n].next
           /\ cell' = [m \in DOMAIN cell \ {n} |-> cell[m]]
  BY <1>1 DEF Unlinks
<1>2. CASE /\ before[r] \in DOMAIN cell /\ UNCHANGED head
           /\ cell' = [m \in DOMAIN cell \ {n} |->
                        IF m = before[r] THEN [cell[m] EXCEPT !.next = cell[n].next] ELSE cell[m]]
  BY <1>0, <1>2 DEF Unlinks
<1> QED BY <1>1, <1>2 DEF Unlinks

\* The places a thread comes to when it has taken its entry out.
LEMMA UnlinksGoes ==
  ASSUME TypeOK, NEW r \in Requests, Unlinks(r)
  PROVE  /\ Typed'
         /\ \/ /\ cell[here[r]].got
               /\ \/ Comes(r, "done") /\ result' = [result EXCEPT ![r] = "key"]
                  \/ Fails(r)
            \/ ~cell[here[r]].got /\ Comes(r, "poll") /\ result' = result
            \/ ~cell[here[r]].got /\ Fails(r)
<1>1. pc[r] = "unlink"
  BY DEF Unlinks
<1>2. CASE /\ cell[here[r]].got /\ Comes(r, "done")
           /\ result' = [result EXCEPT ![r] = "key"] /\ UNCHANGED tries
  <2>1. /\ result' \in [Requests -> {"none", "key", "refused"}] /\ result'[r] = "key"
        /\ \A q \in Requests : q # r => result'[q] = result[q]
    BY <1>2 DEF TypeOK
  <2> QED BY <1>2, <2>1, ComesEffect DEF Stages, TypeOK, Typed
<1>3. CASE cell[here[r]].got /\ Fails(r)
  BY <1>1, <1>3, FailsEffect
<1>4. CASE ~cell[here[r]].got /\ ~exiting /\ Comes(r, "poll") /\ UNCHANGED <<tries, result>>
  BY <1>1, <1>4, ComesTyped DEF Stages, ThreadFrame
<1>5. CASE ~cell[here[r]].got /\ exiting /\ Fails(r)
  BY <1>1, <1>5, FailsEffect
<1> QED BY <1>2, <1>3, <1>4, <1>5 DEF Unlinks

LEMMA InsertsEffect ==
  ASSUME TypeOK, NEW r \in Requests, NEW from, NEW to, NEW got \in BOOLEAN,
         Inserts(r, from, to, got)
  PROVE  \E n \in Nodes \ DOMAIN cell :
            /\ DOMAIN cell' = DOMAIN cell \cup {n}
            /\ cell'[n] = [name |-> NameOf(r), got |-> got, next |-> head]
            /\ \A m \in DOMAIN cell : cell'[m] = cell[m]
            /\ here' = [here EXCEPT ![r] = n] /\ before' = [before EXCEPT ![r] = "nil"]
  BY DEF Inserts, Holds, NameOf

LEMMA SendPutsEffect ==
  ASSUME TypeOK, NEW r \in Requests, SendPuts(r)
  PROVE  /\ pc[r] = "sendPut" /\ here[r] \in DOMAIN cell /\ DOMAIN cell' = DOMAIN cell
         /\ \A m \in DOMAIN cell : m # here[r] => cell'[m] = cell[m]
         /\ cell'[here[r]] = [name |-> [doc |-> cell[here[r]].name.doc, process |-> ProcessOf[r]],
                              got |-> TRUE, next |-> cell[here[r]].next]
<1> DEFINE n == here[r]
<1>1. pc[r] = "sendPut" /\ n \in DOMAIN cell /\ cell[n] \in Cells
  BY DEF SendPuts, TypeOK
<1>2. cell' = [cell EXCEPT ![n].got = TRUE, ![n].name.process = ProcessOf[r]]
  BY DEF SendPuts
<1>3. /\ DOMAIN cell' = DOMAIN cell /\ \A m \in DOMAIN cell : m # n => cell'[m] = cell[m]
      /\ cell'[n] = [cell[n] EXCEPT !.got = TRUE, !.name.process = ProcessOf[r]]
  BY <1>1, <1>2
<1>4. cell'[n] = [name |-> [doc |-> cell[n].name.doc, process |-> ProcessOf[r]],
                  got |-> TRUE, next |-> cell[n].next]
  BY <1>1, <1>3 DEF Cells, Names
<1> QED BY <1>1, <1>3, <1>4

-----------------------------------------------------------------------------
(* Types.                                                                    *)

Kept ==
    /\ head \in Nodes \cup {"nil"}
    /\ DOMAIN cell \subseteq Nodes /\ \A n \in DOMAIN cell : cell[n] \in Cells
    /\ here \in [Requests -> Nodes \cup {"nil"}] /\ before \in [Requests -> Nodes \cup {"nil"}]
    /\ asked \in [Requests -> BOOLEAN]
    /\ exiting \in BOOLEAN /\ broken \in BOOLEAN /\ missed \in BOOLEAN

LEMMA TypedParts == TypeOK <=> Typed /\ Kept
  BY DEF TypeOK, Typed, Kept

\* The steps of a thread that leave the table and its nodes alone.
Quiet(r) ==
    \/ Arrives(r) \/ StationFails(r) \/ TestFinds(r) \/ TestFindsNone(r) \/ DialogCancelled(r)
    \/ PasswordTyped(r) \/ PasswordLost(r) \/ PollGivesUp(r)
    \/ NoMemory(r, "place", "dialog") \/ NoMemory(r, "send", "poll")

LEMMA QuietFrame ==
  ASSUME TypeOK, NEW r \in Requests, Quiet(r)
  PROVE  /\ UNCHANGED <<head, cell, here, before, exiting, broken>>
         /\ missed' \in BOOLEAN /\ (missed => missed')
         /\ asked' \in [Requests -> BOOLEAN] /\ \A q \in Requests : asked[q] => asked'[q]
<1>1. UNCHANGED <<head, cell, here, before, exiting, broken>>
  BY DEF Quiet, Arrives, StationFails, TestFinds, TestFindsNone, DialogCancelled, PasswordTyped,
         PasswordLost, PollGivesUp, NoMemory, TableFrame
<1>2. missed' = missed \/ missed' = TRUE
  BY DEF Quiet, Arrives, StationFails, TestFinds, TestFindsNone, DialogCancelled, PasswordTyped,
         PasswordLost, PollGivesUp, NoMemory, TableFrame
<1>3. asked' = asked \/ asked' = [asked EXCEPT ![r] = TRUE]
  BY DEF Quiet, Arrives, StationFails, TestFinds, TestFindsNone, DialogCancelled, PasswordTyped,
         PasswordLost, PollGivesUp, NoMemory, TableFrame
<1>4. missed' \in BOOLEAN /\ (missed => missed')
  <2>1. missed \in BOOLEAN
    BY DEF TypeOK
  <2>2. CASE missed' = missed
    BY <2>1, <2>2
  <2>3. CASE missed' = TRUE
    BY <2>3
  <2> QED BY <1>2, <2>2, <2>3
<1>5. asked' \in [Requests -> BOOLEAN] /\ \A q \in Requests : asked[q] => asked'[q]
  BY <1>3 DEF TypeOK
<1> QED BY <1>1, <1>4, <1>5

LEMMA QuietTyped ==
  ASSUME TypeOK, NEW r \in Requests, Quiet(r)
  PROVE  TypeOK'
<1>1. Typed'
  <2>1. CASE \/ Arrives(r) \/ TestFindsNone(r) \/ PasswordTyped(r) \/ PasswordLost(r)
             \/ NoMemory(r, "place", "dialog") \/ NoMemory(r, "send", "poll")
    BY <2>1, ComesTyped DEF Arrives, TestFindsNone, PasswordTyped, PasswordLost, NoMemory, Stages
  <2>2. CASE StationFails(r) \/ TestFinds(r) \/ DialogCancelled(r) \/ PollGivesUp(r)
    BY <2>2, FailsEffect DEF StationFails, TestFinds, DialogCancelled, PollGivesUp
  <2> QED BY <2>1, <2>2 DEF Quiet
<1>2. Kept'
  BY QuietFrame DEF TypeOK, Kept
<1> QED BY <1>1, <1>2 DEF TypeOK, Typed, Kept

LEMMA FindsTyped ==
  ASSUME TypeOK, NEW r \in Requests, PollFinds(r) \/ SendFinds(r)
  PROVE  TypeOK'
<1>1. Typed'
  BY ComesTyped DEF PollFinds, SendFinds, Stages
<1>2. PICK n, b \in Nodes \cup {"nil"} : n \in Nodes /\ Holds(r, n, b)
  <2>1. CASE PollFinds(r)
    BY <2>1, BeforeTyped DEF PollFinds
  <2>2. CASE SendFinds(r)
    BY <2>2, BeforeTyped DEF SendFinds
  <2> QED BY <2>1, <2>2
<1>3. UNCHANGED <<head, cell, asked, exiting, broken, missed>>
  BY DEF PollFinds, SendFinds, TableFrame
<1>4. Kept'
  BY <1>2, <1>3 DEF TypeOK, Kept, Holds
<1> QED BY <1>1, <1>4 DEF TypeOK, Typed, Kept

LEMMA InsertsTyped ==
  ASSUME TypeOK, NEW r \in Requests, NEW from, from # "done", NEW to \in Stages \ {"done"},
         NEW got \in BOOLEAN, Inserts(r, from, to, got)
  PROVE  TypeOK'
<1>1. Typed'
  BY ComesTyped DEF Inserts
<1>2. PICK n \in Nodes \ DOMAIN cell :
            /\ DOMAIN cell' = DOMAIN cell \cup {n}
            /\ cell'[n] = [name |-> NameOf(r), got |-> got, next |-> head]
            /\ \A m \in DOMAIN cell : cell'[m] = cell[m]
            /\ here' = [here EXCEPT ![r] = n] /\ before' = [before EXCEPT ![r] = "nil"]
  BY DEF Inserts, Holds, NameOf
<1>3. asked' = [asked EXCEPT ![r] = TRUE] /\ UNCHANGED <<head, exiting, broken, missed>>
  BY DEF Inserts
<1>4. cell'[n] \in Cells
  BY <1>2, NameTyped DEF Cells, TypeOK
<1>5. Kept'
  BY <1>2, <1>3, <1>4 DEF TypeOK, Kept
<1> QED BY <1>1, <1>5 DEF TypeOK, Typed, Kept

LEMMA PublishesTyped ==
  ASSUME TypeOK, NEW r \in Requests, NEW from, from # "done", NEW to \in Stages \ {"done"},
         Publishes(r, from, to)
  PROVE  TypeOK'
<1>1. Typed'
  BY ComesTyped DEF Publishes
<1>2. Kept'
  BY DEF Publishes, Holds, TypeOK, Kept
<1> QED BY <1>1, <1>2 DEF TypeOK, Typed, Kept

LEMMA SendPutsTyped ==
  ASSUME TypeOK, NEW r \in Requests, SendPuts(r)
  PROVE  TypeOK'
<1>1. Typed'
  BY ComesTyped DEF SendPuts, Stages
<1>2. [doc |-> cell[here[r]].name.doc, process |-> ProcessOf[r]] \in Names
  BY SendPutsEffect DEF TypeOK, Cells, Names
<1>3. cell[here[r]] \in Cells
  BY SendPutsEffect DEF TypeOK
<1>4. cell'[here[r]] \in Cells
  <2>1. cell[here[r]].next \in Nodes \cup {"nil"}
    BY <1>3 DEF Cells
  <2>2. cell'[here[r]] = [name |-> [doc |-> cell[here[r]].name.doc, process |-> ProcessOf[r]],
                          got |-> TRUE, next |-> cell[here[r]].next]
    BY SendPutsEffect
  <2> QED BY <1>2, <2>1, <2>2 DEF Cells
<1>5. DOMAIN cell' \subseteq Nodes /\ \A n \in DOMAIN cell' : cell'[n] \in Cells
  BY <1>4, SendPutsEffect DEF TypeOK
<1>6. Kept'
  BY <1>5 DEF SendPuts, Holds, TypeOK, Kept
<1> QED BY <1>1, <1>6 DEF TypeOK, Typed, Kept

LEMMA UnlinksTyped ==
  ASSUME TypeOK, NEW r \in Requests, Unlinks(r)
  PROVE  TypeOK'
<1>1. Typed'
  BY UnlinksGoes
<1>2. cell[here[r]] \in Cells
  BY UnlinksEffect DEF TypeOK
<1>3. DOMAIN cell' \subseteq Nodes /\ head' \in Nodes \cup {"nil"}
  BY <1>2, UnlinksEffect DEF TypeOK, Cells
<1>4. ASSUME NEW m \in DOMAIN cell' PROVE cell'[m] \in Cells
  <2>1. m \in DOMAIN cell /\ cell[m] \in Cells
    BY UnlinksEffect DEF TypeOK
  <2>2. [cell[m] EXCEPT !.next = cell[here[r]].next] \in Cells
    BY <1>2, <2>1 DEF Cells
  <2>3. \/ cell'[m] = cell[m]
        \/ cell'[m] = [cell[m] EXCEPT !.next = cell[here[r]].next]
    BY UnlinksEffect
  <2> QED BY <2>1, <2>2, <2>3
<1>5. Kept'
  BY <1>3, <1>4 DEF Unlinks, Holds, TypeOK, Kept
<1> QED BY <1>1, <1>5 DEF TypeOK, Typed, Kept

LEMMA BreaksTyped ==
  ASSUME TypeOK, NEW r \in Requests, PlaceFinds(r) \/ UsesFreed(r)
  PROVE  TypeOK' /\ broken'
  BY DEF PlaceFinds, UsesFreed, Broken, TypeOK

LEMMA ThreadIs ==
  ASSUME NEW r \in Requests, Thread(r)
  PROVE  \/ Quiet(r) \/ PollFinds(r) \/ SendFinds(r)
         \/ Inserts(r, "place", "holdFill", FALSE) \/ Inserts(r, "send", "sendFill", TRUE)
         \/ Publishes(r, "holdFill", "dialog") \/ Publishes(r, "sendFill", "poll")
         \/ SendPuts(r) \/ Unlinks(r) \/ PlaceFinds(r) \/ UsesFreed(r)
  BY DEF Thread, Place, Send, Quiet

LEMMA TypeInit == Init => TypeOK
<1> SUFFICES ASSUME Init PROVE TypeOK
  OBVIOUS
<1>1. DOMAIN cell = {}
  BY DEF Init
<1>2. 0 \in 0..Tries
  BY PasswordAssumption DEF PasswordAssumption
<1>3. Typed
  BY <1>2 DEF Init, Typed, Stages
<1>4. Kept
  BY <1>1 DEF Init, Kept
<1> QED BY <1>3, <1>4, TypedParts

LEMMA TypeStep ==
  ASSUME TypeOK, [Next]_vars
  PROVE  TypeOK'
<1>1. CASE \E r \in Requests : Thread(r)
  <2>1. PICK r \in Requests : Thread(r)
    BY <1>1
  <2> QED BY <2>1, ThreadIs, QuietTyped, FindsTyped, InsertsTyped, PublishesTyped, SendPutsTyped,
             UnlinksTyped, BreaksTyped DEF Stages
<1>2. CASE Exits
  BY <1>2 DEF Exits, TypeOK
<1>3. CASE UNCHANGED vars
  BY <1>3 DEF vars, TypeOK
<1> QED BY <1>1, <1>2, <1>3 DEF Next

(* Every reachable state has the declared type; in particular a thread has    *)
(* tried at most Tries times and has answered exactly when it is done         *)
(* (QueryPrimaryKey, GingkoCheapman.cpp:810).                                 *)
THEOREM PasswordTypeCorrect == Spec => []TypeOK
  BY TypeInit, TypeStep, PTL DEF Spec

-----------------------------------------------------------------------------
(* What holds while no two threads have met in the table.                    *)

Filling == {"holdFill", "sendFill"}
Waiting == {"dialog", "send", "sendPut", "poll", "unlink"}
Busy    == Waiting \cup {"place", "holdFill"}

OneInside == \A x, y \in Requests : pc[x] \in Inside /\ pc[y] \in Inside => x = y

\* What the thread that is inside knows of the list.
PlaceOf(len, u, x) ==
    /\ pc[x] = "place" => \A n \in DOMAIN cell : cell[n].name # NameOf(x)
    /\ pc[x] \in Filling =>
            /\ here[x] \in DOMAIN cell /\ ~In(len, u, here[x])
            /\ cell[here[x]].name = NameOf(x) /\ cell[here[x]].next = head
    /\ pc[x] = "sendPut" => In(len, u, here[x]) /\ cell[here[x]].name = NameOf(x)
    /\ pc[x] = "unlink" =>
            /\ \E i \in 1..len : here[x] = u[i] /\ before[x] = Link(len, u, i - 1)
            /\ cell[here[x]].name = NameOf(x)

\* What is allocated is in the list, or about to be.
Covered(len, u) ==
    \A n \in DOMAIN cell : In(len, u, n) \/ \E x \in Requests : pc[x] \in Filling /\ here[x] = n

\* The entry that a thread has made for its dialog is in the list, and has the
\* password once the dialog has sent it.
Fed(len, u, x) ==
    /\ pc[x] # "sendFill"
    /\ pc[x] \in Waiting =>
            \E i \in 1..len : /\ cell[u[i]].name = NameOf(x)
                              /\ pc[x] \in {"poll", "unlink"} => cell[u[i]].got

OneOfKind == \A x, y \in Requests : pc[x] \in Busy /\ pc[y] \in Busy /\ NameOf(x) = NameOf(y) => x = y

Sound(len, u) ==
    /\ Linked(len, u) /\ Covered(len, u) /\ \A x \in Requests : PlaceOf(len, u, x)
    /\ ~missed => OneOfKind /\ \A x \in Requests : Fed(len, u, x)

Alone ==
    /\ ~broken /\ OneInside /\ OneOfName
    /\ \E len \in Nat : \E u \in [1..len -> Nodes] : Sound(len, u)

LEMMA OneInsideKeeps ==
  ASSUME TypeOK, OneInside, NEW r \in Requests, NEW s \in Stages, Comes(r, s), ~overlapped'
  PROVE  OneInside'
  BY ComesEffect DEF OneInside

\* A search breaks nowhere; it finds an entry of the thread's name and no other.
LEMMA SearchIs ==
  ASSUME TypeOK, OneOfName, NEW len \in Nat, NEW u \in [1..len -> Nodes], Linked(len, u), NEW r
  PROVE  /\ ~Breaks(r)
         /\ FindsNone(r) => \A i \in 1..len : cell[u[i]].name # NameOf(r)
<1>1. CASE \E i \in 1..len : cell[u[i]].name = NameOf(r)
  <2>1. PICK i \in 1..len : cell[u[i]].name = NameOf(r)
    BY <1>1
  <2>2. /\ Finds(r, u[i]) /\ \A n : Finds(r, n) => n = u[i]
        /\ ~FindsNone(r) /\ ~Breaks(r)
        /\ Before(r, u[i]) = Link(len, u, i - 1)
    BY <2>1, SearchFinds
  <2> QED BY <2>1, <2>2
<1>2. CASE \A i \in 1..len : cell[u[i]].name # NameOf(r)
  BY <1>2, SearchMisses
<1> QED BY <1>1, <1>2

LEMMA FoundIs ==
  ASSUME TypeOK, OneOfName, NEW len \in Nat, NEW u \in [1..len -> Nodes], Linked(len, u),
         NEW r, NEW n, Finds(r, n)
  PROVE  \E i \in 1..len : n = u[i] /\ cell[n].name = NameOf(r) /\ Before(r, n) = Link(len, u, i - 1)
<1>1. PICK i \in 1..len : cell[u[i]].name = NameOf(r)
  BY SearchMisses
<1>2. n = u[i] /\ Before(r, u[i]) = Link(len, u, i - 1)
  BY <1>1, SearchFinds
<1> QED BY <1>1, <1>2

\* A step of r that leaves the list alone.
LEMMA MovesKeeps ==
  ASSUME TypeOK, Alone, NEW len \in Nat, NEW u \in [1..len -> Nodes], Sound(len, u),
         NEW r \in Requests, NEW s \in Stages, Comes(r, s), ~overlapped',
         pc[r] \notin Filling, s \notin Filling, UNCHANGED <<head, cell, broken>>,
         \A q \in Requests \ {r} : here'[q] = here[q] /\ before'[q] = before[q],
         missed => missed',
         PlaceOf(len, u, r)',
         ~missed' => /\ Fed(len, u, r)'
                     /\ s \in Busy => \/ pc[r] \in Busy
                                      \/ \A y \in Requests \ {r} : pc[y] \in Busy => NameOf(y) # NameOf(r)
  PROVE  Alone'
<1>1. pc'[r] = s /\ \A q \in Requests : q # r => pc'[q] = pc[q]
  BY ComesEffect
<1>2. OneInside' /\ OneOfName' /\ ~broken'
  BY OneInsideKeeps DEF Alone, OneOfName
<1>3. Linked(len, u)'
  BY DEF Sound, Linked
<1>4. Covered(len, u)'
  BY <1>1 DEF Sound, Covered
<1>5. ASSUME NEW q \in Requests PROVE PlaceOf(len, u, q)'
  <2>1. CASE q = r
    BY <2>1
  <2>2. CASE q # r
    <3>1. PlaceOf(len, u, q) /\ pc'[q] = pc[q] /\ here'[q] = here[q] /\ before'[q] = before[q]
      BY <1>1, <2>2 DEF Sound
    <3> QED BY <3>1 DEF PlaceOf
  <2> QED BY <2>1, <2>2
<1>6. ASSUME ~missed' PROVE OneOfKind' /\ \A q \in Requests : Fed(len, u, q)'
  <2>1. OneOfKind /\ \A q \in Requests : Fed(len, u, q)
    BY <1>6 DEF Sound
  <2>2. ASSUME NEW q \in Requests PROVE Fed(len, u, q)'
    <3>1. CASE q = r
      BY <1>6, <3>1
    <3>2. CASE q # r
      BY <1>1, <2>1, <3>2 DEF Fed
    <3> QED BY <3>1, <3>2
  <2>3. OneOfKind'
    <3>1. s \in Busy => \/ pc[r] \in Busy
                        \/ \A y \in Requests \ {r} : pc[y] \in Busy => NameOf(y) # NameOf(r)
      BY <1>6
    <3> QED BY <1>1, <2>1, <3>1 DEF OneOfKind, NameOf
  <2> QED BY <2>2, <2>3
<1>7. Sound(len, u)'
  BY <1>3, <1>4, <1>5, <1>6 DEF Sound
<1> QED BY <1>2, <1>7 DEF Alone

LEMMA NotInsidePlace ==
  ASSUME NEW len, NEW u, NEW q, pc'[q] \notin Inside
  PROVE  PlaceOf(len, u, q)'
  BY DEF PlaceOf, Inside, Filling

\* A thread that comes to insert its place has found that its name is nowhere.
LEMMA NameIsNew ==
  ASSUME TypeOK, Alone, NEW len \in Nat, NEW u \in [1..len -> Nodes], Sound(len, u),
         NEW r \in Requests, FindsNone(r), pc[r] \notin Filling,
         \A q \in Requests \ {r} : pc[q] \notin Inside
  PROVE  /\ \A n \in DOMAIN cell : In(len, u, n)
         /\ \A n \in DOMAIN cell : cell[n].name # NameOf(r)
         /\ ~missed => pc[r] \notin Waiting
         /\ ~missed => \A y \in Requests \ {r} : pc[y] \in Busy => NameOf(y) # NameOf(r)
<1>1. \A i \in 1..len : cell[u[i]].name # NameOf(r)
  BY SearchIs DEF Alone, Sound
<1>2. \A n \in DOMAIN cell : In(len, u, n)
  BY DEF Sound, Covered, Filling, Inside
<1>3. \A n \in DOMAIN cell : cell[n].name # NameOf(r)
  BY <1>1, <1>2 DEF In
<1>4. ASSUME ~missed PROVE pc[r] \notin Waiting
  BY <1>1, <1>4 DEF Sound, Fed
<1>5. ASSUME ~missed, NEW y \in Requests \ {r}, pc[y] \in Busy PROVE NameOf(y) # NameOf(r)
  <2>1. pc[y] \in Waiting
    BY <1>5 DEF Busy, Inside
  <2>2. \E i \in 1..len : cell[u[i]].name = NameOf(y)
    BY <1>5, <2>1 DEF Sound, Fed
  <2> QED BY <1>1, <2>2
<1> QED BY <1>2, <1>3, <1>4, <1>5

LEMMA QuietKeeps ==
  ASSUME TypeOK, Alone, NEW r \in Requests, Quiet(r), ~overlapped'
  PROVE  Alone'
<1>1. PICK len \in Nat : \E u \in [1..len -> Nodes] : Sound(len, u)
  BY DEF Alone
<1>2. PICK u \in [1..len -> Nodes] : Sound(len, u)
  BY <1>1
<1>3. UNCHANGED <<head, cell, here, before, broken>> /\ (missed => missed')
  BY QuietFrame
<1>4. ASSUME NEW s \in Stages \ (Filling \cup Inside), Comes(r, s), pc[r] \notin Filling,
             missed' \/ s \notin Waiting \/ (s = "send" /\ pc[r] = "dialog")
      PROVE  Alone'
  <2>1. pc'[r] = s
    BY <1>4, ComesEffect
  <2>2. PlaceOf(len, u, r)'
    BY <1>4, <2>1, NotInsidePlace
  <2>3. ASSUME ~missed' PROVE Fed(len, u, r)' /\ (s \in Busy => pc[r] \in Busy)
    <3>1. CASE s \notin Waiting
      BY <1>4, <2>1, <3>1 DEF Fed, Filling, Inside, Busy
    <3>2. CASE s = "send" /\ pc[r] = "dialog"
      <4>1. Fed(len, u, r)
        BY <1>2, <1>3, <2>3 DEF Sound
      <4> QED BY <1>3, <2>1, <3>2, <4>1 DEF Fed, Waiting, Busy
    <3> QED BY <1>4, <2>3, <3>1, <3>2
  <2> QED BY <1>2, <1>3, <1>4, <2>2, <2>3, MovesKeeps
<1>5. CASE TestFindsNone(r)
  <2>1. /\ pc[r] = "test" /\ FindsNone(r) /\ Comes(r, "place") /\ "place" \in Stages
        /\ missed' = missed
    BY <1>5 DEF TestFindsNone, TableFrame, Stages
  <2>2. pc'[r] = "place" /\ \A q \in Requests \ {r} : pc[q] \notin Inside
    BY <2>1, ComesEffect DEF Inside
  <2>3. /\ \A n \in DOMAIN cell : cell[n].name # NameOf(r)
        /\ ~missed => \A y \in Requests \ {r} : pc[y] \in Busy => NameOf(y) # NameOf(r)
    BY <1>2, <2>1, <2>2, NameIsNew DEF Filling
  <2>4. PlaceOf(len, u, r)'
    BY <1>3, <2>2, <2>3 DEF PlaceOf, Filling, NameOf
  <2>5. Fed(len, u, r)'
    BY <2>2 DEF Fed, Waiting
  <2> QED BY <1>2, <1>3, <2>1, <2>3, <2>4, <2>5, MovesKeeps DEF Filling
<1>6. CASE Arrives(r)
  BY <1>4, <1>6 DEF Arrives, Stages, Filling, Inside, Waiting
<1>7. CASE StationFails(r) \/ TestFinds(r) \/ DialogCancelled(r) \/ PollGivesUp(r)
  <2>1. pc[r] \in {"test", "dialog", "poll"} /\ Fails(r)
    BY <1>7 DEF StationFails, TestFinds, DialogCancelled, PollGivesUp
  <2>2. Comes(r, "test") \/ Comes(r, "done")
    BY <2>1 DEF Fails
  <2> QED BY <1>4, <2>1, <2>2 DEF Stages, Filling, Inside, Waiting
<1>8. CASE PasswordTyped(r)
  BY <1>4, <1>8 DEF PasswordTyped, Stages, Filling, Inside, Waiting
<1>9. CASE PasswordLost(r)
  BY <1>4, <1>9 DEF PasswordLost, Stages, Filling, Inside, Waiting
<1>10. CASE NoMemory(r, "place", "dialog") \/ NoMemory(r, "send", "poll")
  BY <1>4, <1>10 DEF NoMemory, Stages, Filling, Inside, Waiting
<1> QED BY <1>5, <1>6, <1>7, <1>8, <1>9, <1>10 DEF Quiet

LEMMA FindsKeeps ==
  ASSUME TypeOK, Alone, NEW r \in Requests, PollFinds(r) \/ SendFinds(r), ~overlapped'
  PROVE  Alone'
<1>1. PICK len \in Nat : \E u \in [1..len -> Nodes] : Sound(len, u)
  BY DEF Alone
<1>2. PICK u \in [1..len -> Nodes] : Sound(len, u)
  BY <1>1
<1>3. UNCHANGED <<head, cell, broken, missed>>
  BY DEF PollFinds, SendFinds, TableFrame
<1>4. PICK n, b : Finds(r, n) /\ Holds(r, n, b) /\ (PollFinds(r) => b = Before(r, n))
  <2>1. CASE PollFinds(r)
    BY <2>1 DEF PollFinds
  <2>2. CASE SendFinds(r) /\ ~PollFinds(r)
    BY <2>2 DEF SendFinds
  <2> QED BY <2>1, <2>2
<1>5. PICK i \in 1..len : n = u[i] /\ cell[n].name = NameOf(r) /\ Before(r, n) = Link(len, u, i - 1)
  <2>1. OneOfName /\ Linked(len, u)
    BY <1>2 DEF Alone, Sound
  <2> QED BY <1>4, <2>1, FoundIs
<1>6. /\ here'[r] = n /\ before'[r] = b
      /\ \A q \in Requests \ {r} : here'[q] = here[q] /\ before'[q] = before[q]
  BY <1>4 DEF Holds, TypeOK
<1>7. CASE PollFinds(r)
  <2>1. pc[r] = "poll" /\ Comes(r, "unlink") /\ "unlink" \in Stages
    BY <1>7 DEF PollFinds, Stages
  <2>2. pc'[r] = "unlink"
    BY <2>1, ComesEffect
  <2>3. PlaceOf(len, u, r)'
    BY <1>3, <1>4, <1>5, <1>6, <1>7, <2>2 DEF PlaceOf, Filling, NameOf
  <2>4. ASSUME ~missed' PROVE Fed(len, u, r)' /\ pc[r] \in Busy
    <3>1. Fed(len, u, r)
      BY <1>2, <1>3, <2>4 DEF Sound
    <3> QED BY <1>3, <2>1, <2>2, <3>1 DEF Fed, Waiting, Busy, NameOf
  <2> QED BY <1>2, <1>3, <1>6, <2>1, <2>3, <2>4, MovesKeeps DEF Filling
<1>8. CASE SendFinds(r)
  <2>1. pc[r] = "send" /\ Comes(r, "sendPut") /\ "sendPut" \in Stages
    BY <1>8 DEF SendFinds, Stages
  <2>2. pc'[r] = "sendPut"
    BY <2>1, ComesEffect
  <2>3. PlaceOf(len, u, r)'
    BY <1>3, <1>5, <1>6, <2>2 DEF PlaceOf, Filling, NameOf, In
  <2>4. ASSUME ~missed' PROVE Fed(len, u, r)' /\ pc[r] \in Busy
    <3>1. Fed(len, u, r)
      BY <1>2, <1>3, <2>4 DEF Sound
    <3> QED BY <1>3, <2>1, <2>2, <3>1 DEF Fed, Waiting, Busy, NameOf
  <2> QED BY <1>2, <1>3, <1>6, <2>1, <2>3, <2>4, MovesKeeps DEF Filling
<1> QED BY <1>7, <1>8

\* A step of r that writes to the table: the others are outside it.
OthersOutside(r) == \A q \in Requests \ {r} : pc[q] \notin Inside /\ pc'[q] = pc[q]

LEMMA WriterAlone ==
  ASSUME TypeOK, Alone, NEW r \in Requests, NEW s \in Stages, Comes(r, s), ~overlapped',
         pc[r] \in Inside \/ s \in Inside
  PROVE  OthersOutside(r) /\ OneInside' /\ pc'[r] = s
  BY ComesEffect, OneInsideKeeps DEF OthersOutside, Alone, OneInside

LEMMA InsertsKeeps ==
  ASSUME TypeOK, Alone, NEW r \in Requests, NEW from, NEW to, NEW got \in BOOLEAN,
         \/ from = "place" /\ to = "holdFill"
         \/ from = "send" /\ to = "sendFill",
         Inserts(r, from, to, got), ~overlapped'
  PROVE  Alone'
<1>1. PICK len \in Nat : \E u \in [1..len -> Nodes] : Sound(len, u)
  BY DEF Alone
<1>2. PICK u \in [1..len -> Nodes] : Sound(len, u)
  BY <1>1
<1>3. PICK n \in Nodes \ DOMAIN cell :
            /\ DOMAIN cell' = DOMAIN cell \cup {n}
            /\ cell'[n] = [name |-> NameOf(r), got |-> got, next |-> head]
            /\ \A m \in DOMAIN cell : cell'[m] = cell[m]
            /\ here' = [here EXCEPT ![r] = n] /\ before' = [before EXCEPT ![r] = "nil"]
  BY DEF Inserts, Holds, NameOf
<1>4. /\ pc[r] = from /\ FindsNone(r) /\ Comes(r, to) /\ to \in Stages /\ to \in Inside
      /\ UNCHANGED <<head, broken, missed>>
  BY DEF Inserts, Stages, Inside
<1>5. OthersOutside(r) /\ OneInside' /\ pc'[r] = to
  BY <1>4, WriterAlone
<1>6. /\ \A m \in DOMAIN cell : In(len, u, m)
      /\ \A m \in DOMAIN cell : cell[m].name # NameOf(r)
      /\ ~missed => pc[r] \notin Waiting
  BY <1>2, <1>4, <1>5, NameIsNew DEF OthersOutside, Filling
<1>7. \A i \in 1..len : u[i] \in DOMAIN cell /\ cell'[u[i]] = cell[u[i]]
  BY <1>2, <1>3 DEF Sound, Linked
<1>8. OneOfName'
  BY <1>3, <1>6 DEF Alone, OneOfName
<1>9. Linked(len, u)'
  BY <1>2, <1>3, <1>4, <1>7 DEF Sound, Linked
<1>10. here'[r] = n /\ pc'[r] \in Filling
  BY <1>3, <1>4, <1>5 DEF TypeOK, Filling
<1>11. Covered(len, u)'
  BY <1>3, <1>6, <1>10 DEF Covered, In
<1>12. PlaceOf(len, u, r)'
  <2>1. ~In(len, u, n)
    BY <1>3, <1>7 DEF In
  <2>2. cell'[here'[r]].name = NameOf(r) /\ cell'[here'[r]].next = head' /\ here'[r] \in DOMAIN cell'
    BY <1>3, <1>4, <1>10
  <2> QED BY <1>10, <2>1, <2>2 DEF PlaceOf, Filling, In, NameOf
<1>13. \A q \in Requests : PlaceOf(len, u, q)'
  <2>1. ASSUME NEW q \in Requests, q # r PROVE PlaceOf(len, u, q)'
    BY <1>5, <2>1, NotInsidePlace DEF OthersOutside
  <2> QED BY <1>12, <2>1
<1>14. ASSUME ~missed' PROVE OneOfKind' /\ \A q \in Requests : Fed(len, u, q)'
  <2>1. OneOfKind /\ \A q \in Requests : Fed(len, u, q)
    BY <1>2, <1>4, <1>14 DEF Sound
  <2>2. pc[r] = "place" /\ pc'[r] = "holdFill"
    BY <1>4, <1>5, <1>6, <1>14 DEF Waiting
  <2>3. OneOfKind'
    BY <1>5, <2>1, <2>2 DEF OthersOutside, OneOfKind, Busy, NameOf
  <2>4. ASSUME NEW q \in Requests PROVE Fed(len, u, q)'
    <3>1. CASE q = r
      BY <2>2, <3>1 DEF Fed, Waiting
    <3>2. CASE q # r
      BY <1>5, <1>7, <2>1, <3>2 DEF Fed, OthersOutside, NameOf
    <3> QED BY <3>1, <3>2
  <2> QED BY <2>3, <2>4
<1>15. Sound(len, u)'
  BY <1>9, <1>11, <1>13, <1>14 DEF Sound
<1> QED BY <1>4, <1>5, <1>8, <1>15 DEF Alone

LEMMA SendPutsKeeps ==
  ASSUME TypeOK, Alone, NEW r \in Requests, SendPuts(r), ~overlapped'
  PROVE  Alone'
<1>1. PICK len \in Nat : \E u \in [1..len -> Nodes] : Sound(len, u)
  BY DEF Alone
<1>2. PICK u \in [1..len -> Nodes] : Sound(len, u)
  BY <1>1
<1> DEFINE n == here[r]
<1>3. /\ pc[r] = "sendPut" /\ Comes(r, "poll") /\ "poll" \in Stages
      /\ UNCHANGED <<head, broken, missed>>
  BY DEF SendPuts, Stages
<1>4. OthersOutside(r) /\ OneInside' /\ pc'[r] = "poll"
  BY <1>3, WriterAlone DEF Inside
<1>5. In(len, u, n) /\ cell[n].name = NameOf(r)
  BY <1>2, <1>3 DEF Sound, PlaceOf
<1>6. /\ n \in DOMAIN cell /\ DOMAIN cell' = DOMAIN cell
      /\ \A m \in DOMAIN cell : m # n => cell'[m] = cell[m]
      /\ cell'[n] = [name |-> NameOf(r), got |-> TRUE, next |-> cell[n].next]
  BY <1>5, SendPutsEffect DEF NameOf
<1> HIDE DEF n
<1>7. /\ \A m \in DOMAIN cell : cell'[m].name = cell[m].name /\ cell'[m].next = cell[m].next
      /\ \A m \in DOMAIN cell : cell[m].got => cell'[m].got
      /\ cell'[n].got
  BY <1>5, <1>6
<1>8. \A i \in 1..len : u[i] \in DOMAIN cell
  BY <1>2 DEF Sound, Linked
<1>9. OneOfName'
  BY <1>6, <1>7 DEF Alone, OneOfName
<1>10. Linked(len, u)'
  BY <1>2, <1>3, <1>6, <1>7 DEF Sound, Linked
<1>11. Covered(len, u)'
  <2>1. \A x \in Requests : pc[x] \notin Filling
    BY <1>3, <1>4 DEF OthersOutside, Filling, Inside
  <2> QED BY <1>2, <1>6, <2>1 DEF Sound, Covered, In
<1>12. \A q \in Requests : PlaceOf(len, u, q)'
  BY <1>4, NotInsidePlace DEF OthersOutside, Inside
<1>13. ASSUME ~missed' PROVE OneOfKind' /\ \A q \in Requests : Fed(len, u, q)'
  <2>1. OneOfKind /\ \A q \in Requests : Fed(len, u, q)
    BY <1>2, <1>3, <1>13 DEF Sound
  <2>2. OneOfKind'
    BY <1>3, <1>4, <2>1 DEF OthersOutside, OneOfKind, Busy, Waiting, NameOf
  <2>3. ASSUME NEW q \in Requests PROVE Fed(len, u, q)'
    <3>1. CASE q = r
      <4>1. PICK i \in 1..len : u[i] = n
        BY <1>5 DEF In
      <4>2. cell'[u[i]].name = NameOf(r) /\ cell'[u[i]].got
        BY <1>6, <1>7, <4>1
      <4> QED BY <1>4, <3>1, <4>2 DEF Fed, NameOf
    <3>2. CASE q # r
      <4>1. Fed(len, u, q) /\ pc'[q] = pc[q]
        BY <1>4, <2>1, <3>2 DEF OthersOutside
      <4> QED BY <1>7, <1>8, <4>1 DEF Fed, NameOf
    <3> QED BY <3>1, <3>2
  <2> QED BY <2>2, <2>3
<1>14. Sound(len, u)'
  BY <1>10, <1>11, <1>12, <1>13 DEF Sound
<1> QED BY <1>3, <1>4, <1>9, <1>14 DEF Alone

\* The list with one more node in front, and the list without place i.
Pushed(len, u, n) == [k \in 1..(len + 1) |-> IF k = 1 THEN n ELSE u[k - 1]]

Without(len, u, i) == [k \in 1..(len - 1) |-> IF k < i THEN u[k] ELSE u[k + 1]]

LEMMA PushedIs ==
  ASSUME NEW len \in Nat, NEW u \in [1..len -> Nodes], Distinct(len, u), NEW n \in Nodes,
         ~In(len, u, n)
  PROVE  /\ Pushed(len, u, n) \in [1..(len + 1) -> Nodes] /\ Distinct(len + 1, Pushed(len, u, n))
         /\ Link(len + 1, Pushed(len, u, n), 1) = n
         /\ \A k \in 1..(len + 1) : Link(len + 1, Pushed(len, u, n), k + 1) = Link(len, u, k)
         /\ \A k \in 1..(len + 1) : k = 1 \/ (k - 1 \in 1..len /\ Pushed(len, u, n)[k] = u[k - 1])
         /\ \A k \in 1..len : k + 1 \in 1..(len + 1) /\ Pushed(len, u, n)[k + 1] = u[k]
<1> DEFINE v == Pushed(len, u, n)
<1>1. /\ v \in [1..(len + 1) -> Nodes] /\ 1 \in 1..(len + 1) /\ v[1] = n
      /\ \A k \in 1..(len + 1) : k # 1 => k - 1 \in 1..len /\ v[k] = u[k - 1]
      /\ \A k \in 1..len : k + 1 \in 1..(len + 1) /\ k + 1 # 1 /\ (k + 1) - 1 = k
  BY DEF Pushed
<1> HIDE DEF v
<1>2. \A k \in 1..len : v[k + 1] = u[k]
  BY <1>1
<1>3. Distinct(len + 1, v)
  <2> SUFFICES ASSUME NEW k \in 1..(len + 1), NEW l \in 1..(len + 1), v[k] = v[l] PROVE k = l
    BY DEF Distinct
  <2>1. CASE k = 1 \/ l = 1
    BY <1>1, <2>1 DEF In
  <2>2. CASE k # 1 /\ l # 1
    <3>1. k - 1 = l - 1
      BY <1>1, <2>2 DEF Distinct
    <3> QED BY <3>1
  <2> QED BY <2>1, <2>2
<1>4. ASSUME NEW k \in 1..(len + 1) PROVE Link(len + 1, v, k + 1) = Link(len, u, k)
  <2>1. CASE k \in 1..len
    BY <1>1, <1>2, <2>1 DEF Link
  <2>2. CASE k \notin 1..len
    <3>1. k + 1 \notin 1..(len + 1)
      BY <2>2
    <3> QED BY <2>2, <3>1 DEF Link
  <2> QED BY <2>1, <2>2
<1>5. Link(len + 1, v, 1) = n
  BY <1>1 DEF Link
<1> QED BY <1>1, <1>2, <1>3, <1>4, <1>5 DEF v

LEMMA WithoutIs ==
  ASSUME NEW len \in Nat, NEW u \in [1..len -> Nodes], Distinct(len, u), NEW i \in 1..len
  PROVE  /\ len - 1 \in Nat
         /\ Without(len, u, i) \in [1..(len - 1) -> Nodes] /\ Distinct(len - 1, Without(len, u, i))
         /\ \A k \in 1..len :
               Link(len - 1, Without(len, u, i), k) = IF k < i THEN Link(len, u, k) ELSE Link(len, u, k + 1)
         /\ \A k \in 1..(len - 1) :
               /\ k < i => k \in 1..len /\ Without(len, u, i)[k] = u[k]
               /\ ~(k < i) => k + 1 \in 1..len /\ Without(len, u, i)[k] = u[k + 1]
         /\ \A j \in 1..len : j # i => In(len - 1, Without(len, u, i), u[j])
<1> DEFINE v == Without(len, u, i)
<1>0. i \in Nat /\ i >= 1 /\ i <= len /\ len - 1 \in Nat
  OBVIOUS
<1>1. \A k \in 1..(len - 1) : k \in 1..len /\ k + 1 \in 1..len
  BY <1>0
<1>2. /\ v \in [1..(len - 1) -> Nodes]
      /\ \A k \in 1..(len - 1) : v[k] = IF k < i THEN u[k] ELSE u[k + 1]
  BY <1>0, <1>1 DEF Without
<1> HIDE DEF v
<1>3. Distinct(len - 1, v)
  <2> SUFFICES ASSUME NEW k \in 1..(len - 1), NEW l \in 1..(len - 1), v[k] = v[l] PROVE k = l
    BY DEF Distinct
  <2> DEFINE K == IF k < i THEN k ELSE k + 1
             L == IF l < i THEN l ELSE l + 1
  <2>1. K \in 1..len /\ L \in 1..len /\ v[k] = u[K] /\ v[l] = u[L]
    BY <1>1, <1>2
  <2>2. K = L
    BY <2>1 DEF Distinct
  <2> QED BY <1>0, <2>2
<1>4. ASSUME NEW k \in 1..len
      PROVE  Link(len - 1, v, k) = IF k < i THEN Link(len, u, k) ELSE Link(len, u, k + 1)
  <2>1. CASE k \in 1..(len - 1)
    BY <1>1, <1>2, <2>1 DEF Link
  <2>2. CASE k \notin 1..(len - 1)
    <3>1. ~(k < i) /\ k + 1 \notin 1..len
      BY <1>0, <2>2
    <3> QED BY <2>2, <3>1 DEF Link
  <2> QED BY <2>1, <2>2
<1>5. ASSUME NEW j \in 1..len, j # i PROVE In(len - 1, v, u[j])
  <2>1. CASE j < i
    <3>1. j \in 1..(len - 1)
      BY <1>0, <2>1
    <3> QED BY <1>2, <2>1, <3>1 DEF In
  <2>2. CASE ~(j < i)
    <3>1. j - 1 \in 1..(len - 1) /\ ~(j - 1 < i) /\ (j - 1) + 1 = j
      BY <1>0, <1>5, <2>2
    <3>2. v[j - 1] = u[j]
      BY <1>2, <3>1
    <3> QED BY <3>1, <3>2 DEF In
  <2> QED BY <2>1, <2>2
<1> QED BY <1>0, <1>1, <1>2, <1>3, <1>4, <1>5 DEF v

LEMMA PublishesKeeps ==
  ASSUME TypeOK, Alone, NEW r \in Requests, NEW from, NEW to,
         \/ from = "holdFill" /\ to = "dialog"
         \/ from = "sendFill" /\ to = "poll",
         Publishes(r, from, to), ~overlapped'
  PROVE  Alone'
<1>1. PICK len \in Nat : \E u \in [1..len -> Nodes] : Sound(len, u)
  BY DEF Alone
<1>2. PICK u \in [1..len -> Nodes] : Sound(len, u)
  BY <1>1
<1>0. PICK n : n = here[r]
  OBVIOUS
<1> DEFINE v == Pushed(len, u, n)
<1>3. /\ pc[r] = from /\ Comes(r, to) /\ to \in Stages /\ head' = n
      /\ UNCHANGED <<cell, broken, missed>>
  BY <1>0 DEF Publishes, Stages
<1>4. OthersOutside(r) /\ OneInside' /\ pc'[r] = to
  BY <1>3, WriterAlone DEF Inside
<1>5. /\ n \in DOMAIN cell /\ ~In(len, u, n) /\ cell[n].name = NameOf(r) /\ cell[n].next = head
  BY <1>0, <1>2, <1>3 DEF Sound, PlaceOf, Filling
<1>6. n \in Nodes /\ Distinct(len, u) /\ len + 1 \in Nat
  BY <1>2, <1>5 DEF TypeOK, Sound, Linked
<1>7. /\ v \in [1..(len + 1) -> Nodes] /\ Distinct(len + 1, v)
      /\ Link(len + 1, v, 1) = n
      /\ \A k \in 1..(len + 1) : Link(len + 1, v, k + 1) = Link(len, u, k)
      /\ \A k \in 1..(len + 1) : k = 1 \/ (k - 1 \in 1..len /\ v[k] = u[k - 1])
      /\ \A k \in 1..len : k + 1 \in 1..(len + 1) /\ v[k + 1] = u[k]
  BY <1>5, <1>6, PushedIs
<1>8. 1 \in 1..(len + 1) /\ v[1] = n
  BY <1>7 DEF Link
<1> HIDE DEF v
<1>9. Linked(len + 1, v)'
  <2>1. ASSUME NEW k \in 1..(len + 1)
        PROVE  v[k] \in DOMAIN cell /\ cell[v[k]].next = Link(len + 1, v, k + 1)
    <3>1. Link(len + 1, v, k + 1) = Link(len, u, k)
      BY <1>7
    <3>2. CASE k = 1
      BY <1>2, <1>5, <1>8, <3>1, <3>2 DEF Sound, Linked
    <3>3. CASE k # 1
      <4>1. k - 1 \in 1..len /\ v[k] = u[k - 1] /\ (k - 1) + 1 = k
        BY <1>7, <3>3
      <4>2. u[k - 1] \in DOMAIN cell /\ cell[u[k - 1]].next = Link(len, u, (k - 1) + 1)
        BY <1>2, <4>1 DEF Sound, Linked
      <4> QED BY <3>1, <4>1, <4>2
    <3> QED BY <3>2, <3>3
  <2> QED BY <1>3, <1>7, <2>1 DEF Linked, Distinct, Link
<1>10. \A m : In(len, u, m) => In(len + 1, v, m)
  BY <1>7 DEF In
<1>11. Covered(len + 1, v)'
  <2> SUFFICES ASSUME NEW m \in DOMAIN cell PROVE In(len + 1, v, m)
    BY <1>3 DEF Covered, In
  <2>1. In(len, u, m) \/ m = n
    BY <1>0, <1>2, <1>4 DEF Sound, Covered, OthersOutside, Filling, Inside
  <2> QED BY <1>8, <1>10, <2>1 DEF In
<1>12. \A q \in Requests : PlaceOf(len + 1, v, q)'
  BY <1>3, <1>4, NotInsidePlace DEF OthersOutside, Inside
<1>13. OneOfName'
  BY <1>3 DEF Alone, OneOfName
<1>14. ASSUME ~missed' PROVE OneOfKind' /\ \A q \in Requests : Fed(len + 1, v, q)'
  <2>1. OneOfKind /\ \A q \in Requests : Fed(len, u, q)
    BY <1>2, <1>3, <1>14 DEF Sound
  <2>2. pc[r] = "holdFill" /\ pc'[r] = "dialog"
    BY <1>3, <1>4, <2>1 DEF Fed
  <2>3. OneOfKind'
    BY <1>4, <2>1, <2>2 DEF OthersOutside, OneOfKind, Busy, Waiting, NameOf
  <2>4. ASSUME NEW q \in Requests PROVE Fed(len + 1, v, q)'
    <3>1. CASE q = r
      BY <1>3, <1>5, <1>8, <2>2, <3>1 DEF Fed, NameOf
    <3>2. CASE q # r
      <4>1. Fed(len, u, q) /\ pc'[q] = pc[q]
        BY <1>4, <2>1, <3>2 DEF OthersOutside
      <4> QED BY <1>3, <1>7, <4>1 DEF Fed, NameOf
    <3> QED BY <3>1, <3>2
  <2> QED BY <2>3, <2>4
<1>15. Sound(len + 1, v)'
  BY <1>9, <1>11, <1>12, <1>14 DEF Sound
<1> QED BY <1>3, <1>4, <1>6, <1>7, <1>13, <1>15 DEF Alone

LEMMA UnlinksKeeps ==
  ASSUME TypeOK, Alone, NEW r \in Requests, Unlinks(r), ~overlapped'
  PROVE  Alone'
<1>1. PICK len \in Nat : \E u \in [1..len -> Nodes] : Sound(len, u)
  BY DEF Alone
<1>2. PICK u \in [1..len -> Nodes] : Sound(len, u)
  BY <1>1
<1>3. PICK n : n = here[r]
  OBVIOUS
<1>4. pc[r] = "unlink" /\ UNCHANGED <<broken, missed>>
  BY DEF Unlinks
<1>5. PICK i \in 1..len : n = u[i] /\ before[r] = Link(len, u, i - 1)
  BY <1>2, <1>3, <1>4 DEF Sound, PlaceOf
<1>6. /\ n \in DOMAIN cell /\ cell[n].name = NameOf(r) /\ cell[n].next = Link(len, u, i + 1)
  BY <1>2, <1>3, <1>4, <1>5 DEF Sound, PlaceOf, Linked
<1>7. PICK s \in Stages :
         Comes(r, s) /\ (s \in {"done", "test"} \/ (s = "poll" /\ ~cell[n].got))
  <2>1. Comes(r, "done") \/ Comes(r, "test") \/ (Comes(r, "poll") /\ ~cell[n].got)
    BY <1>3, UnlinksGoes DEF Fails
  <2> QED BY <2>1 DEF Stages
<1>8. OthersOutside(r) /\ OneInside' /\ pc'[r] = s
  <2>1. pc[r] \in Inside /\ Comes(r, s)
    BY <1>4, <1>7 DEF Inside
  <2> QED BY <2>1, WriterAlone
<1> DEFINE v == Without(len, u, i)
<1>9. /\ len - 1 \in Nat
      /\ v \in [1..(len - 1) -> Nodes] /\ Distinct(len - 1, v)
      /\ \A k \in 1..len : Link(len - 1, v, k) = IF k < i THEN Link(len, u, k) ELSE Link(len, u, k + 1)
      /\ \A k \in 1..(len - 1) :
            /\ k < i => k \in 1..len /\ v[k] = u[k]
            /\ ~(k < i) => k + 1 \in 1..len /\ v[k] = u[k + 1]
      /\ \A j \in 1..len : j # i => In(len - 1, v, u[j])
  BY <1>2, WithoutIs DEF Sound, Linked
<1> HIDE DEF v
<1>10. /\ i \in Nat /\ i >= 1 /\ i <= len
       /\ 1 \in 1..len
       /\ before[r] = "nil" <=> i = 1
       /\ i # 1 => i - 1 \in 1..len /\ before[r] = u[i - 1]
  <2>1. i \in Nat /\ i >= 1 /\ i <= len /\ 1 \in 1..len
    OBVIOUS
  <2>2. CASE i = 1
    BY <1>5, <2>1, <2>2 DEF Link
  <2>3. CASE i # 1
    <3>1. i - 1 \in 1..len
      BY <2>1, <2>3
    <3>2. before[r] = u[i - 1] /\ u[i - 1] \in Nodes
      BY <1>5, <3>1 DEF Link
    <3> QED BY <2>1, <2>3, <3>1, <3>2, PasswordAssumption DEF PasswordAssumption
  <2> QED BY <2>2, <2>3
<1>11. /\ DOMAIN cell' = DOMAIN cell \ {n}
       /\ \A m \in DOMAIN cell' :
             cell'[m] = IF before[r] # "nil" /\ m = before[r]
                        THEN [cell[m] EXCEPT !.next = cell[n].next] ELSE cell[m]
       /\ head' = IF before[r] = "nil" THEN cell[n].next ELSE head
  BY <1>3, UnlinksEffect
<1>12. \A j \in 1..len : j # i => u[j] \in DOMAIN cell' /\ u[j] \in DOMAIN cell
  BY <1>2, <1>5, <1>11 DEF Sound, Linked, Distinct
<1>13. \A m \in DOMAIN cell' :
          /\ m \in DOMAIN cell /\ cell'[m].name = cell[m].name /\ cell'[m].got = cell[m].got
          /\ cell'[m].next = IF i # 1 /\ m = u[i - 1] THEN Link(len, u, i + 1) ELSE cell[m].next
  <2> SUFFICES ASSUME NEW m \in DOMAIN cell'
               PROVE  /\ m \in DOMAIN cell /\ cell'[m].name = cell[m].name /\ cell'[m].got = cell[m].got
                      /\ cell'[m].next = IF i # 1 /\ m = u[i - 1] THEN Link(len, u, i + 1) ELSE cell[m].next
    OBVIOUS
  <2>1. m \in DOMAIN cell /\ cell[m] \in Cells
    BY <1>11 DEF TypeOK
  <2>2. CASE i # 1 /\ m = u[i - 1]
    <3>1. cell'[m] = [cell[m] EXCEPT !.next = Link(len, u, i + 1)]
      BY <1>6, <1>10, <1>11, <2>2
    <3> QED BY <2>1, <2>2, <3>1 DEF Cells
  <2>3. CASE ~(i # 1 /\ m = u[i - 1])
    <3>1. cell'[m] = cell[m]
      BY <1>10, <1>11, <2>3
    <3> QED BY <2>1, <2>3, <3>1
  <2> QED BY <2>2, <2>3
<1>14. head' = Link(len - 1, v, 1)
  <2>1. Link(len - 1, v, 1) = IF 1 < i THEN Link(len, u, 1) ELSE Link(len, u, 1 + 1)
    BY <1>9, <1>10
  <2>2. CASE i = 1
    BY <1>6, <1>10, <1>11, <2>1, <2>2
  <2>3. CASE i # 1
    <3>1. head' = head /\ 1 < i
      BY <1>10, <1>11, <2>3
    <3> QED BY <1>2, <2>1, <3>1 DEF Sound, Linked
  <2> QED BY <2>2, <2>3
<1>15. ASSUME NEW k \in 1..(len - 1)
       PROVE  v[k] \in DOMAIN cell' /\ cell'[v[k]].next = Link(len - 1, v, k + 1)
  <2>1. k \in Nat /\ k >= 1 /\ k \in 1..len /\ k + 1 \in 1..len
    BY <1>9
  <2>2. Link(len - 1, v, k + 1) = IF k + 1 < i THEN Link(len, u, k + 1) ELSE Link(len, u, (k + 1) + 1)
    BY <1>9, <2>1
  <2>3. CASE k < i
    <3>1. k \in 1..len /\ v[k] = u[k] /\ k # i
      BY <1>9, <1>10, <2>1, <2>3
    <3>2. u[k] \in DOMAIN cell' /\ cell[u[k]].next = Link(len, u, k + 1)
      BY <1>2, <1>12, <3>1 DEF Sound, Linked
    <3>3. CASE k + 1 < i
      <4>1. k # i - 1 /\ (i # 1 => i - 1 \in 1..len)
        BY <1>10, <2>1, <3>3
      <4>2. ~(i # 1 /\ u[k] = u[i - 1])
        BY <1>2, <3>1, <4>1 DEF Sound, Linked, Distinct
      <4> QED BY <1>13, <2>2, <3>1, <3>2, <3>3, <4>2
    <3>4. CASE ~(k + 1 < i)
      <4>1. k = i - 1 /\ i # 1 /\ (k + 1) + 1 = i + 1
        BY <1>10, <2>1, <2>3, <3>4
      <4>2. cell'[u[k]].next = Link(len, u, i + 1)
        BY <1>13, <3>2, <4>1
      <4> QED BY <2>2, <3>1, <3>2, <3>4, <4>1, <4>2
    <3> QED BY <3>3, <3>4
  <2>4. CASE ~(k < i)
    <3>1. v[k] = u[k + 1] /\ k + 1 # i /\ ~(k + 1 < i) /\ (i # 1 => i - 1 \in 1..len /\ k + 1 # i - 1)
      BY <1>9, <1>10, <2>1, <2>4
    <3>2. u[k + 1] \in DOMAIN cell' /\ cell[u[k + 1]].next = Link(len, u, (k + 1) + 1)
      BY <1>2, <1>12, <2>1, <3>1 DEF Sound, Linked
    <3>3. ~(i # 1 /\ u[k + 1] = u[i - 1])
      BY <1>2, <2>1, <3>1 DEF Sound, Linked, Distinct
    <3> QED BY <1>13, <2>2, <3>1, <3>2, <3>3
  <2> QED BY <2>3, <2>4
<1>16. Linked(len - 1, v)'
  BY <1>9, <1>14, <1>15 DEF Linked, Distinct, Link
<1>17. Covered(len - 1, v)'
  <2> SUFFICES ASSUME NEW m \in DOMAIN cell' PROVE In(len - 1, v, m)
    BY DEF Covered, In
  <2>1. m \in DOMAIN cell /\ m # n
    BY <1>11
  <2>2. In(len, u, m)
    BY <1>2, <1>4, <1>8, <2>1 DEF Sound, Covered, OthersOutside, Filling, Inside
  <2> QED BY <1>5, <1>9, <2>1, <2>2 DEF In
<1>18. \A q \in Requests : PlaceOf(len - 1, v, q)'
  <2>1. s \notin Inside
    BY <1>7 DEF Inside
  <2> QED BY <1>8, <2>1, NotInsidePlace DEF OthersOutside
<1>19. OneOfName'
  BY <1>13 DEF Alone, OneOfName
<1>20. ASSUME ~missed' PROVE OneOfKind' /\ \A q \in Requests : Fed(len - 1, v, q)'
  <2>1. OneOfKind /\ \A q \in Requests : Fed(len, u, q)
    BY <1>2, <1>4, <1>20 DEF Sound
  <2>2. cell[n].got
    <3>1. PICK j \in 1..len : cell[u[j]].name = NameOf(r) /\ cell[u[j]].got
      BY <1>4, <2>1 DEF Fed, Waiting
    <3>2. u[j] = n
      BY <1>2, <1>6, <3>1 DEF Alone, OneOfName, Sound, Linked
    <3> QED BY <3>1, <3>2
  <2>3. s \in {"done", "test"}
    BY <1>7, <2>2
  <2>4. OneOfKind'
    BY <1>8, <2>1, <2>3 DEF OthersOutside, OneOfKind, Busy, Waiting, NameOf
  <2>5. ASSUME NEW q \in Requests PROVE Fed(len - 1, v, q)'
    <3>1. CASE q = r
      BY <1>8, <2>3, <3>1 DEF Fed, Waiting
    <3>2. CASE q # r
      <4>1. Fed(len, u, q) /\ pc'[q] = pc[q]
        BY <1>8, <2>1, <3>2 DEF OthersOutside
      <4>2. ASSUME pc[q] \in Waiting
            PROVE  \E k \in 1..(len - 1) :
                      cell'[v[k]].name = NameOf(q) /\ (pc[q] \in {"poll", "unlink"} => cell'[v[k]].got)
        <5>1. PICK j \in 1..len :
                 cell[u[j]].name = NameOf(q) /\ (pc[q] \in {"poll", "unlink"} => cell[u[j]].got)
          BY <4>1, <4>2 DEF Fed
        <5>2. j # i
          BY <1>4, <1>5, <1>6, <2>1, <3>2, <4>2, <5>1 DEF OneOfKind, Busy, Waiting
        <5>3. PICK k \in 1..(len - 1) : v[k] = u[j]
          BY <1>9, <5>2 DEF In
        <5> QED BY <1>12, <1>13, <5>1, <5>2, <5>3
      <4> QED BY <4>1, <4>2 DEF Fed, NameOf
    <3> QED BY <3>1, <3>2
  <2> QED BY <2>4, <2>5
<1>21. Sound(len - 1, v)'
  BY <1>16, <1>17, <1>18, <1>20 DEF Sound
<1> QED BY <1>4, <1>8, <1>9, <1>19, <1>21 DEF Alone

\* Nobody alone in the table uses freed memory, or copies from NULL.
LEMMA NothingBreaks ==
  ASSUME TypeOK, Alone, NEW r \in Requests
  PROVE  ~PlaceFinds(r) /\ ~UsesFreed(r)
<1>1. PICK len \in Nat : \E u \in [1..len -> Nodes] : Sound(len, u)
  BY DEF Alone
<1>2. PICK u \in [1..len -> Nodes] : Sound(len, u)
  BY <1>1
<1>3. ASSUME PlaceFinds(r) PROVE FALSE
  <2>1. PICK n \in DOMAIN cell : Finds(r, n)
    BY <1>3 DEF PlaceFinds, FindsOne
  <2>2. cell[n].name = NameOf(r)
    BY <2>1, WantedIs DEF Finds
  <2> QED BY <1>2, <1>3, <2>2 DEF PlaceFinds, Sound, PlaceOf
<1>4. ASSUME UsesFreed(r) PROVE FALSE
  <2>1. ~Breaks(r)
    BY <1>2, SearchIs DEF Alone, Sound
  <2>2. \A i \in 1..len : u[i] \in DOMAIN cell
    BY <1>2 DEF Sound, Linked
  <2>3. pc[r] \in {"sendPut", "unlink"} => here[r] \in DOMAIN cell
    BY <1>2, <2>2 DEF Sound, PlaceOf, In
  <2>4. pc[r] = "unlink" => before[r] \in DOMAIN cell \cup {"nil"}
    BY <1>2, <2>2 DEF Sound, PlaceOf, Link
  <2> QED BY <1>4, <2>1, <2>3, <2>4 DEF UsesFreed
<1> QED BY <1>3, <1>4

Undisturbed == overlapped \/ Alone

LEMMA AloneInit == Init => Undisturbed
<1> SUFFICES ASSUME Init PROVE Alone
  BY DEF Undisturbed
<1> DEFINE u == [k \in 1..0 |-> "nil"]
<1>1. u \in [1..0 -> Nodes] /\ 0 \in Nat /\ \A i \in 1..0 : FALSE
  OBVIOUS
<1>2. DOMAIN cell = {}
  BY DEF Init
<1> HIDE DEF u
<1>3. Linked(0, u) /\ Covered(0, u)
  BY <1>1, <1>2 DEF Init, Linked, Distinct, Link, Covered
<1>4. \A x \in Requests : PlaceOf(0, u, x) /\ Fed(0, u, x)
  BY DEF Init, PlaceOf, Fed, Filling, Waiting
<1>5. OneOfKind /\ OneInside /\ OneOfName /\ ~broken
  BY <1>2 DEF Init, OneOfKind, OneInside, OneOfName, Busy, Waiting, Inside
<1> QED BY <1>1, <1>3, <1>4, <1>5 DEF Alone, Sound

LEMMA OverlapStays ==
  ASSUME TypeOK, [Next]_vars, overlapped
  PROVE  overlapped'
<1>1. ASSUME NEW r \in Requests, Thread(r) PROVE overlapped'
  <2>1. ASSUME NEW s, Comes(r, s) PROVE overlapped'
    BY <2>1 DEF Comes
  <2>2. Fails(r) => overlapped'
    BY <2>1 DEF Fails
  <2>3. CASE PlaceFinds(r) \/ UsesFreed(r)
    BY <2>3 DEF PlaceFinds, UsesFreed, Broken
  <2>4. CASE Unlinks(r)
    BY <2>1, <2>2, <2>4 DEF Unlinks
  <2>5. CASE Quiet(r)
    BY <2>1, <2>2, <2>5 DEF Quiet, Arrives, StationFails, TestFinds, TestFindsNone, DialogCancelled,
                            PasswordTyped, PasswordLost, PollGivesUp, NoMemory
  <2>6. CASE \/ PollFinds(r) \/ SendFinds(r) \/ SendPuts(r)
             \/ Inserts(r, "place", "holdFill", FALSE) \/ Inserts(r, "send", "sendFill", TRUE)
             \/ Publishes(r, "holdFill", "dialog") \/ Publishes(r, "sendFill", "poll")
    BY <2>1, <2>6 DEF PollFinds, SendFinds, SendPuts, Inserts, Publishes
  <2> QED BY <1>1, <2>3, <2>4, <2>5, <2>6, ThreadIs
<1>2. CASE Exits \/ UNCHANGED vars
  BY <1>2 DEF Exits, vars
<1> QED BY <1>1, <1>2 DEF Next

LEMMA AloneStep ==
  ASSUME TypeOK, Undisturbed, [Next]_vars
  PROVE  Undisturbed'
<1> SUFFICES ASSUME ~overlapped' PROVE Alone'
  BY DEF Undisturbed
<1>1. Alone
  BY OverlapStays DEF Undisturbed
<1>2. ASSUME NEW r \in Requests, Thread(r) PROVE Alone'
  <2>1. CASE Quiet(r)
    BY <1>1, <2>1, QuietKeeps
  <2>2. CASE PollFinds(r) \/ SendFinds(r)
    BY <1>1, <2>2, FindsKeeps
  <2>3. CASE Inserts(r, "place", "holdFill", FALSE) \/ Inserts(r, "send", "sendFill", TRUE)
    BY <1>1, <2>3, InsertsKeeps
  <2>4. CASE Publishes(r, "holdFill", "dialog") \/ Publishes(r, "sendFill", "poll")
    BY <1>1, <2>4, PublishesKeeps
  <2>5. CASE SendPuts(r)
    BY <1>1, <2>5, SendPutsKeeps
  <2>6. CASE Unlinks(r)
    BY <1>1, <2>6, UnlinksKeeps
  <2>7. ~PlaceFinds(r) /\ ~UsesFreed(r)
    BY <1>1, NothingBreaks
  <2> QED BY <1>2, <2>1, <2>2, <2>3, <2>4, <2>5, <2>6, <2>7, ThreadIs
<1>3. CASE Exits \/ UNCHANGED vars
  <2>1. UNCHANGED <<head, cell, pc, here, before, broken, missed>>
    BY <1>3 DEF Exits, vars
  <2>2. ASSUME NEW len, NEW u, Sound(len, u) PROVE Sound(len, u)'
    <3>1. Linked(len, u)' /\ Covered(len, u)'
      BY <2>1, <2>2 DEF Sound, Linked, Covered
    <3>2. \A x \in Requests : PlaceOf(len, u, x)'
      BY <2>1, <2>2 DEF Sound, PlaceOf
    <3>3. ~missed' => OneOfKind' /\ \A x \in Requests : Fed(len, u, x)'
      BY <2>1, <2>2 DEF Sound, Fed, OneOfKind
    <3> QED BY <3>1, <3>2, <3>3 DEF Sound
  <2> QED BY <1>1, <2>1, <2>2 DEF Alone, OneInside, OneOfName
<1> QED BY <1>2, <1>3 DEF Next

(* As long as no two threads have met in the table, it is a list without a    *)
(* cycle of what is allocated, in which each name occurs once, and the one    *)
(* thread inside knows its place in it (GingkoServiceThread.cpp:568-650).     *)
THEOREM AloneCorrect == Spec => []Undisturbed
<1>1. TypeOK /\ Undisturbed /\ [Next]_vars => Undisturbed'
  BY AloneStep
<1> QED BY AloneInit, <1>1, PasswordTypeCorrect, PTL DEF Spec

-----------------------------------------------------------------------------
(* Who has asked for what the entries are named for.                         *)

Shown == Filling \cup Waiting

AskedPlaces == \A x \in Requests : pc[x] \in Shown => asked[x]

\* An entry's document and process come from requests that have had a dialog, and
\* from the same one unless two threads have met.
OwnedName(name) ==
    \E x, y \in Requests :
        /\ asked[x] /\ DocOf[x] = name.doc /\ asked[y] /\ ProcessOf[y] = name.process
        /\ x = y \/ overlapped

CellsAsked == \A n \in DOMAIN cell : OwnedName(cell[n].name)

\* Whoever was refused without a dialog has met such an entry.
RefusedOwned == \A r \in Requests : result[r] = "refused" /\ ~asked[r] /\ ~missed => OwnedName(NameOf(r))

AskedInv == AskedPlaces /\ CellsAsked /\ RefusedOwned

LEMMA OwnedStays ==
  ASSUME TypeOK, [Next]_vars, \A q \in Requests : asked[q] => asked'[q], NEW name, OwnedName(name)
  PROVE  OwnedName(name)'
<1>1. overlapped => overlapped'
  BY OverlapStays
<1> QED BY <1>1 DEF OwnedName

LEMMA HistoryGrows ==
  ASSUME TypeOK, [Next]_vars
  PROVE  /\ \A q \in Requests : asked[q] => asked'[q]
         /\ missed => missed'
<1>1. ASSUME NEW r \in Requests, Thread(r)
      PROVE  (asked' = asked \/ asked' = [asked EXCEPT ![r] = TRUE]) /\ (missed' = missed \/ missed' = TRUE)
  <2>1. CASE Quiet(r)
    BY <2>1 DEF Quiet, Arrives, StationFails, TestFinds, TestFindsNone, DialogCancelled, PasswordTyped,
                PasswordLost, PollGivesUp, NoMemory, TableFrame
  <2>2. CASE PollFinds(r) \/ SendFinds(r) \/ SendPuts(r) \/ Unlinks(r) \/ PlaceFinds(r) \/ UsesFreed(r)
    BY <2>2 DEF PollFinds, SendFinds, SendPuts, Unlinks, PlaceFinds, UsesFreed, Broken, TableFrame
  <2>3. CASE \/ Inserts(r, "place", "holdFill", FALSE) \/ Inserts(r, "send", "sendFill", TRUE)
             \/ Publishes(r, "holdFill", "dialog") \/ Publishes(r, "sendFill", "poll")
    BY <2>3 DEF Inserts, Publishes
  <2> QED BY <1>1, <2>1, <2>2, <2>3, ThreadIs
<1>2. CASE Exits \/ UNCHANGED vars
  BY <1>2 DEF Exits, vars
<1>3. CASE \E r \in Requests : Thread(r)
  <2>1. PICK r \in Requests : Thread(r)
    BY <1>3
  <2>2. \A q \in Requests : asked[q] => asked'[q]
    BY <1>1, <2>1 DEF TypeOK
  <2>3. missed' = missed \/ missed' = TRUE
    BY <1>1, <2>1
  <2> QED BY <2>2, <2>3
<1> QED BY <1>2, <1>3 DEF Next

LEMMA AskedPlacesStep ==
  ASSUME TypeOK, AskedPlaces, [Next]_vars
  PROVE  AskedPlaces'
<1>1. ASSUME NEW r \in Requests, NEW s \in Stages, Comes(r, s),
             s \notin Shown \/ asked[r] \/ asked'[r]
      PROVE  AskedPlaces'
  BY <1>1, ComesEffect, HistoryGrows DEF AskedPlaces
<1>2. ASSUME NEW r \in Requests, Thread(r) PROVE AskedPlaces'
  <2>1. pc[r] \in Shown => asked[r]
    BY DEF AskedPlaces
  <2>2. CASE Fails(r)
    <3>1. Comes(r, "test") \/ Comes(r, "done")
      BY <2>2 DEF Fails
    <3> QED BY <1>1, <3>1 DEF Stages, Shown, Filling, Waiting
  <2>3. CASE PlaceFinds(r) \/ UsesFreed(r)
    BY <2>3 DEF PlaceFinds, UsesFreed, Broken, AskedPlaces
  <2>4. CASE Quiet(r) /\ ~Fails(r)
    <3>1. CASE Arrives(r) \/ TestFindsNone(r)
      BY <1>1, <3>1 DEF Arrives, TestFindsNone, Stages, Shown, Filling, Waiting
    <3>2. CASE PasswordTyped(r) \/ PasswordLost(r)
      BY <1>1, <2>1, <3>2 DEF PasswordTyped, PasswordLost, Stages, Shown, Waiting
    <3>3. CASE NoMemory(r, "place", "dialog") \/ NoMemory(r, "send", "poll")
      <4>1. asked'[r]
        BY <3>3 DEF NoMemory, TypeOK
      <4> QED BY <1>1, <3>3, <4>1 DEF NoMemory, Stages
    <3> QED BY <2>4, <3>1, <3>2, <3>3
            DEF Quiet, StationFails, TestFinds, DialogCancelled, PollGivesUp
  <2>5. CASE PollFinds(r) \/ SendFinds(r) \/ SendPuts(r)
    BY <1>1, <2>1, <2>5 DEF PollFinds, SendFinds, SendPuts, Stages, Shown, Waiting
  <2>6. CASE Unlinks(r) /\ ~Fails(r)
    BY <1>1, <2>1, <2>6 DEF Unlinks, Stages, Shown, Waiting
  <2>7. CASE Inserts(r, "place", "holdFill", FALSE) \/ Inserts(r, "send", "sendFill", TRUE)
    <3>1. asked'[r]
      BY <2>7 DEF Inserts, TypeOK
    <3> QED BY <1>1, <2>7, <3>1 DEF Inserts, Stages
  <2>8. CASE Publishes(r, "holdFill", "dialog") \/ Publishes(r, "sendFill", "poll")
    BY <1>1, <2>1, <2>8 DEF Publishes, Stages, Shown, Filling
  <2> QED BY <1>2, <2>2, <2>3, <2>4, <2>5, <2>6, <2>7, <2>8, ThreadIs
<1>3. CASE Exits \/ UNCHANGED vars
  BY <1>3 DEF Exits, vars, AskedPlaces
<1> QED BY <1>2, <1>3 DEF Next

LEMMA CellsAskedStep ==
  ASSUME TypeOK, Undisturbed, AskedPlaces, CellsAsked, [Next]_vars
  PROVE  CellsAsked'
<1>1. \A name : OwnedName(name) => OwnedName(name)'
  BY OwnedStays, HistoryGrows
<1>2. ASSUME \A n \in DOMAIN cell' :
                 \/ n \in DOMAIN cell /\ cell'[n].name = cell[n].name
                 \/ \E name : name = cell'[n].name /\ OwnedName(name)'
      PROVE  CellsAsked'
  <2>1. ASSUME NEW n \in DOMAIN cell' PROVE \E name : name = cell'[n].name /\ OwnedName(name)'
    <3>1. CASE n \in DOMAIN cell /\ cell'[n].name = cell[n].name
      <4>1. PICK name : name = cell[n].name
        OBVIOUS
      <4>2. OwnedName(name)
        BY <3>1, <4>1 DEF CellsAsked
      <4> QED BY <1>1, <3>1, <4>1, <4>2
    <3> QED BY <1>2, <3>1
  <2> QED BY <2>1 DEF CellsAsked, OwnedName
<1>3. ASSUME NEW r \in Requests, Thread(r) PROVE CellsAsked'
  <2>1. CASE cell' = cell
    BY <1>2, <2>1
  <2>2. CASE Inserts(r, "place", "holdFill", FALSE) \/ Inserts(r, "send", "sendFill", TRUE)
    <3>1. asked'[r]
      BY <2>2 DEF Inserts, TypeOK
    <3>2. PICK name : name = NameOf(r)
      OBVIOUS
    <3>3. OwnedName(name)'
      BY <3>1, <3>2 DEF OwnedName, NameOf
    <3>4. \A n \in DOMAIN cell' : (n \in DOMAIN cell /\ cell'[n] = cell[n]) \/ cell'[n].name = name
      <4>1. CASE Inserts(r, "place", "holdFill", FALSE)
        BY <3>2, <4>1 DEF Inserts, NameOf
      <4>2. CASE Inserts(r, "send", "sendFill", TRUE)
        BY <3>2, <4>2 DEF Inserts, NameOf
      <4> QED BY <2>2, <4>1, <4>2
    <3> QED BY <1>2, <3>3, <3>4
  <2>3. CASE SendPuts(r)
    <3>1. /\ pc[r] = "sendPut" /\ here[r] \in DOMAIN cell /\ DOMAIN cell' = DOMAIN cell
          /\ \A m \in DOMAIN cell : m # here[r] => cell'[m] = cell[m]
          /\ cell'[here[r]] = [name |-> [doc |-> cell[here[r]].name.doc, process |-> ProcessOf[r]],
                               got |-> TRUE, next |-> cell[here[r]].next]
      BY <2>3, SendPutsEffect
    <3>2. asked'[r]
      BY <3>1, HistoryGrows DEF AskedPlaces, Shown, Waiting
    <3>3. CASE overlapped'
      <4>1. PICK n : n = here[r]
        OBVIOUS
      <4>2. PICK d : d = cell[n].name.doc
        OBVIOUS
      <4>3. PICK x \in Requests : asked[x] /\ DocOf[x] = d
        BY <3>1, <4>1, <4>2 DEF CellsAsked, OwnedName
      <4>4. PICK name : name = [doc |-> d, process |-> ProcessOf[r]]
        OBVIOUS
      <4>5. asked'[x]
        BY <4>3, HistoryGrows
      <4>6. OwnedName(name)'
        BY <3>2, <3>3, <4>3, <4>4, <4>5 DEF OwnedName
      <4>7. cell'[n].name = name
        BY <3>1, <4>1, <4>2, <4>4
      <4> QED BY <1>2, <3>1, <4>1, <4>6, <4>7
    <3>4. CASE ~overlapped'
      <4>1. Alone
        BY <3>4, OverlapStays DEF Undisturbed
      <4>2. cell[here[r]].name = NameOf(r)
        BY <3>1, <4>1 DEF Alone, Sound, PlaceOf
      <4>3. cell'[here[r]].name = cell[here[r]].name
        BY <3>1, <4>2 DEF NameOf
      <4> QED BY <1>2, <3>1, <4>3
    <3> QED BY <3>3, <3>4
  <2>4. CASE Unlinks(r)
    <3>1. \A m \in DOMAIN cell' : m \in DOMAIN cell /\ cell'[m].name = cell[m].name
      <4> SUFFICES ASSUME NEW m \in DOMAIN cell' PROVE m \in DOMAIN cell /\ cell'[m].name = cell[m].name
        OBVIOUS
      <4>1. m \in DOMAIN cell /\ cell[m] \in Cells
        BY <2>4, UnlinksEffect DEF TypeOK
      <4>2. cell'[m] = cell[m] \/ cell'[m] = [cell[m] EXCEPT !.next = cell[here[r]].next]
        BY <2>4, UnlinksEffect
      <4> QED BY <4>1, <4>2 DEF Cells
    <3> QED BY <1>2, <3>1
  <2>5. CASE Quiet(r)
    BY <2>1, <2>5, QuietFrame
  <2>6. CASE \/ PollFinds(r) \/ SendFinds(r) \/ PlaceFinds(r) \/ UsesFreed(r)
             \/ Publishes(r, "holdFill", "dialog") \/ Publishes(r, "sendFill", "poll")
    BY <2>1, <2>6 DEF PollFinds, SendFinds, PlaceFinds, UsesFreed, Broken, Publishes, TableFrame
  <2> QED BY <1>3, <2>2, <2>3, <2>4, <2>5, <2>6, ThreadIs
<1>4. CASE Exits \/ UNCHANGED vars
  <2>1. cell' = cell
    BY <1>4 DEF Exits, vars
  <2> QED BY <1>2, <2>1
<1> QED BY <1>3, <1>4 DEF Next

LEMMA RefusedStep ==
  ASSUME TypeOK, AskedPlaces, CellsAsked, RefusedOwned, [Next]_vars
  PROVE  RefusedOwned'
<1>1. \A name : OwnedName(name) => OwnedName(name)'
  BY OwnedStays, HistoryGrows
<1>2. ASSUME NEW q \in Requests, result'[q] = "refused", ~asked'[q], ~missed'
      PROVE  \E name : name = NameOf(q) /\ OwnedName(name)
  <2>1. ~asked[q] /\ ~missed
    BY <1>2, HistoryGrows
  <2>2. CASE result[q] = "refused"
    BY <2>1, <2>2 DEF RefusedOwned
  <2>3. CASE result[q] # "refused"
    <3>1. PICK r \in Requests : Thread(r)
      BY <1>2, <2>3 DEF Next, Exits, vars
    <3>2. pc[r] \in Shown => asked[r]
      BY DEF AskedPlaces
    <3>3. CASE Fails(r) /\ ~Unlinks(r)
      <4>1. StationFails(r) \/ TestFinds(r) \/ DialogCancelled(r) \/ PollGivesUp(r)
        <5>1. ~\E s : s \notin {"test", "done"} /\ Comes(r, s)
          <6>1. pc[r] \in Stages /\ pc \in [Requests -> Stages]
            BY DEF TypeOK
          <6>2. \A s : Comes(r, s) => pc'[r] = s
            BY <6>1 DEF Comes
          <6> QED BY <3>3, <6>2 DEF Fails
        <5>2. tries' # tries
          <6>1. tries[r] \in Nat /\ tries' = [tries EXCEPT ![r] = tries[r] + 1] /\ tries'[r] = tries[r] + 1
            BY <3>3, PasswordAssumption DEF Fails, TypeOK, PasswordAssumption
          <6> QED BY <6>1
        <5> QED BY <3>1, <3>3, <5>1, <5>2, ThreadIs
                DEF Quiet, Arrives, TestFindsNone, PasswordTyped, PasswordLost, NoMemory, PollFinds,
                    SendFinds, SendPuts, Inserts, Publishes, PlaceFinds, UsesFreed, Broken, ThreadFrame
      <4>2. q = r /\ pc[r] # "done"
        <5>1. pc[r] # "done"
          BY <4>1 DEF StationFails, TestFinds, DialogCancelled, PollGivesUp
        <5>2. result' = result \/ result' = [result EXCEPT ![r] = "refused"]
          BY <3>3 DEF Fails
        <5> QED BY <1>2, <2>3, <5>1, <5>2 DEF TypeOK
      <4>3. TestFinds(r)
        BY <1>2, <2>1, <3>2, <4>1, <4>2 DEF StationFails, DialogCancelled, PollGivesUp, Shown, Waiting
      <4>4. PICK n \in DOMAIN cell : Finds(r, n)
        BY <4>3 DEF TestFinds, FindsOne
      <4>5. cell[n].name = NameOf(r)
        BY <4>4, WantedIs DEF Finds
      <4>6. PICK name : name = cell[n].name
        OBVIOUS
      <4>7. OwnedName(name)
        BY <4>4, <4>6 DEF CellsAsked
      <4> QED BY <4>2, <4>5, <4>6, <4>7
    <3>4. CASE Unlinks(r)
      <4>1. q = r
        <5>1. result' = result \/ \E k : result' = [result EXCEPT ![r] = k]
          BY <3>4, UnlinksGoes DEF Fails
        <5> QED BY <1>2, <2>3, <5>1 DEF TypeOK
      <4>2. asked[r]
        BY <3>2, <3>4 DEF Unlinks, Shown, Waiting
      <4> QED BY <2>1, <4>1, <4>2
    <3>5. CASE ~Fails(r) /\ ~Unlinks(r)
      <4>1. result' = result
        BY <3>1, <3>5, ThreadIs
           DEF Quiet, Arrives, StationFails, TestFinds, TestFindsNone, DialogCancelled, PasswordTyped,
               PasswordLost, PollGivesUp, NoMemory, PollFinds, SendFinds, SendPuts, Inserts, Publishes,
               PlaceFinds, UsesFreed, Broken, ThreadFrame
      <4> QED BY <1>2, <2>3, <4>1
    <3> QED BY <3>3, <3>4, <3>5
  <2> QED BY <2>2, <2>3
<1>3. ASSUME NEW q \in Requests, result'[q] = "refused", ~asked'[q], ~missed'
      PROVE  \E name : name = NameOf(q) /\ OwnedName(name)'
  BY <1>1, <1>2, <1>3
<1> QED BY <1>3 DEF RefusedOwned, OwnedName, NameOf

LEMMA AskedInit == Init => AskedInv
<1> SUFFICES ASSUME Init PROVE AskedInv
  OBVIOUS
<1>1. DOMAIN cell = {}
  BY DEF Init
<1> QED BY <1>1 DEF Init, AskedInv, AskedPlaces, CellsAsked, RefusedOwned, Shown, Filling, Waiting

LEMMA AskedStep ==
  ASSUME TypeOK, Undisturbed, AskedInv, [Next]_vars
  PROVE  AskedInv'
  BY AskedPlacesStep, CellsAskedStep, RefusedStep DEF AskedInv

(* Every entry is named for a request that has made one, its document and its *)
(* process for the same one unless two threads have met: the write of         *)
(* dwProcessId to an entry that is no longer its own                          *)
(* (GingkoServiceThread.cpp:579) is the one that can mix them.                *)
THEOREM AskedCorrect == Spec => []AskedInv
<1>1. TypeOK /\ Undisturbed /\ AskedInv /\ [Next]_vars => AskedInv'
  BY AskedStep
<1> QED BY AskedInit, <1>1, PasswordTypeCorrect, AloneCorrect, PTL DEF Spec

IInv == TypeOK /\ Undisturbed /\ AskedInv

(* The inductive invariant: types, the list as the one thread inside knows    *)
(* it, and the requests that the entries and the refusals come from.          *)
THEOREM PasswordInvariant == Spec => []IInv
<1>1. Init => IInv
  BY TypeInit, AloneInit, AskedInit DEF IInv
<1>2. IInv /\ [Next]_vars => IInv'
  BY TypeStep, AloneStep, AskedStep DEF IInv
<1> QED BY <1>1, <1>2, PTL DEF Spec

-----------------------------------------------------------------------------
(* The properties of the run.                                                *)

LEMMA ListedIs ==
  ASSUME TypeOK, NEW len \in Nat, NEW u \in [1..len -> Nodes], Linked(len, u)
  PROVE  \A n : n \in Listed <=> In(len, u, n) \/ n = "nil"
<1> DEFINE at == Walk({})
<1>1. \A k \in 0..Max : at[k] = Link(len, u, k + 1)
  BY WalkMisses
<1>2. DOMAIN at = 0..Max
  BY WalkIs
<1>3. len <= Max /\ Max \in Nat
  BY LengthBound, MaxIs DEF Linked
<1>4. \A n : n \in Listed <=> \E k \in 0..Max : n = Link(len, u, k + 1)
  BY <1>1, <1>2 DEF Listed
<1>5. ASSUME NEW k \in 0..Max PROVE In(len, u, Link(len, u, k + 1)) \/ Link(len, u, k + 1) = "nil"
  BY DEF In, Link
<1>6. ASSUME NEW i \in 1..len PROVE \E k \in 0..Max : u[i] = Link(len, u, k + 1)
  <2>1. i - 1 \in 0..Max /\ (i - 1) + 1 = i
    BY <1>3
  <2> QED BY <2>1 DEF Link
<1>7. Max \in 0..Max /\ Link(len, u, Max + 1) = "nil"
  BY <1>3 DEF Link
<1> QED BY <1>4, <1>5, <1>6, <1>7 DEF In

(* As long as no two threads are in the table at once it is sound, and a      *)
(* process is refused only for what was asked on its behalf                   *)
(* (GingkoServiceThread.cpp:401, :568, :608).                                 *)
THEOREM TableServesCorrect == Spec => []TableServes
<1>1. ASSUME IInv, ~overlapped PROVE AloneIsSound
  <2>1. Alone /\ TypeOK
    BY <1>1 DEF IInv, Undisturbed
  <2>2. PICK len \in Nat : \E u \in [1..len -> Nodes] : Sound(len, u)
    BY <2>1 DEF Alone
  <2>3. PICK u \in [1..len -> Nodes] : Sound(len, u)
    BY <2>2
  <2> DEFINE H == {here[r] : r \in {q \in Requests : pc[q] \in {"holdFill", "sendFill"}}}
  <2>4. \A n : n \in Listed <=> In(len, u, n) \/ n = "nil"
    BY <2>1, <2>3, ListedIs DEF Sound
  <2>5. \A n : n \in H <=> \E x \in Requests : pc[x] \in Filling /\ here[x] = n
    BY DEF Filling
  <2>6. \A n : In(len, u, n) => n \in DOMAIN cell
    BY <2>3 DEF Sound, Linked, In
  <2>7. \A n \in H : n \in DOMAIN cell
    BY <2>3, <2>5 DEF Sound, PlaceOf
  <2>8. \A n \in DOMAIN cell : In(len, u, n) \/ n \in H
    BY <2>3, <2>5 DEF Sound, Covered
  <2> HIDE DEF H
  <2>9. Listed \cup H = DOMAIN cell \cup {"nil"}
    BY <2>4, <2>6, <2>7, <2>8
  <2> QED BY <2>1, <2>9 DEF AloneIsSound, Alone, OneOfName, H
<1>2. IInv => AloneIsSound
  BY <1>1 DEF AloneIsSound
<1>3. IInv => RefusalIsOwn
  BY DEF IInv, AskedInv, RefusedOwned, OwnedName, NameOf, RefusalIsOwn
<1> QED BY <1>2, <1>3, PasswordInvariant, PTL DEF TableServes

(* A password that has been sent is found by the thread that polls for it,    *)
(* unless two threads met in the table or something failed                    *)
(* (GingkoServiceThread.cpp:475).                                             *)
THEOREM PasswordArrivesCorrect == Spec => []PasswordArrives
<1>1. ASSUME IInv, NEW r \in Requests, pc[r] = "poll", ~overlapped, ~missed
      PROVE  \E n \in DOMAIN cell : Finds(r, n) /\ cell[n].got
  <2>1. Alone /\ TypeOK
    BY <1>1 DEF IInv, Undisturbed
  <2>2. PICK len \in Nat : \E u \in [1..len -> Nodes] : Sound(len, u)
    BY <2>1 DEF Alone
  <2>3. PICK u \in [1..len -> Nodes] : Sound(len, u)
    BY <2>2
  <2>4. PICK i \in 1..len : cell[u[i]].name = NameOf(r) /\ cell[u[i]].got
    BY <1>1, <2>3 DEF Sound, Fed, Waiting
  <2>5. Finds(r, u[i]) /\ u[i] \in DOMAIN cell
    BY <2>1, <2>3, <2>4, SearchFinds DEF Alone, Sound, Linked
  <2> QED BY <2>4, <2>5
<1>2. IInv => PasswordArrives
  BY <1>1 DEF PasswordArrives
<1> QED BY <1>2, PasswordInvariant, PTL
=============================================================================
