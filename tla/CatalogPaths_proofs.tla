-------------------------- MODULE CatalogPaths_proofs --------------------------
(***************************************************************************)
(* Lemmas about the helpers of CatalogPaths and about FlattenSeq: what a    *)
(* filtered or a flattened list holds, and that Reached is closed.  They   *)
(* are defined by recursive functions; that these functions exist is       *)
(* proved from Iterate.                                                    *)
(***************************************************************************)
EXTENDS CatalogPaths, FiniteSetTheorems, NaturalsInduction, SequenceTheorems, WellFoundedInduction, TLAPS

-------------------------------------------------------------------------------
(* Recursion over the natural numbers *)

\* A set of natural numbers that has a member has a least one.
LEMMA LeastNat ==
  ASSUME NEW T \in SUBSET Nat, T # {}
  PROVE  \E m \in T : \A k \in T : m <= k
<1> DEFINE R == OpToRel(<, Nat)
<1>1. IsWellFoundedOn(R, Nat)
  BY NatLessThanWellFounded
<1>2. \A x, y \in Nat : <<y, x>> \in R <=> y < x
  BY DEF OpToRel
<1> HIDE DEF R
<1>3. PICK m \in T : \A k \in T : ~ (<<k, m>> \in R)
  BY <1>1, WFMin
<1>4. ASSUME NEW k \in T PROVE m <= k
  <2>1. k \in Nat /\ m \in Nat /\ ~ (k < m)
    BY <1>2, <1>3
  <2> QED BY <2>1
<1> QED BY <1>4

\* Induction, for a set of numbers: library theorems take an operator.
LEMMA NatInd ==
  ASSUME NEW P \in SUBSET Nat, 0 \in P, \A n \in P : n + 1 \in P
  PROVE  P = Nat
<1> SUFFICES ASSUME Nat \ P # {} PROVE FALSE
  OBVIOUS
<1>1. PICK m \in Nat \ P : \A k \in Nat \ P : m <= k
  BY LeastNat
<1>2. m # 0 /\ m - 1 \in Nat /\ ~(m <= m - 1) /\ m - 1 + 1 = m
  BY <1>1
<1>3. m - 1 \in P
  BY <1>1, <1>2
<1> QED BY <1>1, <1>2, <1>3

\* Induction up to a bound.
LEMMA UpToInd ==
  ASSUME NEW N \in Nat, NEW P, 0 \in P, \A n \in 0..N : n \in P /\ n < N => n + 1 \in P
  PROVE  \A n \in 0..N : n \in P
<1> DEFINE Q == {n \in Nat : n <= N => n \in P}
<1>1. 0 \in Q
  OBVIOUS
<1>2. ASSUME NEW n \in Q PROVE n + 1 \in Q
  <2> SUFFICES ASSUME n + 1 <= N PROVE n + 1 \in P
    OBVIOUS
  <2>1. n \in 0..N /\ n < N
    OBVIOUS
  <2>2. n \in P
    BY <2>1
  <2> QED BY <2>1, <2>2
<1>3. Q = Nat
  <2> HIDE DEF Q
  <2>1. Q \in SUBSET Nat
    BY DEF Q
  <2> QED BY <1>1, <1>2, <2>1, NatInd
<1> QED BY <1>3

\* f is what starts with x0 and goes on by step.
Runs(f, S, x0, step) ==
  f \in [Nat -> S] /\ f[0] = x0 /\ \A n \in Nat : f[n + 1] = step[n][f[n]]

\* There is always such a function.
LEMMA Iterate ==
  ASSUME NEW S, NEW x0 \in S, NEW step \in [Nat -> [S -> S]]
  PROVE  \E f : Runs(f, S, x0, step)
<1> DEFINE Begins(g, n) == /\ g \in [0..n -> S] /\ g[0] = x0
                           /\ \A i \in 0..(n - 1) : g[i + 1] = step[i][g[i]]
           Able == {n \in Nat : \E g : Begins(g, n)}
<1>1. 0 \in Able
  <2>1. Begins([i \in 0..0 |-> x0], 0)
    OBVIOUS
  <2> QED BY <2>1
<1>2. ASSUME NEW n \in Able PROVE n + 1 \in Able
  <2>1. PICK g : Begins(g, n)
    OBVIOUS
  <2> DEFINE h == [i \in 0..(n + 1) |-> IF i <= n THEN g[i] ELSE step[n][g[n]]]
  <2>2. g[n] \in S /\ step[n] \in [S -> S]
    BY <2>1
  <2>3. h \in [0..(n + 1) -> S]
    <3> SUFFICES ASSUME NEW i \in 0..(n + 1) PROVE h[i] \in S
      OBVIOUS
    <3>1. CASE i <= n
      BY <2>1, <3>1
    <3>2. CASE ~(i <= n)
      BY <2>2, <3>2
    <3> QED BY <3>1, <3>2
  <2>4. h[0] = x0
    BY <2>1
  <2>5. ASSUME NEW i \in 0..n PROVE h[i + 1] = step[i][h[i]]
    <3>1. i \in 0..(n + 1) /\ i + 1 \in 0..(n + 1) /\ h[i] = g[i]
      OBVIOUS
    <3>2. CASE i = n
      BY <3>1, <3>2
    <3>3. CASE i # n
      BY <2>1, <3>1, <3>3
    <3> QED BY <3>2, <3>3
  <2>6. n + 1 \in Nat /\ n + 1 - 1 = n
    OBVIOUS
  <2> HIDE DEF h
  <2>7. Begins(h, n + 1)
    BY <2>3, <2>4, <2>5, <2>6
  <2> QED BY <2>6, <2>7
<1>3. Able = Nat
  <2> HIDE DEF Able
  <2>1. Able \in SUBSET Nat
    BY DEF Able
  <2> QED BY <1>1, <1>2, <2>1, NatInd
<1>4. ASSUME NEW n \in Nat, NEW m \in Nat, NEW g, NEW h, Begins(g, n), Begins(h, m)
      PROVE  \A i \in Nat : i <= n /\ i <= m => g[i] = h[i]
  <2> DEFINE Same == {i \in Nat : i <= n /\ i <= m => g[i] = h[i]}
  <2>1. 0 \in Same
    BY <1>4
  <2>2. ASSUME NEW i \in Same PROVE i + 1 \in Same
    <3> SUFFICES ASSUME i + 1 <= n, i + 1 <= m PROVE g[i + 1] = h[i + 1]
      OBVIOUS
    <3>1. g[i] = h[i] /\ i \in 0..(n - 1) /\ i \in 0..(m - 1)
      OBVIOUS
    <3> QED BY <1>4, <3>1
  <2>3. Same = Nat
    <3> HIDE DEF Same
    <3>1. Same \in SUBSET Nat
      BY DEF Same
    <3> QED BY <2>1, <2>2, <3>1, NatInd
  <2> QED BY <2>3
<1> DEFINE run(n) == CHOOSE g : Begins(g, n)
           f == [n \in Nat |-> run(n)[n]]
<1>5. \A n \in Nat : Begins(run(n), n)
  BY <1>3
<1> HIDE DEF run
<1>6. f \in [Nat -> S]
  BY <1>5
<1>7. f[0] = x0
  BY <1>5
<1>8. ASSUME NEW n \in Nat PROVE f[n + 1] = step[n][f[n]]
  <2>1. Begins(run(n), n) /\ Begins(run(n + 1), n + 1)
    BY <1>5
  <2>2. run(n)[n] = run(n + 1)[n]
    <3> HIDE DEF Begins
    <3> QED BY <1>4, <2>1
  <2>3. run(n + 1)[n + 1] = step[n][run(n + 1)[n]]
    BY <2>1
  <2> QED BY <2>2, <2>3
<1> QED
  <2> HIDE DEF f
  <2>1. Runs(f, S, x0, step)
    BY <1>6, <1>7, <1>8 DEF Runs
  <2> QED BY <2>1

-------------------------------------------------------------------------------
(* Reached *)

\* The rounds of Reached: the function it looks for exists.
LEMMA Rounds ==
  ASSUME NEW start, NEW next, IsFiniteSet(DOMAIN next)
  PROVE  \E after :
           /\ after[0] = start
           /\ \A n \in Nat : after[n + 1] = Grown(after[n], next)
           /\ Reached(start, next) = after[Cardinality(DOMAIN next) + 1]
<1> DEFINE U == start \cup UNION {next[x] : x \in DOMAIN next}
           step == [n \in Nat |-> [s \in SUBSET U |-> Grown(s, next)]]
           Rec(a) == [n \in Nat |-> IF n = 0 THEN start ELSE Grown(a[n - 1], next)]
           after == CHOOSE a : a = Rec(a)
<1>1. step \in [Nat -> [SUBSET U -> SUBSET U]]
  BY DEF Grown
<1>2. PICK f \in [Nat -> SUBSET U] : f[0] = start /\ \A n \in Nat : f[n + 1] = step[n][f[n]]
  <2> DEFINE W == SUBSET U
  <2>1. start \in W /\ step \in [Nat -> [W -> W]]
    BY <1>1
  <2> HIDE DEF step, W
  <2>2. PICK f : Runs(f, W, start, step)
    BY <2>1, Iterate
  <2> QED BY <2>2 DEF W, Runs
<1>3. \A n \in Nat : f[n + 1] = Grown(f[n], next)
  <2> HIDE DEF U
  <2> QED BY <1>2
<1>4. f = Rec(f)
  <2>1. ASSUME NEW n \in Nat PROVE f[n] = Rec(f)[n]
    <3>1. CASE n = 0
      BY <1>2, <3>1
    <3>2. CASE n # 0
      <4>1. n - 1 \in Nat /\ n - 1 + 1 = n
        BY <3>2
      <4>2. f[n - 1 + 1] = Grown(f[n - 1], next)
        BY <1>3, <4>1
      <4> QED BY <3>2, <4>1, <4>2
    <3> QED BY <3>1, <3>2
  <2> QED BY <1>2, <2>1
<1> HIDE DEF U, step
<1>5. after = Rec(after)
  <2> HIDE DEF Rec
  <2> QED BY <1>4
<1>6. after[0] = start
  BY <1>5
<1>7. ASSUME NEW n \in Nat PROVE after[n + 1] = Grown(after[n], next)
  <2> HIDE DEF after
  <2>1. n + 1 \in Nat /\ n + 1 # 0 /\ n + 1 - 1 = n
    OBVIOUS
  <2>2. Rec(after)[n + 1] = Grown(after[n + 1 - 1], next)
    BY <2>1
  <2> QED BY <1>5, <2>1, <2>2
<1>8. Reached(start, next) = after[Cardinality(DOMAIN next) + 1]
  BY DEF Reached
<1> QED
  <2> HIDE DEF after
  <2> QED BY <1>6, <1>7, <1>8

\* Each round with nothing new is the last; as many as there are files suffice.
LEMMA ReachedClosed ==
  ASSUME NEW start, NEW next, IsFiniteSet(DOMAIN next)
  PROVE  /\ start \subseteq Reached(start, next)
         /\ \A x \in Reached(start, next) \cap DOMAIN next : next[x] \subseteq Reached(start, next)
<1> DEFINE D == DOMAIN next
<1>1. PICK f : /\ f[0] = start
               /\ \A n \in Nat : f[n + 1] = Grown(f[n], next)
               /\ Reached(start, next) = f[Cardinality(D) + 1]
  BY Rounds
<1> DEFINE A(n) == f[n] \cap D
           Still(n) == A(n + 1) = A(n)
<1>2. \A n \in Nat : f[n] \subseteq f[n + 1]
  BY <1>1 DEF Grown
<1>3. Cardinality(D) \in Nat
  BY FS_CardinalityType
<1>4. \A n \in Nat : IsFiniteSet(A(n)) /\ Cardinality(A(n)) \in Nat /\ Cardinality(A(n)) <= Cardinality(D)
  <2> SUFFICES ASSUME NEW n \in Nat
               PROVE  IsFiniteSet(A(n)) /\ Cardinality(A(n)) \in Nat /\ Cardinality(A(n)) <= Cardinality(D)
    OBVIOUS
  <2>1. A(n) \subseteq D
    OBVIOUS
  <2> HIDE DEF A
  <2> QED BY <2>1, FS_Subset, FS_CardinalityType
<1>5. \A n \in Nat : (\E m \in 0..n : Still(m)) \/ Cardinality(A(n + 1)) >= n + 1
  <2> DEFINE P == {n \in Nat : (\E m \in 0..n : Still(m)) \/ Cardinality(A(n + 1)) >= n + 1}
  <2>1. ASSUME NEW n \in Nat, ~Still(n) PROVE Cardinality(A(n + 1)) >= Cardinality(A(n)) + 1
    <3>1. A(n) \subseteq A(n + 1) /\ A(n) # A(n + 1) /\ n + 1 \in Nat
      BY <1>2, <2>1
    <3>2. Cardinality(A(n)) < Cardinality(A(n + 1))
      <4> HIDE DEF A
      <4> QED BY <1>4, <3>1, FS_Subset
    <3> QED BY <1>4, <3>1, <3>2
  <2>2. 0 \in P
    <3>1. 0 \in Nat /\ 0 + 1 \in Nat /\ 0 \in 0..0
      OBVIOUS
    <3>2. CASE ~Still(0)
      <4>1. Cardinality(A(0 + 1)) >= Cardinality(A(0)) + 1 /\ Cardinality(A(0)) \in Nat /\ Cardinality(A(0 + 1)) \in Nat
        BY <1>4, <2>1, <3>1, <3>2
      <4> HIDE DEF A
      <4> QED BY <3>1, <4>1
    <3>3. CASE Still(0)
      <4> HIDE DEF Still
      <4> QED BY <3>1, <3>3
    <3> QED BY <3>2, <3>3
  <2>3. ASSUME NEW n \in P PROVE n + 1 \in P
    <3> HIDE DEF A
    <3>1. CASE \E m \in 0..n : Still(m)
      BY <3>1
    <3>2. CASE Cardinality(A(n + 1)) >= n + 1 /\ ~Still(n + 1)
      <4>1. n + 1 \in Nat /\ n + 1 + 1 \in Nat
        OBVIOUS
      <4>2. Cardinality(A(n + 1 + 1)) >= Cardinality(A(n + 1)) + 1
        BY <2>1, <3>2, <4>1
      <4>3. Cardinality(A(n + 1 + 1)) \in Nat /\ Cardinality(A(n + 1)) \in Nat
        BY <1>4, <4>1
      <4> QED BY <3>2, <4>1, <4>2, <4>3
    <3>3. CASE Still(n + 1)
      BY <3>3
    <3> QED BY <3>1, <3>2, <3>3
  <2>4. P = Nat
    <3> HIDE DEF P
    <3>1. P \in SUBSET Nat
      BY DEF P
    <3> QED BY <2>2, <2>3, <3>1, NatInd
  <2> QED BY <2>4
<1>6. PICK m \in 0..Cardinality(D) : Still(m)
  <2>1. ~(Cardinality(A(Cardinality(D) + 1)) >= Cardinality(D) + 1)
    <3>1. Cardinality(D) + 1 \in Nat
      BY <1>3
    <3> HIDE DEF A
    <3> QED BY <1>3, <1>4, <3>1
  <2> QED
    <3> HIDE DEF Still, A
    <3> QED BY <1>3, <1>5, <2>1
<1>7. m \in Nat /\ m + 1 \in Nat
  BY <1>3
<1>8. Grown(f[m + 1], next) = f[m + 1]
  BY <1>1, <1>6, <1>7 DEF Grown
<1>9. \A k \in Nat : f[m + 1 + k] = f[m + 1]
  <2> DEFINE P == {k \in Nat : f[m + 1 + k] = f[m + 1]}
  <2>1. 0 \in P
    BY <1>7
  <2>2. ASSUME NEW k \in P PROVE k + 1 \in P
    <3>1. m + 1 + k \in Nat /\ m + 1 + (k + 1) = (m + 1 + k) + 1
      BY <1>7
    <3>2. f[(m + 1 + k) + 1] = Grown(f[m + 1 + k], next)
      BY <1>1, <3>1
    <3> QED BY <1>8, <3>1, <3>2
  <2>3. P = Nat
    <3> HIDE DEF P
    <3>1. P \in SUBSET Nat
      BY DEF P
    <3> QED BY <2>1, <2>2, <3>1, NatInd
  <2> QED BY <2>3
<1>10. Reached(start, next) = f[m + 1]
  <2>1. Cardinality(D) - m \in Nat /\ m + 1 + (Cardinality(D) - m) = Cardinality(D) + 1
    BY <1>3, <1>7
  <2> QED BY <1>1, <1>9, <2>1
<1>11. \A k \in Nat : start \subseteq f[k]
  <2> DEFINE P == {k \in Nat : start \subseteq f[k]}
  <2>1. 0 \in P /\ \A k \in P : k + 1 \in P
    BY <1>1, <1>2
  <2>2. P = Nat
    <3> HIDE DEF P
    <3>1. P \in SUBSET Nat
      BY DEF P
    <3> QED BY <2>1, <3>1, NatInd
  <2> QED BY <2>2
<1>12. ASSUME NEW x \in f[m + 1] \cap D PROVE next[x] \subseteq f[m + 1]
  BY <1>8 DEF Grown
<1> QED BY <1>7, <1>10, <1>11, <1>12

\* Nothing else is found than what every closed set around start holds.
LEMMA ReachedWithin ==
  ASSUME NEW start, NEW next, NEW S, IsFiniteSet(DOMAIN next), start \subseteq S,
         \A x \in S \cap DOMAIN next : next[x] \subseteq S
  PROVE  Reached(start, next) \subseteq S
<1>1. PICK f : /\ f[0] = start
               /\ \A n \in Nat : f[n + 1] = Grown(f[n], next)
               /\ Reached(start, next) = f[Cardinality(DOMAIN next) + 1]
  BY Rounds
<1> DEFINE P == {n \in Nat : f[n] \subseteq S}
<1>2. 0 \in P
  BY <1>1
<1>3. ASSUME NEW n \in P PROVE n + 1 \in P
  BY <1>1 DEF Grown
<1>4. P = Nat
  <2> HIDE DEF P
  <2>1. P \in SUBSET Nat
    BY DEF P
  <2> QED BY <1>2, <1>3, <2>1, NatInd
<1>5. Cardinality(DOMAIN next) + 1 \in Nat
  BY FS_CardinalityType
<1> QED BY <1>1, <1>4, <1>5

-------------------------------------------------------------------------------
(* Lists *)

\* A function on 1..n is a list.
LEMMA ListOf ==
  ASSUME NEW T, NEW n \in Nat, NEW f \in [1..n -> T]
  PROVE  f \in Seq(T) /\ Len(f) = n
OBVIOUS

\* A list with one more at its end holds one more.
LEMMA ToSetAppend ==
  ASSUME NEW T, NEW q \in Seq(T), NEW e \in T
  PROVE  ToSet(Append(q, e)) = ToSet(q) \cup {e}
<1>1. /\ Len(q) \in Nat /\ DOMAIN q = 1..Len(q) /\ DOMAIN Append(q, e) = 1..(Len(q) + 1)
      /\ \A i \in 1..Len(q) : Append(q, e)[i] = q[i]
      /\ Append(q, e)[Len(q) + 1] = e
  OBVIOUS
<1>2. ASSUME NEW i \in 1..(Len(q) + 1) PROVE i \in 1..Len(q) \/ i = Len(q) + 1
  BY <1>1
<1>3. \A i \in 1..Len(q) : i \in 1..(Len(q) + 1)
  BY <1>1
<1>4. Len(q) + 1 \in 1..(Len(q) + 1)
  BY <1>1
<1>5. ToSet(Append(q, e)) \subseteq ToSet(q) \cup {e}
  BY <1>1, <1>2, Zenon DEF ToSet
<1>6. ToSet(q) \subseteq ToSet(Append(q, e)) /\ e \in ToSet(Append(q, e))
  BY <1>1, <1>3, <1>4, Zenon DEF ToSet
<1> QED BY <1>5, <1>6

\* Two lists one after the other, place by place.
LEMMA ConcatAt ==
  ASSUME NEW T, NEW q \in Seq(T), NEW r \in Seq(T)
  PROVE  /\ Len(q \o r) = Len(q) + Len(r)
         /\ \A i \in 1..Len(q) : (q \o r)[i] = q[i]
         /\ \A i \in 1..Len(r) : (q \o r)[Len(q) + i] = r[i]
OBVIOUS

\* Two lists one after the other hold what either holds.
LEMMA ToSetConcat ==
  ASSUME NEW T, NEW q \in Seq(T), NEW r \in Seq(T)
  PROVE  ToSet(q \o r) = ToSet(q) \cup ToSet(r)
<1>1. /\ Len(q) \in Nat /\ Len(r) \in Nat /\ DOMAIN q = 1..Len(q) /\ DOMAIN r = 1..Len(r)
      /\ DOMAIN (q \o r) = 1..(Len(q) + Len(r))
      /\ \A i \in 1..Len(q) : (q \o r)[i] = q[i]
      /\ \A i \in 1..Len(r) : (q \o r)[Len(q) + i] = r[i]
  OBVIOUS
<1>2. ASSUME NEW i \in 1..(Len(q) + Len(r))
      PROVE  i \in 1..Len(q) \/ (i - Len(q) \in 1..Len(r) /\ i = Len(q) + (i - Len(q)))
  BY <1>1
<1>3. \A i \in 1..Len(q) : i \in 1..(Len(q) + Len(r))
  BY <1>1
<1>4. \A i \in 1..Len(r) : Len(q) + i \in 1..(Len(q) + Len(r))
  BY <1>1
<1>5. ToSet(q \o r) \subseteq ToSet(q) \cup ToSet(r)
  <2> SUFFICES ASSUME NEW i \in DOMAIN (q \o r) PROVE (q \o r)[i] \in ToSet(q) \cup ToSet(r)
    BY DEF ToSet
  <2>1. CASE i \in 1..Len(q)
    BY <1>1, <2>1 DEF ToSet
  <2>2. CASE i - Len(q) \in 1..Len(r) /\ i = Len(q) + (i - Len(q))
    BY <1>1, <2>2 DEF ToSet
  <2> QED BY <1>1, <1>2, <2>1, <2>2
<1>6. ToSet(q) \subseteq ToSet(q \o r)
  BY <1>1, <1>3, Zenon DEF ToSet
<1>7. ToSet(r) \subseteq ToSet(q \o r)
  BY <1>1, <1>4, Zenon DEF ToSet
<1> QED BY <1>5, <1>6, <1>7
\* Among looks at one element after the other.
LEMMA AmongRounds ==
  ASSUME NEW s, IsList(s), NEW S
  PROVE  \E f \in [Nat -> Seq(ToSet(s) \cap S)] :
           /\ f[0] = <<>>
           /\ \A n \in 1..Len(s) : f[n] = IF s[n] \in S THEN Append(f[n - 1], s[n]) ELSE f[n - 1]
           /\ Among(s, S) = f[Len(s)]
<1> DEFINE T == ToSet(s)
           W == Seq(T \cap S)
           step == [n \in Nat |-> [q \in W |->
                     IF n + 1 \in DOMAIN s /\ s[n + 1] \in S THEN Append(q, s[n + 1]) ELSE q]]
           Rec(k) == [n \in 0..Len(s) |->
                       IF n = 0 THEN <<>> ELSE IF s[n] \in S THEN Append(k[n - 1], s[n]) ELSE k[n - 1]]
           kept == CHOOSE k : k = Rec(k)
<1>s. s \in Seq(T) /\ Len(s) \in Nat /\ DOMAIN s = 1..Len(s) /\ \A i \in DOMAIN s : s[i] \in T
  BY DEF IsList, ToSet
<1>t. T = {s[i] : i \in DOMAIN s}
  BY DEF ToSet
<1> HIDE DEF T
<1>1. PICK f \in [Nat -> W] : f[0] = <<>> /\ \A n \in Nat : f[n + 1] = step[n][f[n]]
  <2>1. <<>> \in W /\ step \in [Nat -> [W -> W]]
    BY <1>s
  <2> HIDE DEF step, W
  <2>2. PICK f : Runs(f, W, <<>>, step)
    BY <2>1, Iterate
  <2> QED BY <2>2 DEF Runs
<1>2. ASSUME NEW n \in Nat PROVE f[n] \in W /\ Len(f[n]) \in Nat /\ DOMAIN f[n] = 1..Len(f[n])
  BY <1>1
<1>3. ASSUME NEW n \in 1..Len(s)
      PROVE  /\ n \in Nat /\ n - 1 \in Nat
             /\ f[n] = IF s[n] \in S THEN Append(f[n - 1], s[n]) ELSE f[n - 1]
  <2>1. n \in Nat /\ n - 1 \in Nat /\ n - 1 + 1 = n /\ n \in DOMAIN s
    BY <1>s
  <2>2. f[n - 1 + 1] = step[n - 1][f[n - 1]] /\ f[n - 1] \in W
    BY <1>1, <2>1
  <2> HIDE DEF W
  <2> QED BY <2>1, <2>2
<1>4. \E k : k = Rec(k)
  <2> DEFINE g == [n \in 0..Len(s) |-> f[n]]
  <2>1. ASSUME NEW n \in 0..Len(s) PROVE g[n] = Rec(g)[n]
    <3>1. CASE n = 0
      BY <1>1, <3>1
    <3>2. CASE n # 0
      <4>1. n \in 1..Len(s) /\ n - 1 \in 0..Len(s)
        BY <1>s, <3>2
      <4>2. g[n] = f[n] /\ g[n - 1] = f[n - 1]
        BY <4>1
      <4> HIDE DEF g
      <4> QED BY <1>3, <3>2, <4>1, <4>2
    <3> QED BY <3>1, <3>2
  <2>2. g = Rec(g)
    BY <2>1
  <2> QED BY <2>2
<1>5. kept = Rec(kept)
  <2> HIDE DEF Rec
  <2> QED BY <1>4
<1>6. \A n \in 0..Len(s) : kept[n] = f[n]
  <2> HIDE DEF kept
  <2> DEFINE P == {n \in Nat : n <= Len(s) => kept[n] = f[n]}
  <2>1. 0 \in P
    <3>1. Rec(kept)[0] = <<>>
      BY <1>s
    <3>2. kept[0] = <<>>
      <4> HIDE DEF Rec
      <4> QED BY <1>5, <3>1
    <3> QED BY <1>1, <3>2
  <2>2. ASSUME NEW n \in P PROVE n + 1 \in P
    <3> SUFFICES ASSUME n + 1 <= Len(s) PROVE kept[n + 1] = f[n + 1]
      OBVIOUS
    <3>1. n + 1 \in 1..Len(s) /\ n + 1 \in 0..Len(s) /\ n + 1 # 0 /\ n + 1 - 1 = n /\ n <= Len(s)
      <4> DEFINE l == Len(s)
      <4>1. n \in Nat /\ l \in Nat /\ n + 1 <= l
        BY <1>s
      <4> HIDE DEF l, P
      <4>2. n + 1 \in 1..l /\ n + 1 \in 0..l /\ n + 1 # 0 /\ n + 1 - 1 = n /\ n <= l
        BY <4>1
      <4> QED BY <4>2 DEF l
    <3>2. kept[n + 1] = IF s[n + 1] \in S THEN Append(kept[n], s[n + 1]) ELSE kept[n]
      <4> DEFINE m == n + 1
      <4>1. m \in 0..Len(s) /\ m # 0 /\ m - 1 = n
        BY <3>1
      <4> HIDE DEF m
      <4>2. Rec(kept)[m] = IF s[m] \in S THEN Append(kept[m - 1], s[m]) ELSE kept[m - 1]
        BY <4>1
      <4>3. kept[m] = Rec(kept)[m]
        <5> HIDE DEF Rec
        <5> QED BY <1>5
      <4> QED BY <4>1, <4>2, <4>3 DEF m
    <3>4. kept[n] = f[n]
      BY <3>1
    <3>5. f[n + 1] = IF s[n + 1] \in S THEN Append(f[n], s[n + 1]) ELSE f[n]
      BY <1>3, <3>1
    <3> QED BY <3>2, <3>4, <3>5
  <2>3. P = Nat
    <3> HIDE DEF P
    <3>1. P \in SUBSET Nat
      BY DEF P
    <3> QED BY <2>1, <2>2, <3>1, NatInd
  <2>4. \A n \in 0..Len(s) : n \in Nat /\ n <= Len(s)
    BY <1>s
  <2> QED BY <2>3, <2>4, Zenon
<1>7. Among(s, S) = f[Len(s)]
  <2>1. Among(s, S) = kept[Len(s)]
    BY DEF Among
  <2>2. Len(s) \in 0..Len(s)
    BY <1>s
  <2> HIDE DEF kept
  <2> QED BY <1>6, <2>1, <2>2
<1>8. f \in [Nat -> Seq(ToSet(s) \cap S)]
  BY DEF T
<1>9. f[0] = <<>> /\ \A n \in 1..Len(s) : f[n] = IF s[n] \in S THEN Append(f[n - 1], s[n]) ELSE f[n - 1]
  BY <1>1, <1>3
<1> QED BY <1>7, <1>8, <1>9, Zenon

\* What is in S of a list, and nothing else, is a list of as many at most.
LEMMA AmongIs ==
  ASSUME NEW s, IsList(s), NEW S
  PROVE  /\ Among(s, S) \in Seq(ToSet(s) \cap S)
         /\ ToSet(Among(s, S)) = ToSet(s) \cap S
         /\ Len(Among(s, S)) <= Len(s)
<1> DEFINE T == ToSet(s)
           W == Seq(T \cap S)
<1>s. s \in Seq(T) /\ Len(s) \in Nat /\ DOMAIN s = 1..Len(s) /\ \A i \in DOMAIN s : s[i] \in T
  BY DEF IsList, ToSet
<1>t. T = {s[i] : i \in DOMAIN s}
  BY DEF ToSet
<1>1. PICK f \in [Nat -> W] :
           /\ f[0] = <<>>
           /\ \A n \in 1..Len(s) : f[n] = IF s[n] \in S THEN Append(f[n - 1], s[n]) ELSE f[n - 1]
           /\ Among(s, S) = f[Len(s)]
  BY AmongRounds
<1> HIDE DEF T
<1>2. ASSUME NEW n \in Nat PROVE f[n] \in W /\ Len(f[n]) \in Nat /\ DOMAIN f[n] = 1..Len(f[n])
  BY <1>1
<1>3. ASSUME NEW n \in 1..Len(s)
      PROVE  /\ n \in Nat /\ n - 1 \in Nat
             /\ f[n] = IF s[n] \in S THEN Append(f[n - 1], s[n]) ELSE f[n - 1]
  <2>1. n \in Nat /\ n - 1 \in Nat
    BY <1>s
  <2> QED BY <1>1, <2>1
<1>7. Among(s, S) = f[Len(s)]
  BY <1>1
<1> DEFINE Upto(n) == {s[i] : i \in 1..n}
<1>8. /\ Upto(0) = {} /\ Upto(Len(s)) = T
      /\ \A n \in 0..(Len(s) - 1) : Upto(n + 1) = Upto(n) \cup {s[n + 1]}
  <2>1. Upto(0) = {} /\ Upto(Len(s)) = T
    BY <1>s, <1>t
  <2>2. ASSUME NEW n \in 0..(Len(s) - 1) PROVE Upto(n + 1) = Upto(n) \cup {s[n + 1]}
    <3>1. n \in Nat
      BY <1>s
    <3>2. /\ \A i \in 1..(n + 1) : i \in 1..n \/ i = n + 1
          /\ \A i \in 1..n : i \in 1..(n + 1)
          /\ n + 1 \in 1..(n + 1)
      BY <3>1
    <3> QED BY <3>2
  <2> QED BY <2>1, <2>2
<1> HIDE DEF Upto, W
<1>9. \A n \in Nat : n <= Len(s) => ToSet(f[n]) = Upto(n) \cap S /\ Len(f[n]) <= n
  <2> DEFINE P == {n \in Nat : n <= Len(s) => ToSet(f[n]) = Upto(n) \cap S /\ Len(f[n]) <= n}
  <2>1. 0 \in P
    <3>1. ToSet(<<>>) = {} /\ Len(<<>>) = 0
      BY DEF ToSet
    <3> QED BY <1>1, <1>8, <3>1
  <2>2. ASSUME NEW n \in P PROVE n + 1 \in P
    <3> SUFFICES ASSUME n + 1 <= Len(s)
                 PROVE  ToSet(f[n + 1]) = Upto(n + 1) \cap S /\ Len(f[n + 1]) <= n + 1
      OBVIOUS
    <3>1. n + 1 \in 1..Len(s) /\ n + 1 - 1 = n /\ n <= Len(s) /\ n \in 0..(Len(s) - 1)
      BY <1>s
    <3>2. f[n + 1] = IF s[n + 1] \in S THEN Append(f[n], s[n + 1]) ELSE f[n]
      BY <1>3, <3>1
    <3>3. ToSet(f[n]) = Upto(n) \cap S /\ Len(f[n]) <= n /\ Len(f[n]) \in Nat
      BY <1>2, <3>1
    <3>4. Upto(n + 1) = Upto(n) \cup {s[n + 1]}
      BY <1>8, <3>1
    <3>5. CASE s[n + 1] \in S
      <4>1. f[n] \in Seq(T \cap S) /\ s[n + 1] \in T \cap S
        BY <1>2, <1>s, <3>1, <3>5 DEF W
      <4>2. ToSet(Append(f[n], s[n + 1])) = ToSet(f[n]) \cup {s[n + 1]}
        BY <4>1, ToSetAppend
      <4>3. Len(Append(f[n], s[n + 1])) = Len(f[n]) + 1
        BY <4>1
      <4>4. ToSet(f[n + 1]) = Upto(n + 1) \cap S
        BY <3>2, <3>3, <3>4, <3>5, <4>2, Zenon
      <4>5. f[n + 1] = Append(f[n], s[n + 1])
        BY <3>2, <3>5
      <4> QED BY <3>3, <4>3, <4>4, <4>5
    <3>6. CASE s[n + 1] \notin S
      <4>1. f[n + 1] = f[n]
        BY <3>2, <3>6
      <4>2. Upto(n + 1) \cap S = Upto(n) \cap S
        BY <3>4, <3>6
      <4> QED BY <3>3, <4>1, <4>2
    <3> QED BY <3>5, <3>6
  <2>3. P = Nat
    <3> HIDE DEF P
    <3>1. P \in SUBSET Nat
      BY DEF P
    <3> QED BY <2>1, <2>2, <3>1, NatInd
  <2> QED BY <2>3
<1>10. ToSet(f[Len(s)]) = T \cap S /\ Len(f[Len(s)]) <= Len(s)
  BY <1>8, <1>9, <1>s
<1>11. f[Len(s)] \in Seq(T \cap S)
  BY <1>2, <1>s DEF W
<1> QED BY <1>7, <1>10, <1>11 DEF T

\* FlattenSeq joins one part after the other.
LEMMA FlattenRounds ==
  ASSUME NEW T, NEW ss \in Seq(Seq(T))
  PROVE  \E f \in [Nat -> Seq(T)] :
           /\ f[0] = <<>>
           /\ \A n \in Nat : n < Len(ss) => f[n + 1] = f[n] \o ss[n + 1]
           /\ FlattenSeq(ss) = f[Len(ss)]
<1> DEFINE W == Seq(T)
           step == [n \in Nat |-> [q \in W |-> IF n < Len(ss) THEN q \o ss[n + 1] ELSE q]]
           Rec(k) == [i \in 1..Len(ss) |-> IF i = 1 THEN ss[i] ELSE k[i - 1] \o ss[i]]
           flat == CHOOSE k : k = Rec(k)
<1>s. Len(ss) \in Nat /\ DOMAIN ss = 1..Len(ss) /\ \A i \in 1..Len(ss) : ss[i] \in W
  OBVIOUS
<1>1. PICK f \in [Nat -> W] : f[0] = <<>> /\ \A n \in Nat : f[n + 1] = step[n][f[n]]
  <2>1. <<>> \in W /\ step \in [Nat -> [W -> W]]
    <3>1. ASSUME NEW n \in Nat, NEW q \in W PROVE (IF n < Len(ss) THEN q \o ss[n + 1] ELSE q) \in W
      <4>1. CASE n < Len(ss)
        <5>1. n + 1 \in 1..Len(ss)
          BY <1>s, <4>1
        <5>2. ss[n + 1] \in W
          BY <1>s, <5>1
        <5> QED BY <4>1, <5>2
      <4>2. CASE ~(n < Len(ss))
        BY <4>2
      <4> QED BY <4>1, <4>2
    <3> QED BY <3>1
  <2> HIDE DEF step, W
  <2>2. PICK f : Runs(f, W, <<>>, step)
    BY <2>1, Iterate
  <2> QED BY <2>2 DEF Runs
<1>2. \A n \in Nat : n < Len(ss) => f[n + 1] = f[n] \o ss[n + 1]
  <2> SUFFICES ASSUME NEW n \in Nat, n < Len(ss) PROVE f[n + 1] = f[n] \o ss[n + 1]
    OBVIOUS
  <2>1. f[n] \in W
    BY <1>1
  <2> HIDE DEF W
  <2> QED BY <1>1, <2>1
<1> HIDE DEF step
<1>3. ASSUME NEW i \in 1..Len(ss)
      PROVE  f[i] = IF i = 1 THEN ss[i] ELSE f[i - 1] \o ss[i]
  <2>1. i - 1 \in Nat /\ i - 1 < Len(ss) /\ i - 1 + 1 = i
    BY <1>s
  <2>2. f[i - 1 + 1] = f[i - 1] \o ss[i - 1 + 1]
    BY <1>2, <2>1
  <2>3. CASE i = 1
    <3>0. ss[1] \in W
      BY <1>s, <2>3
    <3>1. <<>> \o ss[1] = ss[1]
      BY <3>0
    <3>2. i - 1 = 0 /\ f[0] = <<>>
      BY <1>1, <2>3
    <3>3. f[1] = f[0] \o ss[1]
      BY <2>1, <2>2, <2>3, <3>2
    <3> QED BY <2>3, <3>1, <3>2, <3>3
  <2>4. CASE i # 1
    BY <2>1, <2>2, <2>4
  <2> QED BY <2>3, <2>4
<1> HIDE DEF W
<1>4. \E k : k = Rec(k)
  <2> DEFINE g == [i \in 1..Len(ss) |-> f[i]]
  <2>1. ASSUME NEW i \in 1..Len(ss) PROVE g[i] = Rec(g)[i]
    <3>1. CASE i = 1
      BY <1>3, <3>1
    <3>2. CASE i # 1
      <4>1. i - 1 \in 1..Len(ss)
        BY <1>s, <3>2
      <4>2. g[i] = f[i] /\ g[i - 1] = f[i - 1]
        BY <4>1
      <4> HIDE DEF g
      <4> QED BY <1>3, <3>2, <4>1, <4>2
    <3> QED BY <3>1, <3>2
  <2>2. g = Rec(g)
    BY <2>1
  <2> QED BY <2>2
<1>5. flat = Rec(flat)
  <2> HIDE DEF Rec
  <2> QED BY <1>4
<1> HIDE DEF flat
<1>6. \A i \in 1..Len(ss) : flat[i] = f[i]
  <2> DEFINE P == {n \in Nat : n + 1 <= Len(ss) => flat[n + 1] = f[n + 1]}
  <2>1. ASSUME NEW i \in 1..Len(ss) PROVE flat[i] = IF i = 1 THEN ss[i] ELSE flat[i - 1] \o ss[i]
    <3>1. Rec(flat)[i] = IF i = 1 THEN ss[i] ELSE flat[i - 1] \o ss[i]
      OBVIOUS
    <3> HIDE DEF Rec
    <3> QED BY <1>5, <3>1
  <2>2. 0 \in P
    <3> SUFFICES ASSUME 1 <= Len(ss) PROVE flat[1] = f[1]
      OBVIOUS
    <3>1. 1 \in 1..Len(ss)
      BY <1>s
    <3> QED BY <1>3, <2>1, <3>1
  <2>3. ASSUME NEW n \in P PROVE n + 1 \in P
    <3> DEFINE i == n + 1 + 1
    <3> SUFFICES ASSUME i <= Len(ss) PROVE flat[i] = f[i]
      OBVIOUS
    <3>1. i \in 1..Len(ss) /\ i # 1 /\ i - 1 = n + 1 /\ n + 1 <= Len(ss)
      BY <1>s
    <3>2. flat[n + 1] = f[n + 1]
      BY <3>1
    <3> HIDE DEF i
    <3> QED BY <1>3, <2>1, <3>1, <3>2
  <2>4. P = Nat
    <3> HIDE DEF P
    <3>1. P \in SUBSET Nat
      BY DEF P
    <3> QED BY <2>2, <2>3, <3>1, NatInd
  <2>5. \A i \in 1..Len(ss) : i - 1 \in Nat /\ i - 1 + 1 = i /\ i <= Len(ss)
    BY <1>s
  <2>6. ASSUME NEW i \in 1..Len(ss) PROVE flat[i] = f[i]
    <3>1. i - 1 \in P
      BY <2>4, <2>5
    <3>2. i - 1 + 1 <= Len(ss) => flat[i - 1 + 1] = f[i - 1 + 1]
      BY <3>1
    <3> HIDE DEF P
    <3> QED BY <2>5, <3>2
  <2> QED BY <2>6
<1>7. FlattenSeq(ss) = f[Len(ss)]
  <2>1. CASE Len(ss) = 0
    <3>1. ss = <<>>
      BY <2>1
    <3> QED BY <1>1, <2>1, <3>1 DEF FlattenSeq
  <2>2. CASE Len(ss) # 0
    <3>1. FlattenSeq(ss) = flat[Len(ss)]
      BY <2>2 DEF FlattenSeq, flat
    <3>2. Len(ss) \in 1..Len(ss)
      BY <1>s, <2>2
    <3> QED BY <1>6, <3>1, <3>2
  <2> QED BY <2>1, <2>2
<1> QED BY <1>1, <1>2, <1>7 DEF W

\* A flattened list holds what its parts hold.
LEMMA FlattenIs ==
  ASSUME NEW T, NEW ss \in Seq(Seq(T))
  PROVE  /\ FlattenSeq(ss) \in Seq(T)
         /\ ToSet(FlattenSeq(ss)) = UNION {ToSet(ss[i]) : i \in DOMAIN ss}
<1>1. PICK f \in [Nat -> Seq(T)] :
           /\ f[0] = <<>>
           /\ \A n \in Nat : n < Len(ss) => f[n + 1] = f[n] \o ss[n + 1]
           /\ FlattenSeq(ss) = f[Len(ss)]
  BY FlattenRounds
<1>s. Len(ss) \in Nat /\ DOMAIN ss = 1..Len(ss) /\ \A i \in 1..Len(ss) : ss[i] \in Seq(T)
  OBVIOUS
<1> DEFINE Upto(n) == UNION {ToSet(ss[i]) : i \in 1..n}
           P == {n \in Nat : ToSet(f[n]) = Upto(n)}
<1>2. ASSUME NEW n \in Nat PROVE Upto(n + 1) = Upto(n) \cup ToSet(ss[n + 1])
  <2>1. /\ \A i \in 1..(n + 1) : i \in 1..n \/ i = n + 1
        /\ \A i \in 1..n : i \in 1..(n + 1)
        /\ n + 1 \in 1..(n + 1)
    OBVIOUS
  <2> QED BY <2>1, Zenon
<1>3. 0 \in P
  <2>1. Upto(0) = {} /\ ToSet(<<>>) = {}
    BY DEF ToSet
  <2> QED BY <1>1, <2>1
<1>4. ASSUME NEW n \in 0..Len(ss), n \in P, n < Len(ss) PROVE n + 1 \in P
  <2>0. n \in Nat /\ Len(ss) \in Nat
    BY <1>s
  <2>1. n + 1 \in Nat /\ n + 1 \in 1..Len(ss)
    <3>1. n < Len(ss)
      BY <1>4
    <3> QED BY <2>0, <3>1
  <2> DEFINE q == f[n]
             r == ss[n + 1]
  <2>2. f[n + 1] = q \o r /\ q \in Seq(T) /\ r \in Seq(T)
    BY <1>1, <1>s, <1>4, <2>0, <2>1
  <2>4. ToSet(q) = Upto(n)
    BY <1>4
  <2> HIDE DEF q, r, Upto
  <2>3. ToSet(q \o r) = ToSet(q) \cup ToSet(r)
    BY <2>2, ToSetConcat
  <2>5. Upto(n + 1) = Upto(n) \cup ToSet(r)
    BY <1>2, <2>0 DEF r
  <2> QED BY <2>1, <2>2, <2>3, <2>4, <2>5
<1>5. \A n \in 0..Len(ss) : n \in P
  <2> HIDE DEF P
  <2> QED BY <1>s, <1>3, <1>4, UpToInd
<1>6. Len(ss) \in P
  <2>1. Len(ss) \in 0..Len(ss)
    BY <1>s
  <2> HIDE DEF P
  <2> QED BY <1>5, <2>1
<1>7. ToSet(f[Len(ss)]) = Upto(Len(ss))
  BY <1>6
<1> QED BY <1>1, <1>s, <1>7

\* Of pairs, the second of each is at an even place of the flattened list.
LEMMA FlattenPairs ==
  ASSUME NEW T, NEW ss \in Seq(Seq(T)), \A i \in DOMAIN ss : Len(ss[i]) = 2
  PROVE  /\ Len(FlattenSeq(ss)) = 2 * Len(ss)
         /\ \A i \in DOMAIN ss : FlattenSeq(ss)[2 * i] = ss[i][2]
<1>1. PICK f \in [Nat -> Seq(T)] :
           /\ f[0] = <<>>
           /\ \A n \in Nat : n < Len(ss) => f[n + 1] = f[n] \o ss[n + 1]
           /\ FlattenSeq(ss) = f[Len(ss)]
  BY FlattenRounds
<1>s. Len(ss) \in Nat /\ DOMAIN ss = 1..Len(ss) /\ \A i \in 1..Len(ss) : ss[i] \in Seq(T)
  OBVIOUS
<1> DEFINE Good(n) == Len(f[n]) = 2 * n /\ \A i \in 1..n : f[n][2 * i] = ss[i][2]
           P == {n \in Nat : Good(n)}
<1>2. 0 \in P
  BY <1>1
<1>3. ASSUME NEW n \in 0..Len(ss), n \in P, n < Len(ss) PROVE n + 1 \in P
  <2>0. n \in Nat /\ Len(ss) \in Nat
    BY <1>s
  <2>1. n \in Nat /\ n + 1 \in Nat /\ n + 1 \in 1..Len(ss)
    <3> DEFINE l == Len(ss)
    <3>1. n < l /\ l \in Nat
      BY <1>3, <2>0
    <3> HIDE DEF l, P
    <3>2. n + 1 \in Nat /\ n + 1 \in 1..l
      BY <2>0, <3>1
    <3> QED BY <2>0, <3>2 DEF l
  <2> DEFINE q == f[n]
             r == ss[n + 1]
  <2>2. f[n + 1] = q \o r /\ q \in Seq(T) /\ r \in Seq(T) /\ Len(r) = 2
    BY <1>1, <1>s, <1>3, <2>1
  <2>3. Len(q) = 2 * n /\ \A i \in 1..n : q[2 * i] = ss[i][2]
    BY <1>3
  <2> HIDE DEF q, r
  <2>4. /\ Len(q \o r) = Len(q) + Len(r)
        /\ \A j \in 1..Len(q) : (q \o r)[j] = q[j]
        /\ \A j \in 1..Len(r) : (q \o r)[Len(q) + j] = r[j]
    <3>1. q \in Seq(T) /\ r \in Seq(T)
      BY <2>2
    <3>2. \A u \in Seq(T) : \A v \in Seq(T) :
            /\ Len(u \o v) = Len(u) + Len(v)
            /\ \A j \in 1..Len(u) : (u \o v)[j] = u[j]
            /\ \A j \in 1..Len(v) : (u \o v)[Len(u) + j] = v[j]
      BY ConcatAt
    <3> QED BY <3>1, <3>2, Zenon
  <2>5. ASSUME NEW i \in 1..(n + 1) PROVE (q \o r)[2 * i] = ss[i][2]
    <3>1. CASE i \in 1..n
      <4>1. 2 * i \in 1..Len(q)
        BY <2>1, <2>3, <3>1
      <4> QED BY <2>3, <2>4, <3>1, <4>1
    <3>2. CASE i = n + 1
      <4>1. 2 * i = Len(q) + 2 /\ 2 \in 1..Len(r)
        BY <2>1, <2>2, <2>3, <3>2
      <4>2. (q \o r)[Len(q) + 2] = r[2]
        BY <2>4, <4>1
      <4> QED BY <3>2, <4>1, <4>2 DEF r
    <3>3. i \in 1..n \/ i = n + 1
      BY <2>1
    <3> QED BY <3>1, <3>2, <3>3
  <2>6. Len(q \o r) = 2 * (n + 1)
    BY <2>1, <2>2, <2>3, <2>4
  <2> QED BY <2>1, <2>2, <2>5, <2>6
<1>4. \A n \in 0..Len(ss) : n \in P
  <2> HIDE DEF P
  <2> QED BY <1>s, <1>2, <1>3, UpToInd
<1>5. Len(ss) \in P
  <2>1. Len(ss) \in 0..Len(ss)
    BY <1>s
  <2> HIDE DEF P
  <2> QED BY <1>4, <2>1
<1>6. Good(Len(ss))
  BY <1>5
<1> QED BY <1>1, <1>6, <1>s

\* The range of a function on a finite set is finite.
LEMMA FiniteRange ==
  ASSUME NEW f, IsFiniteSet(DOMAIN f)
  PROVE  IsFiniteSet({f[x] : x \in DOMAIN f})
<1> DEFINE S == DOMAIN f
           T == {f[x] : x \in S}
           g == [x \in S |-> f[x]]
<1>1. g \in Surjection(S, T)
  BY DEF Surjection
<1> HIDE DEF T, g
<1>2. IsFiniteSet(T)
  BY <1>1, FS_Surjection
<1> QED BY <1>2 DEF T

\* A list that is not empty is its head and the rest.
LEMMA HeadAndTail ==
  ASSUME NEW T, NEW q \in Seq(T), q # <<>>
  PROVE  /\ Head(q) \in T /\ Tail(q) \in Seq(T) /\ Len(Tail(q)) + 1 = Len(q)
         /\ ToSet(q) = {Head(q)} \cup ToSet(Tail(q))
<1>1. /\ Head(q) \in T /\ Tail(q) \in Seq(T) /\ Len(Tail(q)) + 1 = Len(q) /\ Head(q) = q[1]
      /\ Len(q) \in Nat /\ Len(q) >= 1 /\ DOMAIN q = 1..Len(q) /\ DOMAIN Tail(q) = 1..(Len(q) - 1)
      /\ \A i \in 1..(Len(q) - 1) : Tail(q)[i] = q[i + 1]
  OBVIOUS
<1>2. ASSUME NEW i \in 1..Len(q) PROVE q[i] \in {Head(q)} \cup ToSet(Tail(q))
  <2>1. CASE i = 1
    BY <1>1, <2>1
  <2>2. CASE i # 1
    <3>1. i - 1 \in 1..(Len(q) - 1) /\ i - 1 + 1 = i
      BY <1>1, <2>2
    <3>2. q[i] = Tail(q)[i - 1] /\ i - 1 \in DOMAIN Tail(q)
      BY <1>1, <3>1
    <3> QED BY <3>2 DEF ToSet
  <2> QED BY <2>1, <2>2
<1>3. ASSUME NEW i \in 1..(Len(q) - 1) PROVE Tail(q)[i] \in ToSet(q)
  <2>1. i + 1 \in 1..Len(q)
    BY <1>1
  <2> QED BY <1>1, <2>1 DEF ToSet
<1>4. Head(q) \in ToSet(q)
  <2>1. 1 \in 1..Len(q)
    BY <1>1
  <2> QED BY <1>1, <2>1 DEF ToSet
<1>5. ToSet(q) = {q[i] : i \in 1..Len(q)} /\ ToSet(Tail(q)) = {Tail(q)[i] : i \in 1..(Len(q) - 1)}
  BY <1>1 DEF ToSet
<1>6. ToSet(q) = {Head(q)} \cup ToSet(Tail(q))
  BY <1>2, <1>3, <1>4, <1>5
<1> QED BY <1>1, <1>6

-------------------------------------------------------------------------------
(* Recursion over trees *)

\* Nodes of a tree can be numbered, children below their parents: each node has
\* fewer below it than its parent, and none more than there are.
LEMMA TreeRank ==
  ASSUME NEW A, NEW children, IsTree(A, children)
  PROVE  \E rank \in [A -> Nat] :
           /\ \A a \in A : \A c \in children[a] : rank[c] < rank[a]
           /\ \E n \in Nat : \A a \in A : rank[a] < n
<1> DEFINE Below(a) == Reached(children[a], children)
<1>0. IsFiniteSet(A) /\ children \in [A -> SUBSET A] /\ DOMAIN children = A
  BY DEF IsTree
<1>1. ASSUME NEW a \in A PROVE IsFiniteSet(Below(a)) /\ Cardinality(Below(a)) \in Nat /\ Below(a) \subseteq A
  <2>1. children[a] \subseteq A /\ \A x \in A \cap DOMAIN children : children[x] \subseteq A
    BY <1>0
  <2>2. Below(a) \subseteq A
    BY <1>0, <2>1, ReachedWithin
  <2> HIDE DEF Below
  <2> QED BY <1>0, <2>2, FS_Subset, FS_CardinalityType
<1>2. ASSUME NEW a \in A, NEW c \in children[a] PROVE Cardinality(Below(c)) < Cardinality(Below(a))
  <2>1. c \in A
    BY <1>0
  <2>2. /\ children[a] \subseteq Below(a)
        /\ \A x \in Below(a) \cap DOMAIN children : children[x] \subseteq Below(a)
    BY <1>0, ReachedClosed
  <2>3. c \in Below(a) /\ children[c] \subseteq Below(a)
    BY <1>0, <2>1, <2>2
  <2>4. Below(c) \subseteq Below(a)
    <3> DEFINE S == Below(a)
    <3>1. children[c] \subseteq S /\ \A x \in S \cap DOMAIN children : children[x] \subseteq S
      BY <2>2, <2>3
    <3> HIDE DEF S
    <3>2. Reached(children[c], children) \subseteq S
      BY <1>0, <3>1, ReachedWithin
    <3> QED BY <3>2 DEF S
  <2>5. c \notin Below(c)
    BY <2>1 DEF IsTree
  <2> HIDE DEF Below
  <2> QED BY <1>1, <2>1, <2>3, <2>4, <2>5, FS_Subset
<1> DEFINE rank == [a \in A |-> Cardinality(Below(a))]
<1>3. rank \in [A -> Nat]
  BY <1>1
<1>4. \A a \in A : \A c \in children[a] : rank[c] < rank[a]
  BY <1>0, <1>2
<1>5. ASSUME NEW a \in A PROVE rank[a] < Cardinality(A) + 1
  <2>1. Cardinality(Below(a)) <= Cardinality(A) /\ Cardinality(A) \in Nat
    <3> HIDE DEF Below
    <3> QED BY <1>0, <1>1, FS_Subset, FS_CardinalityType
  <2> HIDE DEF Below
  <2> QED BY <1>1, <2>1
<1>6. Cardinality(A) + 1 \in Nat
  BY <1>0, FS_CardinalityType
<1> HIDE DEF rank
<1> QED BY <1>3, <1>4, <1>5, <1>6

\* Induction from the children to their parents.
LEMMA TreeInd ==
  ASSUME NEW A, NEW children, IsTree(A, children), NEW P,
         \A a \in A : children[a] \subseteq P => a \in P
  PROVE  A \subseteq P
<1>1. PICK rank \in [A -> Nat] : \A a \in A : \A c \in children[a] : rank[c] < rank[a]
  BY TreeRank
<1> DEFINE T == {rank[a] : a \in A \ P}
<1> SUFFICES ASSUME A \ P # {} PROVE FALSE
  OBVIOUS
<1>2. T \in SUBSET Nat /\ T # {}
  BY <1>1
<1>3. PICK m \in T : \A k \in T : m <= k
  <2> HIDE DEF T
  <2> QED BY <1>2, LeastNat
<1>4. PICK a \in A \ P : rank[a] = m
  BY <1>3
<1>5. PICK c \in children[a] : c \notin P
  BY <1>4
<1>6. c \in A
  BY <1>4, <1>5 DEF IsTree
<1>7. rank[c] \in T
  BY <1>5, <1>6
<1>8. rank[c] \in Nat /\ rank[a] \in Nat /\ rank[c] < rank[a] /\ m <= rank[c]
  BY <1>1, <1>3, <1>4, <1>5, <1>6, <1>7
<1> QED BY <1>4, <1>8

\* What F makes of a at a node is made of values at nodes ranked below.
FromBelow(A, V, rank, F) ==
  /\ V # {} /\ rank \in [A -> Nat] /\ F \in [[A -> V] -> [A -> V]]
  /\ \A g, h \in [A -> V] : \A a \in A :
       (\A c \in A : rank[c] < rank[a] => g[c] = h[c]) => F[g][a] = F[h][a]

\* A value for each node may be defined from those of the nodes ranked below it.
LEMMA RankRec ==
  ASSUME NEW A, NEW V, NEW rank, NEW F, FromBelow(A, V, rank, F)
  PROVE  \E f \in [A -> V] : f = F[f]
<1> /\ V # {} /\ rank \in [A -> Nat] /\ F \in [[A -> V] -> [A -> V]]
      /\ \A g, h \in [A -> V] : \A a \in A :
           (\A c \in A : rank[c] < rank[a] => g[c] = h[c]) => F[g][a] = F[h][a]
  BY DEF FromBelow
<1> DEFINE W == [A -> V]
<1>1. PICK g \in [Nat -> W] : \A n \in Nat : g[n + 1] = F[g[n]]
  <2>1. PICK v : v \in V
    OBVIOUS
  <2> DEFINE g0 == [a \in A |-> v]
             step == [n \in Nat |-> F]
  <2>2. g0 \in W /\ step \in [Nat -> [W -> W]]
    BY <2>1
  <2>3. \A n \in Nat : step[n] = F
    OBVIOUS
  <2> HIDE DEF g0, step, W
  <2>4. PICK f : Runs(f, W, g0, step)
    BY <2>2, Iterate
  <2> QED BY <2>3, <2>4 DEF Runs
<1>t. \A n \in Nat : g[n] \in W
  BY <1>1
<1>2. \A n \in Nat : \A a \in A : rank[a] < n => g[n + 1][a] = g[n][a]
  <2> DEFINE P == {n \in Nat : \A a \in A : rank[a] < n => g[n + 1][a] = g[n][a]}
  <2>1. 0 \in P
    OBVIOUS
  <2>2. ASSUME NEW n \in P PROVE n + 1 \in P
    <3> SUFFICES ASSUME NEW a \in A, rank[a] < n + 1 PROVE g[n + 1 + 1][a] = g[n + 1][a]
      OBVIOUS
    <3>1. n \in Nat /\ n + 1 \in Nat /\ rank[a] \in Nat
      OBVIOUS
    <3>2. ASSUME NEW c \in A, rank[c] < rank[a] PROVE g[n + 1][c] = g[n][c]
      <4>1. rank[c] \in Nat /\ rank[c] < n
        BY <3>1, <3>2
      <4> QED BY <4>1
    <3>3. g[n + 1] \in W /\ g[n] \in W
      BY <1>t, <3>1
    <3>4. F[g[n + 1]][a] = F[g[n]][a]
      BY <3>2, <3>3
    <3>5. g[n + 1 + 1] = F[g[n + 1]] /\ g[n + 1] = F[g[n]]
      BY <1>1, <3>1
    <3> QED BY <3>4, <3>5
  <2>3. P = Nat
    <3> HIDE DEF P
    <3>1. P \in SUBSET Nat
      BY DEF P
    <3> QED BY <2>1, <2>2, <3>1, NatInd
  <2> QED BY <2>3
<1>3. ASSUME NEW a \in A PROVE \A k \in Nat : g[rank[a] + 1 + k][a] = g[rank[a] + 1][a]
  <2> DEFINE P == {k \in Nat : g[rank[a] + 1 + k][a] = g[rank[a] + 1][a]}
  <2>0. rank[a] \in Nat
    OBVIOUS
  <2>1. 0 \in P
    <3>1. rank[a] + 1 + 0 = rank[a] + 1
      BY <2>0
    <3> QED BY <3>1
  <2>2. ASSUME NEW k \in P PROVE k + 1 \in P
    <3>1. /\ rank[a] + 1 + k \in Nat /\ rank[a] < rank[a] + 1 + k
          /\ rank[a] + 1 + (k + 1) = (rank[a] + 1 + k) + 1
      <4> DEFINE r == rank[a]
      <4>1. r \in Nat /\ k \in Nat
        BY <2>0
      <4> HIDE DEF r, P
      <4>2. r + 1 + k \in Nat /\ r < r + 1 + k /\ r + 1 + (k + 1) = (r + 1 + k) + 1
        BY <4>1
      <4> QED BY <4>2 DEF r
    <3>2. g[(rank[a] + 1 + k) + 1][a] = g[rank[a] + 1 + k][a]
      BY <1>2, <3>1
    <3> QED BY <3>1, <3>2
  <2>3. P = Nat
    <3> HIDE DEF P
    <3>1. P \in SUBSET Nat
      BY DEF P
    <3> QED BY <2>1, <2>2, <3>1, NatInd
  <2> QED BY <2>3
<1> DEFINE f == [a \in A |-> g[rank[a] + 1][a]]
<1>4. f \in W
  <2>1. ASSUME NEW a \in A PROVE g[rank[a] + 1][a] \in V
    <3>1. rank[a] + 1 \in Nat
      OBVIOUS
    <3> QED BY <1>t, <3>1
  <2> QED BY <2>1
<1>5. ASSUME NEW a \in A PROVE f[a] = F[f][a]
  <2>0. rank[a] \in Nat /\ rank[a] + 1 \in Nat
    OBVIOUS
  <2>1. ASSUME NEW c \in A, rank[c] < rank[a] PROVE g[rank[a]][c] = f[c]
    <3>1. /\ rank[c] \in Nat /\ rank[a] - (rank[c] + 1) \in Nat
          /\ rank[c] + 1 + (rank[a] - (rank[c] + 1)) = rank[a]
      BY <2>0, <2>1
    <3>2. g[rank[c] + 1 + (rank[a] - (rank[c] + 1))][c] = g[rank[c] + 1][c]
      BY <1>3, <3>1
    <3> QED BY <3>1, <3>2
  <2>2. g[rank[a]] \in W
    BY <1>t, <2>0
  <2> HIDE DEF f
  <2>3. F[g[rank[a]]][a] = F[f][a]
    BY <1>4, <2>1, <2>2
  <2>4. g[rank[a] + 1] = F[g[rank[a]]]
    BY <1>1, <2>0
  <2> QED BY <2>3, <2>4 DEF f
<1>6. F[f] \in W
  <2> HIDE DEF f
  <2> QED BY <1>4
<1>7. f = F[f]
  <2> HIDE DEF f
  <2> QED BY <1>4, <1>5, <1>6
<1> HIDE DEF f
<1> QED BY <1>4, <1>7

\* What F makes of a at a node is made of the values at its children.
FromChildren(A, children, V, F) ==
  /\ IsTree(A, children) /\ V # {} /\ F \in [[A -> V] -> [A -> V]]
  /\ \A g, h \in [A -> V] : \A a \in A :
       (\A c \in children[a] : g[c] = h[c]) => F[g][a] = F[h][a]

\* Such an F has what it makes of itself.
LEMMA TreeRec ==
  ASSUME NEW A, NEW children, NEW V, NEW F, FromChildren(A, children, V, F)
  PROVE  \E f \in [A -> V] : f = F[f]
<1>1. PICK rank \in [A -> Nat] : \A a \in A : \A c \in children[a] : rank[c] < rank[a]
  BY TreeRank DEF FromChildren
<1>2. ASSUME NEW g \in [A -> V], NEW h \in [A -> V], NEW a \in A,
             \A c \in A : rank[c] < rank[a] => g[c] = h[c]
      PROVE  F[g][a] = F[h][a]
  <2>1. \A c \in children[a] : c \in A /\ g[c] = h[c]
    BY <1>1, <1>2 DEF FromChildren, IsTree
  <2> QED BY <2>1 DEF FromChildren
<1>3. \A g, h \in [A -> V] : \A a \in A :
        (\A c \in A : rank[c] < rank[a] => g[c] = h[c]) => F[g][a] = F[h][a]
  BY <1>2, Zenon
<1>4. FromBelow(A, V, rank, F)
  BY <1>3 DEF FromBelow, FromChildren
<1> QED BY <1>4, RankRec

-------------------------------------------------------------------------------
(* Places and counts *)

\* e tells of each place of q, made of the first n of s, where it is from.
Origin(e, q, s, n, S) ==
  /\ q \in Seq(ToSet(s)) /\ e \in [1..Len(q) -> 1..n]
  /\ \A k \in 1..Len(q) : q[k] = s[e[k]] /\ s[e[k]] \in S
  /\ \A j, k \in 1..Len(q) : j < k => e[j] < e[k]
  /\ \A i \in 1..n : s[i] \in S => \E k \in 1..Len(q) : e[k] = i

\* What is in S of a list keeps its order.
LEMMA AmongPlaces ==
  ASSUME NEW s, IsList(s), NEW S
  PROVE  \E e : Origin(e, Among(s, S), s, Len(s), S)
<1> DEFINE T == ToSet(s)
<1>s. s \in Seq(T) /\ Len(s) \in Nat /\ DOMAIN s = 1..Len(s) /\ \A i \in DOMAIN s : s[i] \in T
  BY DEF IsList, ToSet
<1>1. PICK f \in [Nat -> Seq(T \cap S)] :
           /\ f[0] = <<>>
           /\ \A n \in 1..Len(s) : f[n] = IF s[n] \in S THEN Append(f[n - 1], s[n]) ELSE f[n - 1]
           /\ Among(s, S) = f[Len(s)]
  BY AmongRounds
<1>o. \A e, q, n : Origin(e, q, s, n, S) <=>
        /\ q \in Seq(T) /\ e \in [1..Len(q) -> 1..n]
        /\ \A k \in 1..Len(q) : q[k] = s[e[k]] /\ s[e[k]] \in S
        /\ \A j, k \in 1..Len(q) : j < k => e[j] < e[k]
        /\ \A i \in 1..n : s[i] \in S => \E k \in 1..Len(q) : e[k] = i
  BY DEF Origin
<1> HIDE DEF T
<1> DEFINE P == {n \in Nat : \E e : Origin(e, f[n], s, n, S)}
<1>2. 0 \in P
  <2> DEFINE e == [k \in 1..0 |-> 0]
  <2>1. Len(<<>>) = 0 /\ <<>> \in Seq(T) /\ 1..0 = {}
    OBVIOUS
  <2>2. e \in [1..0 -> 1..0]
    OBVIOUS
  <2> HIDE DEF e
  <2>3. Origin(e, <<>>, s, 0, S)
    BY <1>o, <2>1, <2>2
  <2> QED BY <1>1, <2>3
<1>3. ASSUME NEW n \in 0..Len(s), n \in P, n < Len(s) PROVE n + 1 \in P
  <2> DEFINE m == n + 1
  <2>0. n \in Nat /\ m \in Nat /\ m \in 1..Len(s) /\ m - 1 = n
    BY <1>s, <1>3
  <2>i. \A i \in 1..m : i \in 1..n \/ i = m
    BY <2>0
  <2>j. \A i \in 1..n : i \in 1..m /\ i < m
    BY <2>0
  <2>q. PICK q : q = f[n]
    OBVIOUS
  <2>1. PICK e : Origin(e, q, s, n, S)
    BY <1>3, <2>q
  <2>l. PICK l : l = Len(q)
    OBVIOUS
  <2>2. f[m] = IF s[m] \in S THEN Append(q, s[m]) ELSE q
    BY <1>1, <2>0, <2>q
  <2>3. /\ q \in Seq(T) /\ e \in [1..l -> 1..n]
        /\ \A k \in 1..l : q[k] = s[e[k]] /\ s[e[k]] \in S
        /\ \A j, k \in 1..l : j < k => e[j] < e[k]
        /\ \A i \in 1..n : s[i] \in S => \E k \in 1..l : e[k] = i
    <3>1. /\ q \in Seq(T) /\ e \in [1..Len(q) -> 1..n]
          /\ \A k \in 1..Len(q) : q[k] = s[e[k]] /\ s[e[k]] \in S
          /\ \A j, k \in 1..Len(q) : j < k => e[j] < e[k]
          /\ \A i \in 1..n : s[i] \in S => \E k \in 1..Len(q) : e[k] = i
      BY <2>1 DEF Origin, T
    <3> QED BY <2>l, <3>1
  <2>4. l \in Nat /\ s[m] \in T
    BY <1>s, <2>0, <2>3, <2>l
  <2>5. \A i \in 1..m : i \in 1..n \/ i = m
    BY <2>i
  <2>6. \A i \in 1..n : i \in 1..m /\ i < m
    BY <2>j
  <2> HIDE DEF m
  <2>7. CASE s[m] \notin S
    <3>1. f[m] = q
      BY <2>2, <2>7
    <3>2. e \in [1..l -> 1..m]
      BY <2>3, <2>6
    <3>3. \A i \in 1..m : s[i] \in S => \E k \in 1..l : e[k] = i
      BY <2>3, <2>5, <2>7
    <3>4. Origin(e, q, s, m, S)
      BY <1>o, <2>3, <2>l, <3>2, <3>3
    <3> QED BY <2>0, <3>1, <3>4 DEF m
  <2>8. CASE s[m] \in S
    <3> DEFINE r == Append(q, s[m])
               d == [k \in 1..(l + 1) |-> IF k = l + 1 THEN m ELSE e[k]]
    <3>1. /\ r \in Seq(T) /\ Len(r) = l + 1 /\ r[l + 1] = s[m]
          /\ \A k \in 1..l : r[k] = q[k]
      BY <2>3, <2>4, <2>l
    <3>2. /\ \A k \in 1..(l + 1) : k \in 1..l \/ k = l + 1
          /\ \A k \in 1..l : k \in 1..(l + 1) /\ k # l + 1
          /\ l + 1 \in 1..(l + 1)
      BY <2>4
    <3>3. /\ d[l + 1] = m /\ \A k \in 1..l : d[k] = e[k]
      BY <3>2
    <3>4. d \in [1..(l + 1) -> 1..m]
      <4>1. m \in 1..m
        BY <2>0
      <4>2. \A k \in 1..l : e[k] \in 1..m
        BY <2>3, <2>6
      <4>3. \A k \in 1..(l + 1) : (IF k = l + 1 THEN m ELSE e[k]) \in 1..m
        BY <3>2, <4>1, <4>2
      <4> QED BY <4>3
    <3> HIDE DEF d, r
    <3>5. \A k \in 1..(l + 1) : r[k] = s[d[k]] /\ s[d[k]] \in S
      BY <2>3, <2>8, <3>1, <3>2, <3>3
    <3>6. ASSUME NEW j \in 1..(l + 1), NEW k \in 1..(l + 1), j < k PROVE d[j] < d[k]
      <4>1. j \in 1..l
        BY <2>4, <3>6
      <4>2. CASE k \in 1..l
        BY <2>3, <3>3, <3>6, <4>1, <4>2
      <4>3. CASE k = l + 1
        <5>1. d[j] \in 1..n /\ d[k] = m
          BY <2>3, <3>3, <4>1, <4>3
        <5> QED BY <2>6, <5>1
      <4> QED BY <3>2, <4>2, <4>3
    <3>7. ASSUME NEW i \in 1..m, s[i] \in S PROVE \E k \in 1..(l + 1) : d[k] = i
      <4>1. CASE i = m
        BY <3>2, <3>3, <4>1
      <4>2. CASE i \in 1..n
        BY <2>3, <3>2, <3>3, <3>7, <4>2
      <4> QED BY <2>5, <4>1, <4>2
    <3>8. Origin(d, r, s, m, S)
      <4> QED BY <1>o, <3>1, <3>4, <3>5, <3>6, <3>7
    <3>9. f[m] = r
      BY <2>2, <2>8 DEF r
    <3> QED BY <2>0, <3>8, <3>9 DEF m
  <2> QED BY <2>7, <2>8
<1>4. Len(s) \in P
  <2>1. Len(s) \in 0..Len(s)
    BY <1>s
  <2> HIDE DEF P
  <2> QED BY <1>2, <1>3, <1>s, <2>1, UpToInd
<1> QED BY <1>1, <1>4

\* The numbers up to n are n.
LEMMA UpTo == ASSUME NEW n \in Nat PROVE IsFiniteSet(1..n) /\ Cardinality(1..n) = n
<1>1. 1 \in Int /\ n \in Int
  OBVIOUS
<1>2. Cardinality(1..n) = IF 1 > n THEN 0 ELSE n - 1 + 1
  BY <1>1, FS_Interval
<1>3. IsFiniteSet(1..n)
  BY <1>1, FS_Interval
<1> QED BY <1>2, <1>3

\* Places that are told apart and lead to those of Y are as many.
LEMMA AsMany ==
  ASSUME NEW X, NEW Y, IsFiniteSet(X), NEW e,
         \A x \in X : e[x] \in Y, \A y \in Y : \E x \in X : e[x] = y,
         \A x, z \in X : e[x] = e[z] => x = z
  PROVE  Cardinality(X) = Cardinality(Y)
<1> DEFINE g == [x \in X |-> e[x]]
<1>1. g \in Surjection(X, Y) /\ g \in Injection(X, Y)
  <2>1. g \in [X -> Y] /\ \A x \in X : g[x] = e[x]
    OBVIOUS
  <2> HIDE DEF g
  <2>2. g \in Surjection(X, Y)
    BY <2>1 DEF Surjection
  <2>3. g \in Injection(X, Y)
    BY <2>1 DEF Injection, IsInjective
  <2> QED BY <2>2, <2>3
<1> HIDE DEF g
<1> QED BY <1>1, FS_Surjection

\* How often a list has a member of S.
Count(s, S) == Cardinality({i \in DOMAIN s : s[i] \in S})

\* Counts are numbers, the count of all is the length, and the part of a list in S
\* has what the list has in S.
LEMMA CountIs ==
  ASSUME NEW s, IsList(s), NEW S
  PROVE  /\ IsFiniteSet({i \in DOMAIN s : s[i] \in S}) /\ Count(s, S) \in Nat
         /\ Count(s, ToSet(s)) = Len(s)
         /\ Len(Among(s, S)) = Count(s, S)
<1> DEFINE q == Among(s, S)
           T == ToSet(s)
<1>s. s \in Seq(T) /\ Len(s) \in Nat /\ DOMAIN s = 1..Len(s) /\ \A i \in DOMAIN s : s[i] \in T
  BY DEF IsList, ToSet
<1>1. IsFiniteSet(DOMAIN s) /\ Cardinality(DOMAIN s) = Len(s)
  BY <1>s, UpTo
<1>2. \A R : IsFiniteSet({i \in DOMAIN s : s[i] \in R})
  BY <1>1, FS_Subset
<1>3. \A R : Count(s, R) \in Nat
  BY <1>2, FS_CardinalityType DEF Count
<1>4. Count(s, T) = Len(s)
  <2>1. {i \in DOMAIN s : s[i] \in T} = DOMAIN s
    BY <1>s
  <2> QED BY <1>1, <2>1 DEF Count
<1>5. PICK e : Origin(e, q, s, Len(s), S)
  BY AmongPlaces
<1> HIDE DEF q
<1>6. /\ q \in Seq(T) /\ e \in [1..Len(q) -> 1..Len(s)]
      /\ \A k \in 1..Len(q) : q[k] = s[e[k]] /\ s[e[k]] \in S
      /\ \A j, k \in 1..Len(q) : j < k => e[j] < e[k]
      /\ \A i \in 1..Len(s) : s[i] \in S => \E k \in 1..Len(q) : e[k] = i
  BY <1>5 DEF Origin
<1> HIDE DEF T
<1>7. Len(q) = Count(s, S)
  <2> DEFINE X == 1..Len(q)
             Y == {i \in DOMAIN s : s[i] \in S}
  <2>1. Len(q) \in Nat
    BY <1>6
  <2>2. IsFiniteSet(X) /\ Cardinality(X) = Len(q)
    BY <2>1, UpTo
  <2>3. \A x \in X : e[x] \in Y
    BY <1>6, <1>s
  <2>4. \A y \in Y : \E x \in X : e[x] = y
    BY <1>6, <1>s
  <2>5. ASSUME NEW x \in X, NEW z \in X, e[x] = e[z] PROVE x = z
    <3>1. e[x] \in 1..Len(s)
      BY <1>6
    <3>2. x \in Nat /\ z \in Nat /\ e[x] \in Nat
      BY <1>s, <2>1, <3>1
    <3>3. x < z => e[x] < e[x]
      BY <1>6, <2>5
    <3>4. z < x => e[x] < e[x]
      BY <1>6, <2>5
    <3>5. ~(x < z) /\ ~(z < x)
      BY <3>2, <3>3, <3>4
    <3> QED BY <3>2, <3>5
  <2> HIDE DEF X, Y
  <2>6. Cardinality(X) = Cardinality(Y)
    BY <2>2, <2>3, <2>4, <2>5, AsMany
  <2> QED BY <2>2, <2>6 DEF Count, Y
<1> QED BY <1>2, <1>3, <1>4, <1>7 DEF q, T

\* No more places of s count where each of them is one of t that counts.
LEMMA CountLess ==
  ASSUME NEW s, NEW t, NEW S, NEW R, IsFiniteSet(DOMAIN t), DOMAIN s \subseteq DOMAIN t,
         \A i \in DOMAIN s : s[i] \in S => t[i] \in R
  PROVE  Count(s, S) \in Nat /\ Count(t, R) \in Nat /\ Count(s, S) <= Count(t, R)
<1> DEFINE X == {i \in DOMAIN s : s[i] \in S}
           Y == {i \in DOMAIN t : t[i] \in R}
<1>1. X \subseteq Y
  OBVIOUS
<1>2. IsFiniteSet(Y)
  BY FS_Subset
<1> HIDE DEF X, Y
<1>3. IsFiniteSet(X) /\ Cardinality(X) <= Cardinality(Y)
  BY <1>1, <1>2, FS_Subset
<1>4. Cardinality(X) \in Nat /\ Cardinality(Y) \in Nat
  BY <1>2, <1>3, FS_CardinalityType
<1> QED BY <1>3, <1>4 DEF Count, X, Y

\* What counts among the part of a list in A.
LEMMA CountAmong ==
  ASSUME NEW s, IsList(s), NEW A, NEW S
  PROVE  Count(Among(s, A), S) = Count(s, A \cap S)
<1> DEFINE q == Among(s, A)
<1>1. PICK e : Origin(e, q, s, Len(s), A)
  BY AmongPlaces
<1> HIDE DEF q
<1>2. /\ q \in Seq(ToSet(s)) /\ e \in [1..Len(q) -> 1..Len(s)]
      /\ \A k \in 1..Len(q) : q[k] = s[e[k]] /\ s[e[k]] \in A
      /\ \A j, k \in 1..Len(q) : j < k => e[j] < e[k]
      /\ \A i \in 1..Len(s) : s[i] \in A => \E k \in 1..Len(q) : e[k] = i
  BY <1>1 DEF Origin
<1>3. Len(q) \in Nat /\ DOMAIN q = 1..Len(q) /\ Len(s) \in Nat /\ DOMAIN s = 1..Len(s)
  BY <1>2 DEF IsList
<1> DEFINE X == {k \in DOMAIN q : q[k] \in S}
           Y == {i \in DOMAIN s : s[i] \in A \cap S}
<1>4. IsFiniteSet(X)
  <2>1. IsFiniteSet(DOMAIN q)
    BY <1>3, UpTo
  <2> QED BY <2>1, FS_Subset
<1>5. \A k \in X : e[k] \in Y
  BY <1>2, <1>3
<1>6. \A i \in Y : \E k \in X : e[k] = i
  BY <1>2, <1>3
<1>7. ASSUME NEW x \in X, NEW z \in X, e[x] = e[z] PROVE x = z
  <2>1. x \in Nat /\ z \in Nat /\ e[x] \in Nat
    <3>1. e[x] \in 1..Len(s) /\ x \in 1..Len(q) /\ z \in 1..Len(q)
      BY <1>2, <1>3
    <3> QED BY <1>3, <3>1
  <2>2. x < z => e[x] < e[x]
    BY <1>2, <1>3, <1>7
  <2>3. z < x => e[x] < e[x]
    BY <1>2, <1>3, <1>7
  <2> QED BY <2>1, <2>2, <2>3
<1> HIDE DEF X, Y
<1>8. Cardinality(X) = Cardinality(Y)
  BY <1>4, <1>5, <1>6, <1>7, AsMany
<1> QED BY <1>8 DEF Count, X, Y, q

\* What counts in two lists one after the other.
LEMMA CountConcat ==
  ASSUME NEW T, NEW q \in Seq(T), NEW r \in Seq(T), NEW S
  PROVE  /\ Count(q, S) \in Nat /\ Count(r, S) \in Nat
         /\ Count(q \o r, S) = Count(q, S) + Count(r, S)
<1> DEFINE X == {i \in DOMAIN q : q[i] \in S}
           Y == {i \in DOMAIN r : r[i] \in S}
           Z == {i \in DOMAIN (q \o r) : (q \o r)[i] \in S}
           e == [i \in Y |-> Len(q) + i]
           W == {Len(q) + i : i \in Y}
<1>1. /\ Len(q) \in Nat /\ Len(r) \in Nat /\ DOMAIN q = 1..Len(q) /\ DOMAIN r = 1..Len(r)
      /\ DOMAIN (q \o r) = 1..(Len(q) + Len(r))
      /\ \A i \in 1..Len(q) : (q \o r)[i] = q[i]
      /\ \A i \in 1..Len(r) : (q \o r)[Len(q) + i] = r[i]
  OBVIOUS
<1>2. IsFiniteSet(X) /\ IsFiniteSet(Y)
  <2>1. IsFiniteSet(DOMAIN q) /\ IsFiniteSet(DOMAIN r)
    BY <1>1, UpTo
  <2> QED BY <2>1, FS_Subset
<1> DEFINE l == Len(q)
           m == Len(r)
<1>3. /\ \A i \in 1..(l + m) : i \in 1..l \/ (i - l \in 1..m /\ i = l + (i - l))
      /\ \A i \in 1..l : i \in 1..(l + m)
      /\ \A i \in 1..m : l + i \in 1..(l + m) /\ l + i \notin 1..l
      /\ \A i, j \in 1..m : l + i = l + j => i = j
  <2>1. l \in Nat /\ m \in Nat
    BY <1>1
  <2> HIDE DEF l, m
  <2> QED BY <2>1
<1>4. Z = X \cup W
  <2>1. ASSUME NEW i \in Z PROVE i \in X \cup W
    <3>1. i \in 1..(l + m)
      BY <1>1
    <3>2. CASE i \in 1..l
      BY <1>1, <3>2
    <3>3. CASE i - l \in 1..m /\ i = l + (i - l)
      <4>1. PICK j \in 1..m : i = l + j
        BY <3>3
      <4>2. (q \o r)[l + j] = r[j]
        BY <1>1
      <4>3. j \in Y
        BY <1>1, <4>1, <4>2
      <4> QED BY <4>1, <4>3
    <3> QED BY <1>3, <3>1, <3>2, <3>3
  <2>2. ASSUME NEW i \in X PROVE i \in Z
    BY <1>1, <1>3
  <2>3. ASSUME NEW j \in Y PROVE l + j \in Z
    <3>1. j \in 1..m /\ r[j] \in S
      BY <1>1
    <3> QED BY <1>1, <1>3, <3>1
  <2> HIDE DEF X, Y, Z, l, m
  <2> QED BY <2>1, <2>2, <2>3 DEF l
<1>5. X \cap W = {}
  <2>1. ASSUME NEW j \in Y PROVE l + j \notin X
    <3>1. j \in 1..m
      BY <1>1
    <3> QED BY <1>1, <1>3, <3>1
  <2> HIDE DEF X, Y
  <2> QED BY <2>1
<1>6. Cardinality(Y) = Cardinality(W) /\ IsFiniteSet(W)
  <2>1. \A x \in Y : e[x] \in W
    OBVIOUS
  <2>2. \A y \in W : \E x \in Y : e[x] = y
    OBVIOUS
  <2>3. \A x, z \in Y : e[x] = e[z] => x = z
    <3>1. \A x \in Y : x \in 1..m /\ e[x] = l + x
      BY <1>1
    <3> HIDE DEF Y, e
    <3> QED BY <1>3, <3>1
  <2>4. W = {e[i] : i \in DOMAIN e} /\ DOMAIN e = Y
    OBVIOUS
  <2> HIDE DEF Y, W, e
  <2>5. Cardinality(Y) = Cardinality(W)
    BY <1>2, <2>1, <2>2, <2>3, AsMany
  <2>6. IsFiniteSet(W)
    BY <1>2, <2>4, FiniteRange
  <2> QED BY <2>5, <2>6
<1> HIDE DEF X, Y, Z, W
<1>7. Cardinality(Z) = Cardinality(X) + Cardinality(W) - Cardinality(X \cap W)
  BY <1>2, <1>4, <1>6, FS_Union
<1>8. Cardinality(X \cap W) = 0
  BY <1>5, FS_EmptySet
<1>9. Cardinality(X) \in Nat /\ Cardinality(Y) \in Nat
  BY <1>2, FS_CardinalityType
<1>10. Cardinality(Z) = Cardinality(X) + Cardinality(Y)
  BY <1>6, <1>7, <1>8, <1>9
<1> QED BY <1>9, <1>10 DEF Count, X, Y, Z

\* Lists of lists: where no part has more that counts, neither has the whole.
LEMMA FlatCount ==
  ASSUME NEW T, NEW ss \in Seq(Seq(T)), NEW U, NEW tt \in Seq(Seq(U)), Len(ss) = Len(tt), NEW S, NEW R,
         \A i \in 1..Len(ss) : Count(ss[i], S) <= Count(tt[i], R)
  PROVE  Count(FlattenSeq(ss), S) <= Count(FlattenSeq(tt), R)
<1> DEFINE N == Len(ss)
<1>1. N \in Nat /\ N = Len(tt)
  OBVIOUS
<1>p. \A i \in 1..N : ss[i] \in Seq(T) /\ tt[i] \in Seq(U) /\ Count(ss[i], S) <= Count(tt[i], R)
  OBVIOUS
<1>2. PICK f \in [Nat -> Seq(T)] :
         /\ f[0] = <<>>
         /\ \A n \in Nat : n < Len(ss) => f[n + 1] = f[n] \o ss[n + 1]
         /\ FlattenSeq(ss) = f[Len(ss)]
  BY FlattenRounds
<1>3. PICK g \in [Nat -> Seq(U)] :
         /\ g[0] = <<>>
         /\ \A n \in Nat : n < Len(tt) => g[n + 1] = g[n] \o tt[n + 1]
         /\ FlattenSeq(tt) = g[Len(tt)]
  BY FlattenRounds
<1> DEFINE P == {n \in Nat : Count(f[n], S) <= Count(g[n], R)}
<1>4. 0 \in P
  <2>1. IsFiniteSet(DOMAIN <<>>) /\ DOMAIN <<>> \subseteq DOMAIN <<>> /\ \A i \in DOMAIN <<>> : <<>>[i] \in S => <<>>[i] \in R
    <3>1. DOMAIN <<>> = {}
      OBVIOUS
    <3> QED BY <3>1, FS_EmptySet
  <2>2. Count(<<>>, S) <= Count(<<>>, R)
    BY <2>1, CountLess
  <2> QED BY <1>2, <1>3, <2>2
<1>5. ASSUME NEW n \in 0..N, n \in P, n < N PROVE n + 1 \in P
  <2>1. n \in Nat /\ n + 1 \in Nat /\ n + 1 \in 1..N
    <3> HIDE DEF N, P
    <3> QED BY <1>1, <1>5
  <2>2. f[n + 1] = f[n] \o ss[n + 1] /\ g[n + 1] = g[n] \o tt[n + 1]
    BY <1>1, <1>2, <1>3, <1>5, <2>1
  <2>3. /\ Count(f[n], S) \in Nat /\ Count(ss[n + 1], S) \in Nat
        /\ Count(f[n + 1], S) = Count(f[n], S) + Count(ss[n + 1], S)
    <3>1. PICK q \in Seq(T), r \in Seq(T) : q = f[n] /\ r = ss[n + 1]
      BY <1>p, <2>1
    <3>2. Count(q, S) \in Nat /\ Count(r, S) \in Nat /\ Count(q \o r, S) = Count(q, S) + Count(r, S)
      BY CountConcat
    <3> QED BY <2>2, <3>1, <3>2
  <2>4. /\ Count(g[n], R) \in Nat /\ Count(tt[n + 1], R) \in Nat
        /\ Count(g[n + 1], R) = Count(g[n], R) + Count(tt[n + 1], R)
    <3>1. PICK q \in Seq(U), r \in Seq(U) : q = g[n] /\ r = tt[n + 1]
      BY <1>p, <2>1
    <3>2. Count(q, R) \in Nat /\ Count(r, R) \in Nat /\ Count(q \o r, R) = Count(q, R) + Count(r, R)
      BY CountConcat
    <3> QED BY <2>2, <3>1, <3>2
  <2>5. Count(ss[n + 1], S) <= Count(tt[n + 1], R)
    BY <1>p, <2>1
  <2>6. Count(f[n], S) <= Count(g[n], R)
    BY <1>5
  <2>7. Count(f[n + 1], S) <= Count(g[n + 1], R)
    BY <2>3, <2>4, <2>5, <2>6
  <2> QED BY <2>1, <2>7
<1>6. N \in P
  <2>1. N \in 0..N
    BY <1>1
  <2> HIDE DEF P, N
  <2> QED BY <1>1, <1>4, <1>5, <2>1, UpToInd
<1> QED BY <1>1, <1>2, <1>3, <1>6

\* g reads N elements, each from what came before.
Reads(g, W, x0, N, step) == g \in [0..N -> W] /\ g = [n \in 0..N |-> IF n = 0 THEN x0 ELSE step[n][g[n - 1]]]

\* There is always such a function, too.
LEMMA ReadUpTo ==
  ASSUME NEW W, NEW x0 \in W, NEW N \in Nat, NEW step \in [1..N -> [W -> W]]
  PROVE  \E g : Reads(g, W, x0, N, step)
<1> DEFINE on == [n \in Nat |-> [w \in W |-> IF n < N THEN step[n + 1][w] ELSE w]]
<1>1. on \in [Nat -> [W -> W]]
  <2>1. ASSUME NEW n \in Nat, n < N PROVE n + 1 \in 1..N
    BY <2>1
  <2> QED BY <2>1
<1>2. PICK f : f \in [Nat -> W] /\ f[0] = x0 /\ \A n \in Nat : f[n + 1] = on[n][f[n]]
  <2> HIDE DEF on
  <2>1. PICK f : Runs(f, W, x0, on)
    BY <1>1, Iterate
  <2> QED BY <2>1 DEF Runs
<1> DEFINE g == [n \in 0..N |-> f[n]]
           Rec == [n \in 0..N |-> IF n = 0 THEN x0 ELSE step[n][g[n - 1]]]
<1>3. g \in [0..N -> W]
  BY <1>2
<1>4. ASSUME NEW n \in 0..N PROVE g[n] = Rec[n]
  <2>1. CASE n = 0
    BY <1>2, <2>1
  <2>2. CASE n # 0
    <3>1. n - 1 \in Nat /\ n - 1 \in 0..N /\ n - 1 < N /\ n - 1 + 1 = n
      BY <2>2
    <3>2. f[n - 1 + 1] = on[n - 1][f[n - 1]] /\ f[n - 1] \in W
      BY <1>2, <3>1
    <3>3. on[n - 1][f[n - 1]] = step[n][f[n - 1]]
      BY <3>1, <3>2
    <3>4. g[n] = f[n] /\ g[n - 1] = f[n - 1]
      BY <3>1
    <3>5. Rec[n] = step[n][g[n - 1]]
      <4> HIDE DEF g
      <4> QED BY <2>2
    <3> QED BY <3>1, <3>2, <3>3, <3>4, <3>5
  <2> QED BY <2>1, <2>2
<1>5. g = Rec
  <2> HIDE DEF g
  <2>1. DOMAIN g = 0..N
    BY DEF g
  <2>2. g = [n \in 0..N |-> g[n]]
    BY <2>1 DEF g
  <2> QED BY <1>4, <2>2
<1>6. Reads(g, W, x0, N, step)
  BY <1>3, <1>5 DEF Reads
<1> QED BY <1>6

\* A list with one more is a list.
LEMMA OneMore == ASSUME NEW T, NEW q \in Seq(T), NEW e \in T PROVE Append(q, e) \in Seq(T)
OBVIOUS

-------------------------------------------------------------------------------
(* Clean *)

\* Induction over the lists of T.
LEMMA ListInd ==
  ASSUME NEW T, NEW P, <<>> \in P, \A q \in Seq(T) : \A e \in T : q \in P => Append(q, e) \in P
  PROVE  \A q \in Seq(T) : q \in P
<1> DEFINE R == {n \in Nat : \A q \in Seq(T) : Len(q) = n => q \in P}
<1>1. 0 \in R
  <2>1. ASSUME NEW q \in Seq(T), Len(q) = 0 PROVE q = <<>>
    BY <2>1
  <2> QED BY <2>1
<1>2. ASSUME NEW n \in R PROVE n + 1 \in R
  <2>1. ASSUME NEW q \in Seq(T), Len(q) = n + 1 PROVE q \in P
    <3> DEFINE r == [i \in 1..n |-> q[i]]
    <3>1. n \in Nat /\ n + 1 \in 1..(n + 1) /\ \A i \in 1..n : i \in 1..(n + 1)
      OBVIOUS
    <3>2. \A i \in 1..(n + 1) : q[i] \in T
      BY <2>1
    <3>3. r \in [1..n -> T]
      BY <3>1, <3>2
    <3>4. r \in Seq(T) /\ Len(r) = n
      <4> HIDE DEF r
      <4> QED BY <3>1, <3>3, ListOf
    <3>5. r \in P
      <4> HIDE DEF r
      <4> QED BY <3>4
    <3>6. \A i \in 1..n : r[i] = q[i]
      OBVIOUS
    <3> HIDE DEF r
    <3>7. q[n + 1] \in T
      BY <3>1, <3>2
    <3>8. q = Append(r, q[n + 1])
      BY <2>1, <3>1, <3>4, <3>6, <3>7
    <3> QED BY <3>4, <3>5, <3>7, <3>8
  <2> QED BY <2>1
<1>3. R = Nat
  <2>1. R \in SUBSET Nat
    OBVIOUS
  <2> HIDE DEF R
  <2> QED BY <1>1, <1>2, <2>1, NatInd
<1>4. ASSUME NEW q \in Seq(T) PROVE q \in P
  <2>1. Len(q) \in R
    BY <1>3
  <2> QED BY <2>1
<1> QED BY <1>4

\* One name more makes a list of another, or shortens it.
LEMMA OntoIs ==
  ASSUME NEW T, NEW p \in Seq(T), NEW n \in T
  PROVE  /\ Onto(p, n) \in Seq(T)
         /\ \/ Onto(p, n) = Append(p, n)
            \/ p # <<>> /\ n = ".." /\ Onto(p, n) = Front(p)
<1>1. Append(p, n) \in Seq(T)
  BY OneMore
<1>2. p # <<>> => Front(p) \in Seq(T)
  BY DEF Front
<1> QED BY <1>1, <1>2 DEF Onto

\* g cleans q name by name.
Cleans(g, q) == g = [n \in 0..Len(q) |-> IF n = 0 THEN <<>> ELSE Onto(g[n - 1], q[n])]

\* Clean looks at one name after the other.
LEMMA CleanRounds ==
  ASSUME NEW T, NEW q \in Seq(T)
  PROVE  \E g \in [0..Len(q) -> Seq(T)] : Cleans(g, q) /\ Clean(q) = g[Len(q)]
<1> DEFINE N == Len(q)
           W == Seq(T)
           Rec(g) == [n \in 0..N |-> IF n = 0 THEN <<>> ELSE Onto(g[n - 1], q[n])]
           step == [n \in 1..N |-> [w \in W |-> Onto(w, q[n])]]
           clean == CHOOSE g : g = Rec(g)
<1>1. N \in Nat /\ <<>> \in W /\ \A n \in 1..N : q[n] \in T
  OBVIOUS
<1>2. step \in [1..N -> [W -> W]]
  <2>1. \A w \in W : \A e \in T : Onto(w, e) \in W
    BY OntoIs
  <2> HIDE DEF N, W
  <2> QED BY <1>1, <2>1
<1>3. PICK g : Reads(g, W, <<>>, N, step)
  <2> HIDE DEF N, W, step
  <2> QED BY <1>1, <1>2, ReadUpTo
<1>4. g \in [0..N -> W] /\ g = [n \in 0..N |-> IF n = 0 THEN <<>> ELSE step[n][g[n - 1]]]
  BY <1>3 DEF Reads
<1>5. ASSUME NEW n \in 0..N, n # 0 PROVE step[n][g[n - 1]] = Onto(g[n - 1], q[n])
  <2>1. n \in 1..N /\ n - 1 \in 0..N
    BY <1>1, <1>5
  <2>2. g[n - 1] \in W
    BY <1>4, <2>1
  <2> HIDE DEF N, W
  <2> QED BY <2>1, <2>2
<1>6. g = Rec(g)
  <2> HIDE DEF step, N, W
  <2> QED BY <1>4, <1>5
<1>7. clean = Rec(clean)
  <2> HIDE DEF Rec
  <2> QED BY <1>6
<1>8. Clean(q) = clean[N]
  BY DEF Clean
<1> HIDE DEF clean
<1> DEFINE P == {n \in 0..N : clean[n] = g[n]}
<1>9. 0 \in P
  <2>1. 0 \in 0..N
    BY <1>1
  <2>2. Rec(clean)[0] = <<>> /\ Rec(g)[0] = <<>>
    BY <2>1
  <2> HIDE DEF Rec, N
  <2> QED BY <1>6, <1>7, <2>1, <2>2
<1>10. ASSUME NEW n \in 0..N, n \in P, n < N PROVE n + 1 \in P
  <2>1. n + 1 \in 0..N /\ n + 1 # 0 /\ n + 1 - 1 = n
    BY <1>1, <1>10
  <2>2. Rec(clean)[n + 1] = Onto(clean[n], q[n + 1]) /\ Rec(g)[n + 1] = Onto(g[n], q[n + 1])
    BY <2>1
  <2>3. clean[n] = g[n]
    BY <1>10
  <2> HIDE DEF Rec, N
  <2> QED BY <1>6, <1>7, <2>1, <2>2, <2>3
<1>11. N \in P
  <2>1. N \in 0..N
    BY <1>1
  <2> HIDE DEF P, N
  <2> QED BY <1>1, <1>9, <1>10, <2>1, UpToInd
<1>12. Cleans(g, q)
  BY <1>6 DEF Cleans
<1> QED BY <1>4, <1>8, <1>11, <1>12

\* A path with one name more is cleaned like what there was, with that name on it.
LEMMA CleanAppend ==
  ASSUME NEW T, NEW q \in Seq(T), NEW e \in T
  PROVE  Clean(q) \in Seq(T) /\ Clean(Append(q, e)) = Onto(Clean(q), e)
<1> DEFINE r == Append(q, e)
           N == Len(q)
<1>1. /\ N \in Nat /\ r \in Seq(T) /\ Len(r) = N + 1 /\ r[N + 1] = e
      /\ \A n \in 1..N : r[n] = q[n]
  OBVIOUS
<1> HIDE DEF r
<1>2. PICK g \in [0..N -> Seq(T)] : Cleans(g, q) /\ Clean(q) = g[N]
  BY CleanRounds
<1>3. PICK h \in [0..(N + 1) -> Seq(T)] : Cleans(h, r) /\ Clean(r) = h[N + 1]
  BY <1>1, CleanRounds
<1>4. /\ g = [n \in 0..N |-> IF n = 0 THEN <<>> ELSE Onto(g[n - 1], q[n])]
      /\ h = [n \in 0..(N + 1) |-> IF n = 0 THEN <<>> ELSE Onto(h[n - 1], r[n])]
  BY <1>1, <1>2, <1>3 DEF Cleans
<1>5. /\ 0 \in 0..N /\ 0 \in 0..(N + 1) /\ N \in 0..N /\ N + 1 \in 0..(N + 1) /\ N + 1 # 0 /\ N + 1 - 1 = N
      /\ \A n \in 0..N : n < N => n + 1 \in 0..N /\ n + 1 \in 1..N /\ n + 1 \in 0..(N + 1) /\ n + 1 # 0 /\ n + 1 - 1 = n
  BY <1>1
<1> HIDE DEF N
<1>6. g[0] = <<>> /\ h[0] = <<>>
  BY <1>4, <1>5
<1> DEFINE P == {n \in 0..N : h[n] = g[n]}
<1>7. ASSUME NEW n \in 0..N, n \in P, n < N PROVE n + 1 \in P
  <2>1. g[n + 1] = Onto(g[n], q[n + 1])
    BY <1>4, <1>5, <1>7
  <2>2. h[n + 1] = Onto(h[n], r[n + 1])
    BY <1>4, <1>5, <1>7
  <2>3. r[n + 1] = q[n + 1] /\ h[n] = g[n] /\ n + 1 \in 0..N
    BY <1>1, <1>5, <1>7
  <2> QED BY <2>1, <2>2, <2>3
<1>8. N \in P
  <2>1. 0 \in P
    BY <1>5, <1>6
  <2> HIDE DEF P
  <2> QED BY <1>1, <1>5, <1>7, <2>1, UpToInd
<1>9. h[N + 1] = Onto(h[N], r[N + 1])
  BY <1>4, <1>5
<1>10. Clean(q) \in Seq(T)
  BY <1>2, <1>5
<1> QED BY <1>1, <1>2, <1>3, <1>8, <1>9, <1>10 DEF r

\* What is clean stays as it is.
LEMMA CleanTwice ==
  ASSUME NEW T, NEW q \in Seq(T)
  PROVE  Clean(q) \in Seq(T) /\ Clean(Clean(q)) = Clean(q)
<1> DEFINE K == {p \in Seq(T) : Clean(p) = p}
           P == {p \in Seq(T) : Clean(p) \in K}
<1>1. <<>> \in Seq(T) /\ Clean(<<>>) = <<>>
  <2>1. PICK g \in [0..Len(<<>>) -> Seq(T)] : Cleans(g, <<>>) /\ Clean(<<>>) = g[Len(<<>>)]
    BY CleanRounds
  <2>2. Len(<<>>) = 0 /\ 0 \in 0..0
    OBVIOUS
  <2>3. g[0] = <<>>
    BY <2>1, <2>2 DEF Cleans
  <2> QED BY <2>1, <2>2, <2>3
<1>2. ASSUME NEW p \in K, NEW e \in T PROVE Onto(p, e) \in K
  <2>1. p \in Seq(T) /\ Clean(p) = p
    OBVIOUS
  <2>2. CASE Onto(p, e) = Append(p, e)
    <3>1. Clean(Append(p, e)) = Onto(p, e) /\ Append(p, e) \in Seq(T)
      BY <2>1, CleanAppend, OneMore
    <3> QED BY <2>2, <3>1
  <2>3. CASE Onto(p, e) # Append(p, e)
    <3> DEFINE f == Front(p)
               l == Last(p)
    <3>1. p # <<>> /\ l # ".." /\ Onto(p, e) = f
      BY <2>3 DEF Onto
    <3>2. f \in Seq(T) /\ l \in T /\ p = Append(f, l)
      BY <2>1, <3>1 DEF Front, Last
    <3> HIDE DEF f, l
    <3>3. Clean(f) \in Seq(T) /\ p = Onto(Clean(f), l)
      BY <2>1, <3>2, CleanAppend
    <3>4. Onto(Clean(f), l) = Append(Clean(f), l)
      BY <3>1 DEF Onto
    <3>5. Append(f, l) = Append(Clean(f), l)
      BY <3>2, <3>3, <3>4
    <3>6. f = Clean(f)
      <4>1. PICK c \in Seq(T) : c = Clean(f)
        BY <3>3
      <4>2. Append(f, l) = Append(c, l)
        BY <3>5, <4>1
      <4>3. Front(Append(f, l)) = f /\ Front(Append(c, l)) = c
        BY <3>2 DEF Front
      <4> QED BY <4>1, <4>2, <4>3
    <3> QED BY <3>1, <3>2, <3>6
  <2> QED BY <2>2, <2>3
<1>3. <<>> \in P
  BY <1>1
<1>4. ASSUME NEW p \in Seq(T), NEW e \in T, p \in P PROVE Append(p, e) \in P
  <2>1. Clean(Append(p, e)) = Onto(Clean(p), e) /\ Append(p, e) \in Seq(T) /\ Clean(p) \in K
    BY <1>4, CleanAppend, OneMore
  <2> HIDE DEF K
  <2>2. Onto(Clean(p), e) \in K
    BY <1>2, <2>1
  <2> QED BY <2>1, <2>2
<1>5. q \in P
  <2> HIDE DEF P
  <2> QED BY <1>3, <1>4, ListInd
<1> QED BY <1>5

\* Names behind a path that was cleaned before lead where they lead behind the path.
LEMMA CleanJoin ==
  ASSUME NEW T, NEW p \in Seq(T), NEW q \in Seq(T)
  PROVE  Clean(Clean(p) \o q) = Clean(p \o q)
<1> DEFINE c == Clean(p)
           P == {r \in Seq(T) : Clean(c \o r) = Clean(p \o r)}
<1>1. c \in Seq(T) /\ Clean(c) = c
  BY CleanTwice
<1>2. <<>> \in P
  <2>1. \A x \in Seq(T) : x \o <<>> = x
    OBVIOUS
  <2>2. <<>> \in Seq(T)
    OBVIOUS
  <2> HIDE DEF c
  <2> QED BY <1>1, <2>1, <2>2 DEF c
<1>3. ASSUME NEW r \in Seq(T), NEW e \in T, r \in P PROVE Append(r, e) \in P
  <2>1. \A x \in Seq(T) : x \o Append(r, e) = Append(x \o r, e) /\ x \o r \in Seq(T)
    OBVIOUS
  <2>2. Clean(Append(c \o r, e)) = Onto(Clean(c \o r), e) /\ Clean(Append(p \o r, e)) = Onto(Clean(p \o r), e)
    <3> HIDE DEF c
    <3> QED BY <1>1, <2>1, CleanAppend
  <2>3. Append(r, e) \in Seq(T)
    BY OneMore
  <2>4. Clean(c \o r) = Clean(p \o r)
    BY <1>3
  <2>5. c \o Append(r, e) = Append(c \o r, e) /\ p \o Append(r, e) = Append(p \o r, e)
    <3> HIDE DEF c
    <3> QED BY <1>1, <2>1
  <2> HIDE DEF c
  <2> QED BY <2>2, <2>3, <2>4, <2>5
<1>4. q \in P
  <2> HIDE DEF P
  <2> QED BY <1>2, <1>3, ListInd
<1> QED BY <1>4

-------------------------------------------------------------------------------
(* Parts of lists, and names behind one another *)

\* Of three lists one after the other, it is the same which two are put together first.
LEMMA Joined ==
  ASSUME NEW T, NEW p \in Seq(T), NEW q \in Seq(T), NEW r \in Seq(T)
  PROVE  (p \o q) \o r = p \o (q \o r)
BY ConcatAssociative

\* Where nothing counts, nothing is counted.
LEMMA NoneCounts ==
  ASSUME NEW q, NEW S, \A i \in DOMAIN q : q[i] \notin S
  PROVE  Count(q, S) = 0
<1>1. {i \in DOMAIN q : q[i] \in S} = {}
  OBVIOUS
<1> QED BY <1>1, FS_EmptySet DEF Count

\* Where one place counts, one is counted.
LEMMA OneCounts ==
  ASSUME NEW q, NEW S, NEW k \in DOMAIN q, \A i \in DOMAIN q : q[i] \in S <=> i = k
  PROVE  Count(q, S) = 1
<1>1. {i \in DOMAIN q : q[i] \in S} = {k}
  OBVIOUS
<1> QED BY <1>1, FS_Singleton DEF Count

\* What is the only one of R in a list is so in what is in S of the list.
LEMMA AmongAlone ==
  ASSUME NEW s, IsList(s), NEW S, NEW R, \A i, j \in DOMAIN s : s[i] \in R /\ s[j] \in R => i = j
  PROVE  \A i, j \in DOMAIN Among(s, S) : Among(s, S)[i] \in R /\ Among(s, S)[j] \in R => i = j
<1> DEFINE q == Among(s, S)
<1>1. PICK e : Origin(e, q, s, Len(s), S)
  BY AmongPlaces
<1> HIDE DEF q
<1>2. /\ q \in Seq(ToSet(s)) /\ e \in [1..Len(q) -> 1..Len(s)]
      /\ \A k \in 1..Len(q) : q[k] = s[e[k]]
      /\ \A j, k \in 1..Len(q) : j < k => e[j] < e[k]
  BY <1>1 DEF Origin
<1>3. Len(q) \in Nat /\ DOMAIN q = 1..Len(q) /\ Len(s) \in Nat /\ DOMAIN s = 1..Len(s)
  BY <1>2 DEF IsList
<1>4. ASSUME NEW i \in DOMAIN q, NEW j \in DOMAIN q, q[i] \in R, q[j] \in R PROVE i = j
  <2>1. i \in 1..Len(q) /\ j \in 1..Len(q) /\ e[i] \in 1..Len(s) /\ e[j] \in 1..Len(s)
    BY <1>2, <1>3
  <2>2. e[i] = e[j]
    BY <1>2, <1>3, <1>4, <2>1
  <2>3. i \in Nat /\ j \in Nat /\ e[i] \in Nat
    BY <1>3, <2>1
  <2>4. i < j => e[i] < e[i]
    BY <1>2, <2>1, <2>2
  <2>5. j < i => e[i] < e[i]
    BY <1>2, <2>1, <2>2
  <2> QED BY <2>3, <2>4, <2>5
<1> QED BY <1>4 DEF q

\* Lists of lists: if only one part has what counts, the whole has it as often.
LEMMA FlatOne ==
  ASSUME NEW T, NEW ss \in Seq(Seq(T)), NEW S, NEW k \in 1..Len(ss),
         \A i \in 1..Len(ss) : i # k => Count(ss[i], S) = 0
  PROVE  Count(FlattenSeq(ss), S) = Count(ss[k], S)
<1> DEFINE N == Len(ss)
           c == Count(ss[k], S)
<1>1. N \in Nat /\ k \in Nat /\ k \in 1..N /\ ~(N < k)
  OBVIOUS
<1>p. \A i \in 1..N : ss[i] \in Seq(T) /\ (i # k => Count(ss[i], S) = 0)
  OBVIOUS
<1>2. PICK f \in [Nat -> Seq(T)] :
         /\ f[0] = <<>>
         /\ \A n \in Nat : n < Len(ss) => f[n + 1] = f[n] \o ss[n + 1]
         /\ FlattenSeq(ss) = f[Len(ss)]
  BY FlattenRounds
<1> DEFINE P == {n \in Nat : Count(f[n], S) = IF n < k THEN 0 ELSE c}
<1>3. 0 \in P
  <2>1. \A i \in DOMAIN <<>> : <<>>[i] \notin S
    OBVIOUS
  <2>2. Count(f[0], S) = 0
    BY <1>2, <2>1, NoneCounts
  <2>3. 0 < k
    BY <1>1
  <2> QED BY <2>2, <2>3
<1>4. ASSUME NEW n \in 0..N, n \in P, n < N PROVE n + 1 \in P
  <2>1. n \in Nat /\ n + 1 \in Nat /\ n + 1 \in 1..N
    <3> HIDE DEF N, P
    <3> QED BY <1>1, <1>4
  <2>2. f[n + 1] = f[n] \o ss[n + 1]
    BY <1>2, <1>4, <2>1
  <2>3. /\ Count(f[n], S) \in Nat /\ Count(ss[n + 1], S) \in Nat
        /\ Count(f[n + 1], S) = Count(f[n], S) + Count(ss[n + 1], S)
    <3>1. PICK q \in Seq(T), r \in Seq(T) : q = f[n] /\ r = ss[n + 1]
      BY <1>2, <1>p, <2>1
    <3>2. Count(q, S) \in Nat /\ Count(r, S) \in Nat /\ Count(q \o r, S) = Count(q, S) + Count(r, S)
      BY CountConcat
    <3> QED BY <2>2, <3>1, <3>2
  <2>4. Count(f[n], S) = IF n < k THEN 0 ELSE c
    BY <1>4
  <2>5. Count(ss[n + 1], S) = IF n + 1 = k THEN c ELSE 0
    BY <1>p, <2>1
  <2>6. Count(f[n + 1], S) = IF n + 1 < k THEN 0 ELSE c
    <3> DEFINE x == Count(f[n], S)
               y == Count(ss[n + 1], S)
               z == Count(f[n + 1], S)
    <3>1. x \in Nat /\ y \in Nat /\ z = x + y /\ x = (IF n < k THEN 0 ELSE c) /\ y = (IF n + 1 = k THEN c ELSE 0)
      BY <2>3, <2>4, <2>5
    <3> HIDE DEF x, y, z, c, N
    <3>2. CASE n + 1 < k
      BY <1>1, <2>1, <3>1, <3>2 DEF z
    <3>3. CASE n + 1 = k
      <4>1. n < k /\ ~(n + 1 < k)
        BY <1>1, <2>1, <3>3
      <4>2. x = 0 /\ y = c
        BY <3>1, <3>3, <4>1
      <4> QED BY <3>1, <4>1, <4>2 DEF z
    <3>4. CASE k < n + 1
      <4>1. ~(n < k) /\ ~(n + 1 < k) /\ n + 1 # k
        BY <1>1, <2>1, <3>4
      <4>2. x = c /\ y = 0
        BY <3>1, <4>1
      <4> QED BY <3>1, <4>1, <4>2 DEF z
    <3>5. n + 1 < k \/ n + 1 = k \/ k < n + 1
      BY <1>1, <2>1
    <3> QED BY <3>2, <3>3, <3>4, <3>5 DEF z
  <2> QED BY <2>1, <2>6
<1>5. N \in P
  <2>1. N \in 0..N
    BY <1>1
  <2> HIDE DEF P, N
  <2> QED BY <1>1, <1>3, <1>4, <2>1, UpToInd
<1> QED BY <1>1, <1>2, <1>5

\* If names behind x lead where they lead behind z, so they do behind both with y.
LEMMA Behind ==
  ASSUME NEW T, NEW x \in Seq(T), NEW y \in Seq(T), NEW z \in Seq(T), NEW v \in Seq(T),
         \A w \in Seq(T) : Clean(x \o w) = Clean(z \o w)
  PROVE  Clean(Clean(x \o y) \o v) = Clean((z \o y) \o v)
<1>1. x \o y \in Seq(T) /\ y \o v \in Seq(T)
  OBVIOUS
<1>2. (x \o y) \o v = x \o (y \o v)
  BY Joined
<1>3. (z \o y) \o v = z \o (y \o v)
  BY Joined
<1>4. Clean(Clean(x \o y) \o v) = Clean((x \o y) \o v)
  BY <1>1, CleanJoin
<1>5. Clean(x \o (y \o v)) = Clean(z \o (y \o v))
  BY <1>1
<1> QED BY <1>2, <1>3, <1>4, <1>5

\* base goes from b through one list of names after the other.
Bases(base, b, bs) == base = [n \in 0..Len(bs) |-> IF n = 0 THEN b ELSE Clean(base[n - 1] \o bs[n])]

\* Names below the last of these bases lead where they lead behind all the names.
LEMMA BasesJoin ==
  ASSUME NEW T, NEW b \in Seq(T), NEW bs \in Seq(Seq(T)), NEW u \in Seq(T)
  PROVE  /\ \E g : Bases(g, b, bs)
         /\ \A base : Bases(base, b, bs) => Clean(base[Len(bs)] \o u) = Clean(FlattenSeq(<<b>> \o bs) \o u)
<1> DEFINE N == Len(bs)
           W == Seq(T)
           step == [n \in 1..N |-> [w \in W |-> Clean(w \o bs[n])]]
<1>1. N \in Nat /\ b \in W /\ \A n \in 1..N : bs[n] \in W
  OBVIOUS
<1>2. \E g : Bases(g, b, bs)
  <2>1. step \in [1..N -> [W -> W]]
    <3>1. \A w \in W, v \in W : w \o v \in W
      OBVIOUS
    <3>2. \A w \in W, v \in W : Clean(w \o v) \in W
      <4> HIDE DEF N
      <4> QED BY <3>1, CleanTwice
    <3> HIDE DEF N, W
    <3> QED BY <1>1, <3>2
  <2>2. PICK g : Reads(g, W, b, N, step)
    <3> HIDE DEF N, W, step
    <3> QED BY <1>1, <2>1, ReadUpTo
  <2>3. g \in [0..N -> W] /\ g = [n \in 0..N |-> IF n = 0 THEN b ELSE step[n][g[n - 1]]]
    BY <2>2 DEF Reads
  <2>4. ASSUME NEW n \in 0..N, n # 0 PROVE step[n][g[n - 1]] = Clean(g[n - 1] \o bs[n])
    <3>1. n \in 1..N /\ n - 1 \in 0..N
      BY <1>1, <2>4
    <3>2. g[n - 1] \in W
      BY <2>3, <3>1
    <3> HIDE DEF N, W
    <3> QED BY <3>1, <3>2
  <2>5. g = [n \in 0..N |-> IF n = 0 THEN b ELSE Clean(g[n - 1] \o bs[n])]
    <3> HIDE DEF step, N, W
    <3> QED BY <2>3, <2>4
  <2> QED BY <2>5 DEF Bases
<1>3. ASSUME NEW base, Bases(base, b, bs) PROVE Clean(base[N] \o u) = Clean(FlattenSeq(<<b>> \o bs) \o u)
  <2> DEFINE ss == <<b>> \o bs
  <2>1. ss \in Seq(Seq(T)) /\ Len(ss) = N + 1 /\ ss[1] = b /\ \A n \in 1..N : ss[n + 1] = bs[n]
    OBVIOUS
  <2> HIDE DEF ss
  <2>2. PICK f \in [Nat -> Seq(T)] :
           /\ f[0] = <<>>
           /\ \A n \in Nat : n < Len(ss) => f[n + 1] = f[n] \o ss[n + 1]
           /\ FlattenSeq(ss) = f[Len(ss)]
    BY <2>1, FlattenRounds
  <2>3. f[1] = b
    <3>1. 0 < Len(ss) /\ 0 \in Nat
      BY <1>1, <2>1
    <3>2. f[0 + 1] = f[0] \o ss[0 + 1]
      BY <2>2, <3>1, Zenon
    <3>4. 0 + 1 = 1
      OBVIOUS
    <3>3. <<>> \o b = b
      BY <1>1
    <3> QED BY <2>1, <2>2, <3>2, <3>3, <3>4
  <2>4. base = [n \in 0..N |-> IF n = 0 THEN b ELSE Clean(base[n - 1] \o bs[n])]
    BY <1>3 DEF Bases
  <2>5. /\ 0 \in 0..N
        /\ \A n \in 0..N : n < N => n \in Nat /\ n + 1 \in 0..N /\ n + 1 \in 1..N /\ n + 1 # 0 /\ n + 1 - 1 = n /\ n + 1 < N + 1
    <3>1. N \in Nat
      BY <1>1
    <3> HIDE DEF N
    <3> QED BY <3>1
  <2> DEFINE Q == {n \in 0..N : base[n] \in W /\ \A v \in W : Clean(base[n] \o v) = Clean(f[n + 1] \o v)}
  <2>6. 0 \in Q
    <3>1. base[0] = b
      BY <2>4, <2>5
    <3>2. 0 + 1 = 1
      OBVIOUS
    <3> HIDE DEF W, N
    <3> QED BY <1>1, <2>3, <2>5, <3>1, <3>2
  <2>7. ASSUME NEW n \in 0..N, n \in Q, n < N PROVE n + 1 \in Q
    <3>1. base[n + 1] = Clean(base[n] \o bs[n + 1])
      <4> DEFINE Rec == [m \in 0..N |-> IF m = 0 THEN b ELSE Clean(base[m - 1] \o bs[m])]
      <4>1. n + 1 \in 0..N /\ n + 1 # 0 /\ n + 1 - 1 = n
        BY <2>5, <2>7
      <4>2. Rec[n + 1] = Clean(base[n] \o bs[n + 1])
        <5> HIDE DEF N
        <5> QED BY <4>1
      <4>3. base = Rec
        BY <2>4
      <4> HIDE DEF Rec
      <4> QED BY <4>2, <4>3
    <3>2. f[n + 1 + 1] = f[n + 1] \o bs[n + 1]
      <4>1. n + 1 \in Nat /\ n + 1 < Len(ss) /\ n + 1 \in 1..N
        BY <1>1, <2>1, <2>5, <2>7
      <4> HIDE DEF N
      <4> QED BY <2>1, <2>2, <4>1
    <3>3. base[n] \in W /\ bs[n + 1] \in W /\ f[n + 1] \in W /\ n + 1 \in 0..N
      <4> HIDE DEF N
      <4> QED BY <1>1, <2>2, <2>5, <2>7
    <3>4. base[n + 1] \in W
      <4>1. base[n] \o bs[n + 1] \in W
        BY <3>3
      <4> QED BY <3>1, <4>1, CleanTwice
    <3>5. ASSUME NEW v \in W PROVE Clean(base[n + 1] \o v) = Clean(f[n + 1 + 1] \o v)
      <4> DEFINE x == base[n]
                 y == bs[n + 1]
                 z == f[n + 1]
      <4>1. x \in Seq(T) /\ y \in Seq(T) /\ z \in Seq(T) /\ v \in Seq(T)
        BY <3>3
      <4>2. \A w \in W : Clean(x \o w) = Clean(z \o w)
        BY <2>7
      <4> HIDE DEF x, y, z
      <4>3. Clean(Clean(x \o y) \o v) = Clean((z \o y) \o v)
        BY <4>1, <4>2, Behind
      <4>6. base[n + 1] = Clean(x \o y) /\ f[n + 1 + 1] = z \o y
        BY <3>1, <3>2 DEF x, y, z
      <4> QED BY <4>3, <4>6
    <3> HIDE DEF W, N
    <3> QED BY <3>3, <3>4, <3>5
  <2>8. N \in Q
    <3>1. N \in 0..N
      BY <1>1
    <3> HIDE DEF Q, N
    <3> QED BY <1>1, <2>6, <2>7, <3>1, UpToInd
  <2>9. Clean(base[N] \o u) = Clean(f[N + 1] \o u)
    <3> HIDE DEF N
    <3> QED BY <2>8
  <2> QED BY <2>1, <2>2, <2>9 DEF ss
<1> QED BY <1>2, <1>3

\* Stage by stage: what each step keeps holds in the end.
LEMMA Stages ==
  ASSUME NEW N \in Nat, NEW f, NEW Inv, f[0] \in Inv[0],
         \A n \in 1..N : f[n - 1] \in Inv[n - 1] => f[n] \in Inv[n]
  PROVE  f[N] \in Inv[N]
<1> DEFINE P == {n \in 0..N : f[n] \in Inv[n]}
<1>1. 0 \in P
  OBVIOUS
<1>2. ASSUME NEW n \in 0..N, n \in P, n < N PROVE n + 1 \in P
  <2>1. n + 1 \in 1..N /\ n + 1 \in 0..N /\ n + 1 - 1 = n
    BY <1>2
  <2> QED BY <1>2, <2>1
<1>3. N \in P
  <2> HIDE DEF P
  <2> QED BY <1>1, <1>2, UpToInd
<1> QED BY <1>3

\* The head of three lists is in the first that is not empty.
LEMMA HeadOfThree ==
  ASSUME NEW T, NEW a \in Seq(T), NEW b \in Seq(T), NEW c \in Seq(T)
  PROVE  /\ a # <<>> => Head((a \o b) \o c) \in ToSet(a)
         /\ a = <<>> /\ b # <<>> => Head((a \o b) \o c) \in ToSet(b)
<1>1. ASSUME NEW q \in Seq(T), q # <<>> PROVE q[1] \in ToSet(q) /\ 1 \in DOMAIN q
  <2>1. 1 \in DOMAIN q
    BY <1>1
  <2> QED BY <2>1 DEF ToSet
<1>2. a # <<>> => Head((a \o b) \o c) = a[1]
  OBVIOUS
<1>3. a = <<>> /\ b # <<>> => Head((a \o b) \o c) = b[1]
  OBVIOUS
<1> QED BY <1>1, <1>2, <1>3

\* Lists of lists: if all of S is in one part, the whole has of S what the part has.
LEMMA OnePart ==
  ASSUME NEW T, NEW ss \in Seq(Seq(T)), NEW S, NEW k \in 1..Len(ss),
         \A i \in 1..Len(ss) : i # k => ToSet(ss[i]) \cap S = {}
  PROVE  /\ Count(FlattenSeq(ss), S) = Count(ss[k], S)
         /\ ToSet(FlattenSeq(ss)) \cap S = ToSet(ss[k]) \cap S
<1>1. DOMAIN ss = 1..Len(ss)
  OBVIOUS
<1>2. ASSUME NEW i \in 1..Len(ss), i # k PROVE Count(ss[i], S) = 0
  <2>1. ToSet(ss[i]) \cap S = {}
    BY <1>2
  <2>2. \A j \in DOMAIN ss[i] : ss[i][j] \notin S
    BY <2>1 DEF ToSet
  <2> QED BY <2>2, NoneCounts
<1>3. Count(FlattenSeq(ss), S) = Count(ss[k], S)
  BY <1>2, FlatOne
<1>4. ToSet(FlattenSeq(ss)) = UNION {ToSet(ss[i]) : i \in DOMAIN ss}
  BY FlattenIs
<1>5. ToSet(FlattenSeq(ss)) \cap S = ToSet(ss[k]) \cap S
  BY <1>1, <1>4
<1> QED BY <1>3, <1>5

\* A list, all of it in S or none.
LEMMA Single ==
  ASSUME NEW x, NEW S
  PROVE  /\ Count(<<>>, S) = 0 /\ ToSet(<<>>) = {}
         /\ x \in S => Count(<<x>>, S) = 1
         /\ ToSet(<<x>>) = {x}
<1>1. DOMAIN <<>> = {}
  OBVIOUS
<1>2. Count(<<>>, S) = 0 /\ ToSet(<<>>) = {}
  BY <1>1, NoneCounts DEF ToSet
<1> DEFINE q == <<x>>
<1>3. DOMAIN q = {1} /\ q[1] = x
  OBVIOUS
<1> HIDE DEF q
<1>4. x \in S => Count(q, S) = 1
  BY <1>3, OneCounts
<1>5. ToSet(q) = {x}
  BY <1>3 DEF ToSet
<1> QED BY <1>2, <1>4, <1>5 DEF q
================================================================================
