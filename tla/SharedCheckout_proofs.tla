-------------------------- MODULE SharedCheckout_proofs --------------------------
(***************************************************************************)
(* Why a green fetch can be trusted although invocations share a checkout. *)
(* An invocation is alone while nobody else has moved the checkout it took *)
(* or written into the test data of its suite.  Then the whole commit it   *)
(* pinned is checked out (TreeInv) and every file of that commit is still  *)
(* to be copied or lies where it belongs (CopyInv), whence FetchedInv when *)
(* it ends.  Every step of another invocation leaves it so or ends its     *)
(* being alone (Peaceful, Others); a step of its own is a lemma per action.*)
(* That killed checkouts spoil nothing rests on git's lock: at most one    *)
(* checkout is under way and nobody takes a locked one (HolderInv, TypeOK).*)
(***************************************************************************)
EXTENDS SharedCheckout, FiniteSetTheorems, SequenceTheorems, TLAPS

Fetching == {"stat", "clone", "cloning", "fetch", "checkout", "checking out"}

\* What suite s reads of commit c, and where its files are from.
TreeOf(s, c) == IF s \in Shared THEN Tree[c] ELSE Committed
OriginOf(p) == IF This(p) \in Shared THEN Pin(p) ELSE Here

\* Only a shared suite goes through git, and only for a commit upstream has.
PinInv(p) ==
  /\ At(p, "list") \/ At(p, "copy") \/ proc[p].pc \in Fetching => proc[p].todo # <<>>
  /\ proc[p].pc \in Fetching => This(p) \in Shared
  /\ At(p, "checking out") => Pin(p) \in Commit

\* An undisturbed fetch has the whole of the commit it wants in the checkout.
TreeInv(p) ==
  (p \in Working /\ proc[p].alone /\ This(p) \in Shared) =>
    Pin(p) \in Commit /\ work = CheckedOut(Pin(p))

\* And every file of it is still to be copied, or lies where it belongs.
CopyInv(p) ==
  (At(p, "copy") /\ proc[p].alone) =>
    \A f \in ToSet(Copies(This(p), TreeOf(This(p), OriginOf(p)))) :
      \/ f \in ToSet(proc[p].files)
      \/ f \in DOMAIN testdata[This(p)] /\ testdata[This(p)][f] = OriginOf(p)

\* The cases about to be written, or compared, are those of a whole commit.
CasesInv(p) ==
  (At(p, "table") /\ proc[p].from # None) =>
    /\ proc[p].from \in (IF This(p) \in Shared THEN Commit ELSE {Here})
    /\ proc[p].cases = Cases(This(p), TreeOf(This(p), proc[p].from))

\* The types of one invocation.
ProcOK(p) ==
  /\ proc[p] \in Invocation
  /\ proc[p].pc \in Ended \cup {"next"} \/ (proc[p].todo # <<>> /\ This(p) \in DOMAIN proc[p].lock)
  /\ locked /\ p \in Sharing => ~proc[p].alone

PInv(p) == ProcOK(p) /\ PinInv(p) /\ TreeInv(p) /\ CopyInv(p) /\ CasesInv(p)

\* The two histories, as the properties need them.
FetchedInv ==
  \A s \in Suite : fetched[s] # None =>
    /\ fetched[s] \in (IF s \in Shared THEN Commit ELSE {Here})
    /\ \A f \in ToSet(Copies(s, TreeOf(s, fetched[s]))) :
         f \in DOMAIN testdata[s] /\ testdata[s][f] = fetched[s]
VerifiedInv ==
  \A s \in Suite : verified[s] # None =>
    /\ verified[s] \in (IF s \in Shared THEN Commit ELSE {Here})
    /\ table[s] = Cases(s, TreeOf(s, verified[s]))

\* git holds the index for one checkout at a time.
HolderInv ==
  \A p \in Proc : At(p, "checking out") =>
    locked /\ \A q \in Proc : At(q, "checking out") => q = p

IInv == TypeOK /\ (\A p \in Proc : PInv(p)) /\ HolderInv /\ FetchedInv /\ VerifiedInv

\* The types of the rest.
TreeOK ==
  /\ repo \in {"absent", "foreign", "broken", "repo"} /\ locked \in BOOLEAN
  /\ head \in Commit \cup {None}
  /\ \A f \in DOMAIN work : work[f] \in Commit /\ f \in Tree[work[f]]
OutOK ==
  /\ DOMAIN testdata = Suite /\ table \in [Suite -> SUBSET SUBSET Named]
  /\ \A s \in Suite : \A f \in DOMAIN testdata[s] : testdata[s][f] \in Commit \cup {Torn, Here}
  /\ fetched \in [Suite -> Commit \cup {None, Here}] /\ verified \in [Suite -> Commit \cup {None, Here}]

\* A step of another invocation leaves q as it was, or alone no longer; if it is
\* still alone, the step has left it its checkout and its files.
Peaceful(q) ==
  /\ proc'[q] = proc[q] \/ proc'[q] = [proc[q] EXCEPT !.alone = FALSE]
  /\ (q \in Working /\ proc'[q].alone) =>
       /\ This(q) \in Shared => work' = work /\ (locked' => locked)
       /\ testdata'[This(q)] = testdata[This(q)]

-------------------------------------------------------------------------------
(* What the suites make of a tree.                                         *)

\* Sorting paths neither loses nor invents one: the n-th path sorted is the one
\* at the place of rank n, and ranks are a bijection.
LEMMA SortSet ==
  ASSUME NEW files
  PROVE  /\ Sort(files) \in Seq(ToSet(Paths))
         /\ ToSet(Sort(files)) = files \cap ToSet(Paths)
  <1> DEFINE Places == {i \in DOMAIN Paths : Paths[i] \in files}
             Upto(i) == {j \in Places : j <= i}
             N == Cardinality(Places)
             rank == [i \in Places |-> Cardinality(Upto(i))]
             Nth(n) == CHOOSE i \in Places : Cardinality(Upto(i)) = n
  <1>1. /\ Len(Paths) \in Nat /\ DOMAIN Paths = 1..Len(Paths)
        /\ \A i \in DOMAIN Paths : Paths[i] \in ToSet(Paths)
    BY SharedCheckoutAssumption, LenProperties DEF ToSet
  <1>2. IsFiniteSet(Places) /\ N \in Nat /\ Places \subseteq Nat
    <2>1. IsFiniteSet(1..Len(Paths)) /\ Places \in SUBSET (1..Len(Paths))
      BY <1>1, FS_Interval
    <2>2. Places \subseteq Nat
      BY <1>1
    <2> HIDE DEF Places
    <2>3. IsFiniteSet(Places)
      BY <2>1, FS_Subset
    <2> QED
      BY <2>2, <2>3, FS_CardinalityType
  <1>3. Sort(files) = [n \in 1..N |-> Paths[Nth(n)]]
    BY DEF Sort
  <1>4. \A i \in Places : i \in DOMAIN Paths /\ Paths[i] \in files
    OBVIOUS
  <1>5. \A x \in files \cap ToSet(Paths) : \E i \in Places : Paths[i] = x
    BY DEF ToSet
  <1> HIDE DEF Places
  <1>6. \A i \in Places :
          /\ Upto(i) \in SUBSET Places /\ IsFiniteSet(Upto(i))
          /\ i \in Upto(i) /\ Cardinality(Upto(i)) \in 1..N
    <2> SUFFICES ASSUME NEW i \in Places
                 PROVE  /\ Upto(i) \in SUBSET Places /\ IsFiniteSet(Upto(i))
                        /\ i \in Upto(i) /\ Cardinality(Upto(i)) \in 1..N
      OBVIOUS
    <2>1. Upto(i) \in SUBSET Places /\ i \in Upto(i)
      BY <1>2
    <2> HIDE DEF Upto
    <2>2. IsFiniteSet(Upto(i)) /\ Cardinality(Upto(i)) <= N
      BY <1>2, <2>1, FS_Subset
    <2>3. Cardinality(Upto(i)) \in Nat /\ Cardinality(Upto(i)) # 0
      BY <2>1, <2>2, FS_CardinalityType, FS_EmptySet
    <2> HIDE DEF N
    <2> QED
      BY <1>2, <2>1, <2>2, <2>3
  <1>7. ASSUME NEW i \in Places, NEW j \in Places, i < j
        PROVE  Cardinality(Upto(i)) # Cardinality(Upto(j))
    <2>1. Upto(i) \in SUBSET Upto(j) /\ j \in Upto(j) /\ j \notin Upto(i)
      <3>1. i \in Nat /\ j \in Nat /\ i <= j /\ j <= j /\ ~(j <= i)
        BY <1>2, <1>7
      <3>2. \A k \in Upto(i) : k \in Places /\ k <= j
        <4> SUFFICES ASSUME NEW k \in Places, k <= i PROVE k <= j
          OBVIOUS
        <4>1. k \in Nat
          BY <1>2
        <4> QED
          BY <3>1, <4>1
      <3> QED
        BY <3>1, <3>2
    <2>2. IsFiniteSet(Upto(j))
      BY <1>6
    <2> HIDE DEF Upto
    <2> QED
      BY <2>1, <2>2, FS_Subset
  <1>8. rank \in Injection(Places, 1..N)
    <2>1. rank \in [Places -> 1..N]
      BY <1>6
    <2>2. \A i, j \in Places : rank[i] = rank[j] => i = j
      <3> SUFFICES ASSUME NEW i \in Places, NEW j \in Places, i # j PROVE rank[i] # rank[j]
        OBVIOUS
      <3>1. i < j \/ j < i
        BY <1>2
      <3> QED
        BY <1>7, <3>1
    <2> HIDE DEF rank
    <2> QED
      BY <2>1, <2>2 DEF Injection, IsInjective
  <1>9. rank \in Surjection(Places, 1..N)
    <2>1. IsFiniteSet(1..N) /\ Cardinality(1..N) = N
      <3>1. IsFiniteSet(1..N) /\ Cardinality(1..N) = IF 1 > N THEN 0 ELSE N - 1 + 1
        BY <1>2, FS_Interval
      <3> HIDE DEF N
      <3> QED
        BY <1>2, <3>1
    <2> HIDE DEF rank
    <2> QED
      BY <1>8, <2>1, FS_Injection
  <1>10. \A n \in 1..N : Nth(n) \in Places /\ Cardinality(Upto(Nth(n))) = n
    <2>1. \A n \in 1..N : \E i \in Places : Cardinality(Upto(i)) = n
      BY <1>9 DEF Surjection
    <2> QED
      BY <2>1
  <1>11. \A i \in Places : Nth(Cardinality(Upto(i))) = i
    <2>1. \A i, j \in Places : Cardinality(Upto(i)) = Cardinality(Upto(j)) => i = j
      BY <1>8 DEF Injection, IsInjective
    <2> QED
      BY <1>6, <1>10, <2>1
  <1> HIDE DEF Upto, N, Nth
  <1>12. \A n \in 1..N : Paths[Nth(n)] \in files \cap ToSet(Paths)
    BY <1>1, <1>4, <1>10
  <1>13. Sort(files) \in Seq(ToSet(Paths))
    <2>1. [n \in 1..N |-> Paths[Nth(n)]] \in [1..N -> ToSet(Paths)]
      BY <1>12
    <2> QED
      BY <1>2, <1>3, <2>1, SeqDef
  <1>14. ToSet(Sort(files)) = {Paths[Nth(n)] : n \in 1..N}
    BY <1>3 DEF ToSet
  <1>15. files \cap ToSet(Paths) \subseteq ToSet(Sort(files))
    <2> SUFFICES ASSUME NEW x \in files \cap ToSet(Paths)
                 PROVE  \E n \in 1..N : Paths[Nth(n)] = x
      BY <1>14
    <2>1. PICK i \in Places : Paths[i] = x
      BY <1>5
    <2> QED
      BY <1>6, <1>11, <2>1
  <1> QED
    BY <1>12, <1>13, <1>14, <1>15

\* The elements of a queue of files are its head and those of its tail.
LEMMA HeadAndTail ==
  ASSUME NEW q \in Seq(Path), q # <<>>
  PROVE  Head(q) \in Path /\ Tail(q) \in Seq(Path) /\ ToSet(q) = {Head(q)} \cup ToSet(Tail(q))
  <1>1. /\ Head(q) \in Path /\ Tail(q) \in Seq(Path) /\ Len(Tail(q)) = Len(q) - 1
        /\ \A i \in 1..Len(Tail(q)) : Tail(q)[i] = q[i + 1]
        /\ Len(q) \in Nat /\ DOMAIN q = 1..Len(q) /\ DOMAIN Tail(q) = 1..Len(Tail(q))
    BY HeadTailProperties, LenProperties
  <1>2. Head(q) = q[1] /\ 1 \in DOMAIN q
    BY <1>1, EmptySeq
  <1>3. ASSUME NEW i \in DOMAIN q PROVE q[i] \in {Head(q)} \cup ToSet(Tail(q))
    <2>1. CASE i = 1
      BY <1>2, <2>1
    <2>2. CASE i # 1
      <3>1. i - 1 \in 1..Len(Tail(q)) /\ (i - 1) + 1 = i
        BY <1>1, <2>2
      <3>2. Tail(q)[i - 1] = q[i]
        BY <1>1, <3>1
      <3> QED
        BY <1>1, <3>1, <3>2 DEF ToSet
    <2> QED
      BY <2>1, <2>2
  <1>4. ASSUME NEW i \in DOMAIN Tail(q) PROVE Tail(q)[i] \in ToSet(q)
    <2>1. i + 1 \in DOMAIN q /\ Tail(q)[i] = q[i + 1]
      BY <1>1
    <2> QED
      BY <2>1 DEF ToSet
  <1>5. ToSet(q) \subseteq {Head(q)} \cup ToSet(Tail(q))
    BY <1>3 DEF ToSet
  <1>6. {Head(q)} \cup ToSet(Tail(q)) \subseteq ToSet(q)
    BY <1>2, <1>4 DEF ToSet
  <1> QED
    BY <1>1, <1>5, <1>6

LEMMA AppendSet ==
  ASSUME NEW q \in Seq(ToSet(Paths)), NEW x \in Path
  PROVE  Append(q, x) \in Seq(Path) /\ ToSet(Append(q, x)) = ToSet(q) \cup {x}
  <1>1. q \in Seq(Path)
    BY SeqMonotonic DEF Path
  <1>2. /\ Append(q, x) \in Seq(Path) /\ Len(Append(q, x)) = Len(q) + 1
        /\ \A i \in 1..Len(q) : Append(q, x)[i] = q[i]
        /\ Append(q, x)[Len(q) + 1] = x
        /\ Len(q) \in Nat /\ DOMAIN q = 1..Len(q) /\ DOMAIN Append(q, x) = 1..(Len(q) + 1)
    BY <1>1, AppendProperties, LenProperties
  <1> DEFINE a == Append(q, x)
  <1> HIDE DEF a
  <1>3. ToSet(a) \subseteq ToSet(q) \cup {x}
    <2> SUFFICES ASSUME NEW i \in DOMAIN a PROVE a[i] \in ToSet(q) \cup {x}
      BY DEF ToSet
    <2>1. i \in 1..Len(q) \/ i = Len(q) + 1
      BY <1>2 DEF a
    <2> QED
      BY <1>2, <2>1 DEF a, ToSet
  <1>4. ToSet(q) \cup {x} \subseteq ToSet(a)
    <2>1. \A i \in DOMAIN q : i \in DOMAIN a /\ a[i] = q[i]
      BY <1>2 DEF a
    <2>2. Len(q) + 1 \in DOMAIN a /\ a[Len(q) + 1] = x
      BY <1>2 DEF a
    <2> QED
      BY <2>1, <2>2 DEF ToSet
  <1> QED
    BY <1>2, <1>3, <1>4 DEF a

\* A fetch copies every file of the tree that a case of the suite names.
LEMMA CopiesCoverCases ==
  ASSUME NEW s \in Suite, NEW t \in SUBSET ToSet(Paths)
  PROVE  /\ Copies(s, t) \in Seq(Path)
         /\ Cases(s, t) \in SUBSET SUBSET Named
         /\ \A c \in Cases(s, t) : c \cap t \subseteq ToSet(Copies(s, t))
  <1>1. \A dir : VectorFiles(t, dir) \subseteq t /\ In(t, dir) \subseteq t
    BY DEF VectorFiles, In
  <1>2. t \subseteq Named /\ t \subseteq Path
    BY DEF Named, Path
  <1>3. \A files \in SUBSET t : Sort(files) \in Seq(Path) /\ ToSet(Sort(files)) = files
    <2> SUFFICES ASSUME NEW files \in SUBSET t
                 PROVE  Sort(files) \in Seq(Path) /\ ToSet(Sort(files)) = files
      OBVIOUS
    <2>1. Sort(files) \in Seq(ToSet(Paths)) /\ ToSet(Sort(files)) = files \cap ToSet(Paths)
      BY SortSet
    <2>2. ToSet(Paths) \subseteq Path
      BY DEF Path
    <2> QED
      BY <2>1, <2>2, SeqMonotonic
  <1>4. CASE s = "xmldsig11"
    <2>1. /\ Copies(s, t) = Sort(VectorFiles(t, "oracle"))
          /\ Cases(s, t) = {{p} : p \in VectorFiles(t, "oracle")}
      BY <1>4 DEF Copies, Cases
    <2> QED
      BY <1>1, <1>2, <1>3, <2>1
  <1>5. CASE s = "xmlenc11"
    <2>1. /\ Copies(s, t) = Sort(ArtifactFiles(t))
          /\ Cases(s, t) = {{p} \cup KeyFile(p) : p \in VectorFiles(t, "core")}
      BY <1>5 DEF Copies, Cases
    <2>2. ArtifactFiles(t) \subseteq t
      BY <1>1 DEF ArtifactFiles
    <2>3. \A p \in VectorFiles(t, "core") : p \in ArtifactFiles(t) /\ p \in Named
      BY <1>1, <1>2 DEF ArtifactFiles
    <2>4. \A p : KeyFile(p) \cap t \subseteq ArtifactFiles(t) /\ KeyFile(p) \subseteq Named
      BY DEF KeyFile, ArtifactFiles, In, Named
    <2> QED
      BY <1>3, <2>1, <2>2, <2>3, <2>4
  <1>6. CASE s = "merlinxmldsig"
    <2>1. /\ Copies(s, t) = Append(Sort(CopyRels(t)), <<"ext", "xml-stylesheet">>)
          /\ Cases(s, t) = {{p} : p \in VectorFiles(t, "merlin")}
      BY <1>6 DEF Copies, Cases
    <2>2. Sort(CopyRels(t)) \in Seq(ToSet(Paths)) /\ ToSet(Sort(CopyRels(t))) = CopyRels(t) \cap ToSet(Paths)
      BY SortSet
    <2>3. <<"ext", "xml-stylesheet">> \in Path
      BY DEF Path
    <2>4. Copies(s, t) \in Seq(Path) /\ ToSet(Sort(CopyRels(t))) \subseteq ToSet(Copies(s, t))
      BY <2>1, <2>2, <2>3, AppendSet
    <2>5. VectorFiles(t, "merlin") \subseteq CopyRels(t)
      BY DEF CopyRels
    <2> QED
      BY <1>1, <1>2, <2>1, <2>2, <2>4, <2>5
  <1>7. CASE s = "xmldsig2ed"
    <2> DEFINE copied == t \ In(t, "README.md")
    <2>1. /\ Copies(s, t) = Sort(copied)
          /\ Cases(s, t) = {C14NReads(p) : p \in C14NCases(t)} \cup {{p} : p \in VectorFiles(t, "xmldsig")}
      BY <1>7 DEF Copies, Cases
    <2>2. \A p \in C14NCases(t) : C14NReads(p) \subseteq Named /\ C14NReads(p) \cap t \subseteq copied
      <3> SUFFICES ASSUME NEW p \in C14NCases(t)
                   PROVE  C14NReads(p) \subseteq Named /\ C14NReads(p) \cap t \subseteq copied
        OBVIOUS
      <3>1. p \in t /\ p[1] = "c14n11"
        BY DEF C14NCases, In
      <3>2. \A x \in C14NReads(p) : x[1] = "c14n11"
        BY <3>1 DEF C14NReads
      <3>3. C14NReads(p) \subseteq Named
        BY <1>2, <3>1 DEF C14NReads, Named
      <3> QED
        BY <3>2, <3>3 DEF In
    <2>3. \A p \in VectorFiles(t, "xmldsig") : p \in copied /\ p \in Named
      BY <1>1, <1>2 DEF VectorFiles, In
    <2>4. Sort(copied) \in Seq(Path) /\ ToSet(Sort(copied)) = copied
      BY <1>3
    <2> HIDE DEF copied
    <2>5. Cases(s, t) \in SUBSET SUBSET Named
      BY <2>1, <2>2, <2>3
    <2>6. \A c \in Cases(s, t) : c \cap t \subseteq copied
      BY <2>1, <2>2, <2>3
    <2> QED
      BY <2>1, <2>4, <2>5, <2>6
  <1> QED
    BY <1>4, <1>5, <1>6, <1>7 DEF Suite, Shared

LEMMA CheckedOutFacts ==
  ASSUME NEW c \in Commit
  PROVE  /\ DOMAIN CheckedOut(c) = Tree[c]
         /\ \A f \in Tree[c] : CheckedOut(c)[f] = c
         /\ Tree[c] \subseteq ToSet(Paths)
  BY SharedCheckoutAssumption DEF CheckedOut

-------------------------------------------------------------------------------
(* Invocations that do not move.                                           *)

LEMMA Strings ==
  /\ Shared \subseteq Suite /\ "xmldsig2ed" \in Suite
  /\ "fetch" # None /\ "generate" # None /\ None # Torn /\ None # Here /\ Torn # Here
  /\ {None, Torn, Here} \cap Commit = {}
  BY SharedCheckoutAssumption DEF Suite, Shared, None, Torn, Here

LEMMA StepOf ==
  ASSUME TypeOK, NEW p \in Proc, NEW r, Step(p, r)
  PROVE  /\ proc' = [proc EXCEPT ![p] = r] /\ proc'[p] = r
         /\ \A q \in Proc \ {p} : proc'[q] = proc[q]
  BY DEF TypeOK, Step

LEMMA DisturbingOf ==
  ASSUME NEW p \in Proc, NEW r, NEW others, Disturbing(p, r, others)
  PROVE  /\ proc' = [q \in Proc |-> proc'[q]] /\ proc'[p] = r
         /\ \A q \in Proc \ {p} :
              proc'[q] = IF q \in others THEN [proc[q] EXCEPT !.alone = FALSE] ELSE proc[q]
  BY DEF Disturbing

\* An invocation whose files and checkout nobody touched, or that knows of it.
LEMMA Others ==
  ASSUME IInv, NEW q \in Proc, Peaceful(q)
  PROVE  PInv(q)'
  <1>1. PInv(q) /\ proc[q] \in Invocation
    BY DEF IInv, PInv, ProcOK
  <1>2. /\ proc'[q].todo = proc[q].todo /\ proc'[q].lock = proc[q].lock
        /\ proc'[q].pc = proc[q].pc /\ proc'[q].files = proc[q].files
        /\ proc'[q].cases = proc[q].cases /\ proc'[q].from = proc[q].from
        /\ proc'[q].alone => proc[q].alone
        /\ proc'[q] \in Invocation
    <2>1. CASE proc'[q] = proc[q]
      BY <1>1, <2>1
    <2>2. CASE proc'[q] = [proc[q] EXCEPT !.alone = FALSE]
      BY <1>1, <2>2 DEF Invocation
    <2> QED
      BY <2>1, <2>2 DEF Peaceful
  <1>3. /\ This(q)' = This(q) /\ Pin(q)' = Pin(q) /\ OriginOf(q)' = OriginOf(q)
        /\ \A l : At(q, l)' <=> At(q, l)
        /\ q \in Working' <=> q \in Working
        /\ q \in Sharing' <=> q \in Sharing
    BY <1>2 DEF This, Pin, OriginOf, At, Working, Sharing
  <1>4. ProcOK(q)'
    <2>1. (locked /\ q \in Sharing => ~proc[q].alone)'
      BY <1>1, <1>2, <1>3 DEF Peaceful, PInv, ProcOK, Sharing
    <2> QED
      BY <1>1, <1>2, <1>3, <2>1 DEF PInv, ProcOK
  <1>5. PinInv(q)'
    BY <1>1, <1>2, <1>3 DEF PInv, PinInv
  <1>6. TreeInv(q)'
    BY <1>1, <1>2, <1>3 DEF PInv, TreeInv, Peaceful
  <1>7. CopyInv(q)'
    <2> SUFFICES ASSUME At(q, "copy"), proc'[q].alone,
                        NEW f \in ToSet(Copies(This(q), TreeOf(This(q), OriginOf(q))))
                 PROVE  \/ f \in ToSet(proc[q].files)
                        \/ f \in DOMAIN testdata'[This(q)] /\ testdata'[This(q)][f] = OriginOf(q)
      BY <1>2, <1>3 DEF CopyInv, TreeOf
    <2>1. q \in Working
      BY DEF At, Working
    <2>2. testdata'[This(q)] = testdata[This(q)]
      BY <2>1 DEF Peaceful
    <2> QED
      BY <1>1, <1>2, <2>2 DEF PInv, CopyInv
  <1>8. CasesInv(q)'
    BY <1>1, <1>2, <1>3 DEF PInv, CasesInv, TreeOf
  <1> QED
    BY <1>4, <1>5, <1>6, <1>7, <1>8 DEF PInv

LEMMA InvocationOf ==
  ASSUME NEW cmd \in {None, "fetch", "generate", "verify"}, NEW todo \in Seq(Suite),
         NEW lock \in Lock, NEW pc \in Control, NEW files \in Seq(Path),
         NEW cases \in SUBSET SUBSET Named, NEW from \in Commit \cup {None, Here},
         NEW alone \in BOOLEAN, NEW r,
         r = [cmd |-> cmd, todo |-> todo, lock |-> lock, pc |-> pc, files |-> files,
              cases |-> cases, from |-> from, alone |-> alone]
  PROVE  r \in Invocation
  BY DEF Invocation

LEMMA IdleOf ==
  Idle \in Invocation /\ \A how \in Ended : [Idle EXCEPT !.pc = how] \in Invocation
  <1>1. NoFiles \in Lock
    <2>1. NoFiles \in [{} -> Commit \cup {None, "unknown"}] /\ {} \in SUBSET Suite
      BY DEF NoFiles
    <2> QED
      BY <2>1 DEF Lock
  <1>2. <<>> \in Seq(Suite) /\ <<>> \in Seq(Path) /\ {} \in SUBSET SUBSET Named
    BY EmptySeq
  <1>3. /\ "ok" \in Control /\ None \in {None, "fetch", "generate", "verify"}
        /\ None \in Commit \cup {None, Here} /\ TRUE \in BOOLEAN
    BY DEF Control, Ended
  <1>4. Idle \in Invocation
    BY <1>1, <1>2, <1>3, InvocationOf, Zenon DEF Idle
  <1> QED
    BY <1>4 DEF Invocation, Control

\* An invocation that ends, well or not.
LEMMA EndOf ==
  ASSUME TypeOK, NEW p \in Proc, NEW how \in Ended, proc'[p] = [Idle EXCEPT !.pc = how]
  PROVE  PInv(p)'
  <1>1. proc'[p] \in Invocation
    BY IdleOf
  <1>2. proc'[p].pc \in Ended
    BY DEF Idle
  <1>3. p \notin Working' /\ p \notin Sharing'
    BY <1>2 DEF Working, Sharing, Ended
  <1>4. ProcOK(p)'
    BY <1>1, <1>2, <1>3 DEF ProcOK
  <1>5. PinInv(p)' /\ CopyInv(p)' /\ CasesInv(p)'
    BY <1>2 DEF PinInv, CopyInv, CasesInv, At, Ended, Fetching
  <1>6. TreeInv(p)'
    BY <1>3 DEF TreeInv
  <1> QED
    BY <1>4, <1>5, <1>6 DEF PInv

\* Only what the step changes besides invocations is left to show.
LEMMA StepByStep ==
  ASSUME IInv, NEW p \in Proc, proc' = [q \in Proc |-> proc'[q]],
         \A q \in Proc \ {p} : Peaceful(q), PInv(p)',
         TreeOK', OutOK', starts' \in 0..MaxStarts, faults' \in 0..MaxFaults,
         HolderInv', FetchedInv', VerifiedInv'
  PROVE  IInv'
  <1>1. \A q \in Proc : PInv(q)'
    BY Others
  <1>2. proc' \in [Proc -> Invocation]
    <2>1. \A q \in Proc : proc'[q] \in Invocation
      BY <1>1 DEF PInv, ProcOK
    <2> QED
      BY <2>1
  <1>3. (locked => \A q \in Sharing : ~proc[q].alone)'
    <2> SUFFICES ASSUME locked', NEW q \in Sharing' PROVE ~proc'[q].alone
      OBVIOUS
    <2>1. q \in Proc
      BY DEF Sharing, Working
    <2> QED
      BY <1>1, <2>1 DEF PInv, ProcOK
  <1>4. \A q \in Proc : (proc[q].pc \in Ended \cup {"next"} \/ (proc[q].todo # <<>> /\ This(q) \in DOMAIN proc[q].lock))'
    BY <1>1 DEF PInv, ProcOK
  <1>5. TypeOK'
    BY <1>2, <1>3, <1>4 DEF TypeOK, TreeOK, OutOK
  <1> QED
    BY <1>1, <1>5 DEF IInv

LEMMA TypeParts == TypeOK => TreeOK /\ OutOK
  BY DEF TypeOK, TreeOK, OutOK

\* Who holds the index, when p does not begin a checkout.
LEMMA HolderStep ==
  ASSUME IInv, NEW p \in Proc, \A q \in Proc \ {p} : Peaceful(q),
         proc'[p].pc # "checking out", locked' = locked \/ At(p, "checking out")
  PROVE  HolderInv' /\ (locked' => locked)
  <1>1. ASSUME NEW q \in Proc, At(q, "checking out")' PROVE q # p /\ At(q, "checking out")
    <2>1. q # p
      BY <1>1 DEF At
    <2>2. proc'[q].pc = proc[q].pc
      <3>1. proc[q] \in Invocation
        BY DEF IInv, PInv, ProcOK
      <3> QED
        BY <2>1, <3>1 DEF Peaceful, Invocation
    <2> QED
      BY <1>1, <2>1, <2>2 DEF At
  <1>2. \A q \in Proc : At(q, "checking out") =>
          locked /\ \A u \in Proc : At(u, "checking out") => u = q
    BY DEF IInv, HolderInv
  <1>3. locked' => locked
    BY <1>2
  <1>4. ASSUME NEW q \in Proc, At(q, "checking out")'
        PROVE  locked' /\ \A u \in Proc : At(u, "checking out")' => u = q
    <2>1. q # p /\ At(q, "checking out")
      BY <1>1, <1>4
    <2>2. locked /\ \A u \in Proc : At(u, "checking out") => u = q
      BY <1>2, <2>1
    <2>3. ~At(p, "checking out")
      BY <2>1, <2>2
    <2> QED
      BY <1>1, <2>2, <2>3
  <1> QED
    BY <1>3, <1>4 DEF HolderInv

\* One invocation moves; the tree, the files and the tables stay.
LEMMA PlainStep ==
  ASSUME IInv, NEW p \in Proc, NEW r, Step(p, r), PInv(p)',
         UNCHANGED <<work, head, out>>, repo' \in {"absent", "foreign", "broken", "repo"},
         locked' \in BOOLEAN, locked' = locked \/ At(p, "checking out"),
         proc'[p].pc # "checking out",
         starts' \in 0..MaxStarts, faults' \in 0..MaxFaults
  PROVE  IInv'
  <1>1. TypeOK /\ TreeOK /\ OutOK
    BY TypeParts DEF IInv
  <1>2. proc' = [q \in Proc |-> proc'[q]] /\ \A q \in Proc \ {p} : proc'[q] = proc[q]
    BY <1>1, StepOf DEF TypeOK
  <1>3. UNCHANGED <<work, head, testdata, table, fetched, verified>>
    BY DEF out
  <1>4. \A q \in Proc \ {p} : Peaceful(q)
    <2>1. locked' => locked
      BY DEF IInv, HolderInv
    <2> QED
      BY <1>2, <1>3, <2>1 DEF Peaceful
  <1>5. TreeOK' /\ OutOK'
    BY <1>1, <1>3 DEF TreeOK, OutOK
  <1>6. FetchedInv' /\ VerifiedInv'
    BY <1>3 DEF IInv, FetchedInv, VerifiedInv, TreeOf
  <1> QED
    BY <1>2, <1>4, <1>5, <1>6, HolderStep, StepByStep

-------------------------------------------------------------------------------
(* The invocation that moves.                                              *)

LEMMA ProcFacts ==
  ASSUME IInv, NEW p \in Proc
  PROVE  /\ TypeOK /\ TreeOK /\ OutOK /\ PInv(p) /\ ProcOK(p) /\ proc[p] \in Invocation
         /\ proc[p].todo # <<>> => This(p) \in Suite /\ Tail(proc[p].todo) \in Seq(Suite)
         /\ proc[p].pc \notin Ended \cup {"next"} =>
              proc[p].todo # <<>> /\ This(p) \in DOMAIN proc[p].lock
  <1>1. TypeOK /\ TreeOK /\ OutOK /\ PInv(p) /\ ProcOK(p) /\ proc[p] \in Invocation
    BY TypeParts DEF IInv, PInv, ProcOK
  <1>2. proc[p].todo \in Seq(Suite)
    BY <1>1 DEF Invocation
  <1>3. proc[p].todo # <<>> => This(p) \in Suite /\ Tail(proc[p].todo) \in Seq(Suite)
    BY <1>2, HeadTailProperties DEF This
  <1> QED
    BY <1>1, <1>3 DEF ProcOK

LEMMA PlainStarts ==
  ASSUME IInv
  PROVE  /\ starts \in 0..MaxStarts /\ faults \in 0..MaxFaults
         /\ Fault => faults' \in 0..MaxFaults
         /\ starts < MaxStarts => starts + 1 \in 0..MaxStarts
         /\ UNCHANGED tree => /\ UNCHANGED <<repo, locked, work, head>>
                              /\ repo' \in {"absent", "foreign", "broken", "repo"}
                              /\ locked' \in BOOLEAN
  <1>1. starts \in 0..MaxStarts /\ faults \in 0..MaxFaults /\ TreeOK
    BY TypeParts DEF IInv, TypeOK
  <1>2. MaxStarts \in Nat /\ MaxFaults \in Nat
    BY SharedCheckoutAssumption
  <1> QED
    BY <1>1, <1>2 DEF Fault, tree, TreeOK

\* What an invocation may change of itself stays an invocation.
LEMMA Moves ==
  ASSUME NEW r \in Invocation, NEW pc \in Control
  PROVE  /\ [r EXCEPT !.pc = pc] \in Invocation
         /\ \A alone \in BOOLEAN : [r EXCEPT !.pc = pc, !.alone = alone] \in Invocation
         /\ \A files \in Seq(Path) : /\ [r EXCEPT !.pc = pc, !.files = files] \in Invocation
                                     /\ [r EXCEPT !.files = files] \in Invocation
         /\ \A cases \in SUBSET SUBSET Named, from \in Commit \cup {None, Here} :
              [r EXCEPT !.pc = pc, !.cases = cases, !.from = from] \in Invocation
         /\ \A todo \in Seq(Suite) :
              /\ [r EXCEPT !.pc = pc, !.todo = todo] \in Invocation
              /\ [r EXCEPT !.pc = pc, !.todo = todo, !.cases = {}, !.from = None] \in Invocation
  <1>1. [r EXCEPT !.pc = pc] \in Invocation
    BY DEF Invocation
  <1>2. ASSUME NEW alone \in BOOLEAN PROVE [r EXCEPT !.pc = pc, !.alone = alone] \in Invocation
    BY DEF Invocation
  <1>3. ASSUME NEW files \in Seq(Path)
        PROVE  [r EXCEPT !.pc = pc, !.files = files] \in Invocation
    BY DEF Invocation
  <1>4. ASSUME NEW files \in Seq(Path) PROVE [r EXCEPT !.files = files] \in Invocation
    BY DEF Invocation
  <1>5. ASSUME NEW cases \in SUBSET SUBSET Named, NEW from \in Commit \cup {None, Here}
        PROVE  [r EXCEPT !.pc = pc, !.cases = cases, !.from = from] \in Invocation
    BY DEF Invocation
  <1>6. ASSUME NEW todo \in Seq(Suite) PROVE [r EXCEPT !.pc = pc, !.todo = todo] \in Invocation
    BY DEF Invocation
  <1>7. ASSUME NEW todo \in Seq(Suite)
        PROVE  [r EXCEPT !.pc = pc, !.todo = todo, !.cases = {}, !.from = None] \in Invocation
    BY DEF Invocation
  <1> QED
    BY <1>1, <1>2, <1>3, <1>4, <1>5, <1>6, <1>7

\* On towards a checkout, or to enumerate.
LEMMA GotoStep ==
  ASSUME IInv, NEW p \in Proc, NEW l \in Fetching \cup {"enumerate"},
         proc'[p] = [proc[p] EXCEPT !.pc = l],
         proc[p].todo # <<>>, This(p) \in DOMAIN proc[p].lock,
         l \in Fetching => This(p) \in Shared, l = "checking out" => Pin(p) \in Commit
  PROVE  PInv(p)'
  <1>1. proc[p] \in Invocation /\ l \in Control
    BY ProcFacts DEF Control, Fetching
  <1>2. proc'[p] \in Invocation
    BY <1>1, Moves
  <1>3. proc'[p].pc = l /\ proc'[p].todo = proc[p].todo /\ proc'[p].lock = proc[p].lock
    BY <1>1 DEF Invocation
  <1>4. This(p)' = This(p) /\ Pin(p)' = Pin(p) /\ \A m : At(p, m)' <=> m = l
    BY <1>3 DEF This, Pin, At
  <1>5. p \notin Working' /\ p \notin Sharing' /\ l \notin {"list", "copy", "table"}
    BY <1>3 DEF Working, Sharing, Fetching
  <1>6. ProcOK(p)'
    BY <1>2, <1>3, <1>4, <1>5 DEF ProcOK
  <1>7. PinInv(p)' /\ CopyInv(p)' /\ CasesInv(p)' /\ TreeInv(p)'
    BY <1>3, <1>4, <1>5 DEF PinInv, CopyInv, CasesInv, TreeInv
  <1> QED
    BY <1>6, <1>7 DEF PInv

\* The checkout is there, or the suite needs none.
LEMMA WorkStep ==
  ASSUME IInv, NEW p \in Proc, NEW alone \in BOOLEAN,
         proc'[p] = [proc[p] EXCEPT !.pc = "list", !.alone = alone],
         proc[p].todo # <<>>, This(p) \in DOMAIN proc[p].lock,
         alone /\ This(p) \in Shared => Pin(p) \in Commit /\ work' = CheckedOut(Pin(p)) /\ ~locked'
  PROVE  PInv(p)'
  <1>1. proc[p] \in Invocation /\ "list" \in Control
    BY ProcFacts DEF Control
  <1>2. proc'[p] \in Invocation
    <2>1. [proc[p] EXCEPT !.pc = "list", !.alone = alone] \in Invocation
      BY <1>1, Moves, Zenon
    <2> QED
      BY <2>1
  <1>3. /\ proc'[p].pc = "list" /\ proc'[p].todo = proc[p].todo /\ proc'[p].lock = proc[p].lock
        /\ proc'[p].alone = alone
    BY <1>1 DEF Invocation
  <1>4. This(p)' = This(p) /\ Pin(p)' = Pin(p) /\ \A m : At(p, m)' <=> m = "list"
    BY <1>3 DEF This, Pin, At
  <1>5. ProcOK(p)'
    BY <1>2, <1>3, <1>4 DEF ProcOK, Sharing
  <1>6. PinInv(p)' /\ CopyInv(p)' /\ CasesInv(p)'
    BY <1>3, <1>4 DEF PinInv, CopyInv, CasesInv, Fetching
  <1>7. TreeInv(p)'
    BY <1>3, <1>4 DEF TreeInv, CheckedOut
  <1> QED
    BY <1>5, <1>6, <1>7 DEF PInv

\* On to the next suite.
LEMMA NextStep ==
  ASSUME IInv, NEW p \in Proc, proc'[p] \in Invocation, proc'[p].pc = "next"
  PROVE  PInv(p)'
  <1>1. \A m : At(p, m)' <=> m = "next"
    BY DEF At
  <1>2. p \notin Working' /\ p \notin Sharing'
    BY DEF Working, Sharing
  <1>3. ProcOK(p)'
    BY <1>2 DEF ProcOK
  <1>4. PinInv(p)' /\ CopyInv(p)' /\ CasesInv(p)' /\ TreeInv(p)'
    BY <1>1, <1>2 DEF PinInv, CopyInv, CasesInv, TreeInv, Fetching
  <1> QED
    BY <1>3, <1>4 DEF PInv

\* An invocation fails and nothing else changes.
LEMMA FailStep ==
  ASSUME IInv, NEW p \in Proc, NEW how \in Ended, End(p, how),
         UNCHANGED <<work, head, out>>, repo' \in {"absent", "foreign", "broken", "repo"},
         locked' \in BOOLEAN, locked' = locked \/ At(p, "checking out"),
         starts' \in 0..MaxStarts, faults' \in 0..MaxFaults
  PROVE  IInv'
  <1>1. TypeOK /\ Step(p, [Idle EXCEPT !.pc = how])
    BY ProcFacts DEF End
  <1>2. proc'[p] = [Idle EXCEPT !.pc = how]
    BY <1>1, StepOf
  <1>3. proc'[p].pc # "checking out"
    BY <1>2 DEF Idle, Ended
  <1>4. PInv(p)'
    BY <1>1, <1>2, EndOf
  <1> QED
    BY <1>1, <1>3, <1>4, PlainStep

-------------------------------------------------------------------------------
(* The actions that change no file and no table.                           *)

LEMMA StartInv ==
  ASSUME IInv, NEW p \in Proc, Start(p)
  PROVE  IInv'
  <1>1. /\ UNCHANGED <<work, head, out>> /\ repo' \in {"absent", "foreign", "broken", "repo"}
        /\ locked' \in BOOLEAN /\ locked' = locked
        /\ starts' \in 0..MaxStarts /\ faults' \in 0..MaxFaults
    BY PlainStarts DEF Start
  <1>2. CASE Fail(p)
    BY <1>1, <1>2, FailStep DEF Fail, Ended
  <1>3. ASSUME NEW cmd \in {"fetch", "generate", "verify"}, NEW names \in Selections, NEW lock \in Locks,
               ToSet(Select(names)) \subseteq Suite,
               Step(p, [Idle EXCEPT !.cmd = cmd, !.todo = Select(names), !.lock = lock, !.pc = "next"])
        PROVE  IInv'
    <2>1. Select(names) \in Seq(Suite)
      <3>1. Sorted \in Seq(Suite)
        BY DEF Sorted, Suite, Shared
      <3>2. names \in Seq(ToSet(names))
        BY SharedCheckoutAssumption
      <3>3. CASE names \in {<<>>, <<"all">>}
        BY <3>1, <3>3 DEF Select
      <3>4. CASE names \notin {<<>>, <<"all">>}
        <4>1. ToSet(names) \subseteq Suite
          BY <1>3, <3>4 DEF Select
        <4> QED
          BY <3>2, <3>4, <4>1, SeqMonotonic DEF Select
      <3> QED
        BY <3>3, <3>4
    <2> DEFINE r == [Idle EXCEPT !.cmd = cmd, !.todo = Select(names), !.lock = lock, !.pc = "next"]
    <2>2. lock \in Lock
      BY SharedCheckoutAssumption
    <2>3. r \in Invocation /\ r.pc = "next"
      <3>1. ASSUME NEW i \in Invocation
            PROVE  /\ [i EXCEPT !.cmd = cmd, !.todo = Select(names), !.lock = lock, !.pc = "next"] \in Invocation
                   /\ [i EXCEPT !.cmd = cmd, !.todo = Select(names), !.lock = lock, !.pc = "next"].pc = "next"
        BY <2>1, <2>2 DEF Invocation, Control
      <3> QED
        BY <3>1, IdleOf
    <2>4. Step(p, r)
      BY <1>3
    <2> HIDE DEF r
    <2>5. proc'[p] = r
      BY <2>4, ProcFacts, StepOf
    <2>6. PInv(p)'
      BY <2>3, <2>5, NextStep
    <2> QED
      BY <1>1, <2>3, <2>4, <2>5, <2>6, PlainStep
  <1> QED
    BY <1>2, <1>3 DEF Start

\* Going on towards a checkout or a table.
LEMMA GotoInv ==
  ASSUME IInv, NEW p \in Proc, NEW l \in Fetching \cup {"enumerate"}, Goto(p, l),
         proc[p].todo # <<>>, This(p) \in DOMAIN proc[p].lock,
         l \in Fetching => This(p) \in Shared, l # "checking out",
         UNCHANGED <<work, head, out>>, repo' \in {"absent", "foreign", "broken", "repo"},
         locked' \in BOOLEAN, locked' = locked,
         starts' \in 0..MaxStarts, faults' \in 0..MaxFaults
  PROVE  IInv'
  <1>1. TypeOK /\ Step(p, [proc[p] EXCEPT !.pc = l])
    BY ProcFacts DEF Goto
  <1>2. proc'[p] = [proc[p] EXCEPT !.pc = l]
    BY <1>1, StepOf
  <1>3. PInv(p)' /\ proc'[p].pc # "checking out"
    BY <1>2, GotoStep, ProcFacts DEF Invocation
  <1> QED
    BY <1>1, <1>3, PlainStep

LEMMA NextSuiteInv ==
  ASSUME IInv, NEW p \in Proc, NextSuite(p)
  PROVE  IInv'
  <1>1. /\ UNCHANGED <<work, head, out>> /\ repo' \in {"absent", "foreign", "broken", "repo"}
        /\ locked' \in BOOLEAN /\ locked' = locked
        /\ starts' \in 0..MaxStarts /\ faults' \in 0..MaxFaults
    BY PlainStarts DEF NextSuite
  <1>2. CASE \E how \in Ended : End(p, how)
    BY <1>1, <1>2, FailStep
  <1>3. CASE proc[p].todo # <<>> /\ This(p) \in DOMAIN proc[p].lock /\ Goto(p, "enumerate")
    <2>1. "enumerate" \in Fetching \cup {"enumerate"} /\ "enumerate" \notin Fetching
      BY DEF Fetching
    <2> QED
      BY <1>1, <1>3, <2>1, GotoInv
  <1>4. CASE proc[p].todo # <<>> /\ This(p) \in DOMAIN proc[p].lock /\ This(p) \in Shared /\ Goto(p, "stat")
    <2>1. "stat" \in Fetching \cup {"enumerate"}
      BY DEF Fetching
    <2> QED
      BY <1>1, <1>4, <2>1, GotoInv
  <1>5. CASE proc[p].todo # <<>> /\ This(p) \in DOMAIN proc[p].lock /\ This(p) \notin Shared /\ Work(p)
    <2>1. TypeOK /\ Step(p, [proc[p] EXCEPT !.pc = "list", !.alone = TRUE])
      BY <1>5, ProcFacts DEF Work
    <2>2. proc'[p] = [proc[p] EXCEPT !.pc = "list", !.alone = TRUE]
      BY <2>1, StepOf
    <2>3. PInv(p)' /\ proc'[p].pc # "checking out"
      BY <1>5, <2>2, WorkStep, ProcFacts DEF Invocation
    <2> QED
      BY <1>1, <2>1, <2>3, PlainStep
  <1>6. \/ \E how \in Ended : End(p, how)
        \/ /\ proc[p].todo # <<>> /\ This(p) \in DOMAIN proc[p].lock
           /\ \/ Goto(p, "enumerate")
              \/ This(p) \in Shared /\ Goto(p, "stat")
              \/ This(p) \notin Shared /\ Work(p)
    <2>1. "ok" \in Ended /\ "failed" \in Ended
      BY DEF Ended
    <2> QED
      BY <2>1 DEF NextSuite, Fail
  <1> QED
    BY <1>2, <1>3, <1>4, <1>5, <1>6

\* The steps of a fetch up to the checkout.
LEMMA FetchingInv ==
  ASSUME IInv, NEW p \in Proc,
         StatSource(p) \/ GitClone(p) \/ GitCloned(p) \/ GitFetch(p)
  PROVE  IInv'
  <1>1. /\ UNCHANGED <<work, head, out>> /\ repo' \in {"absent", "foreign", "broken", "repo"}
        /\ locked' \in BOOLEAN /\ locked' = locked
        /\ starts' \in 0..MaxStarts /\ faults' \in 0..MaxFaults
    <2>1. TreeOK
      BY ProcFacts
    <2> QED
      BY <2>1, PlainStarts DEF StatSource, GitClone, GitCloned, GitFetch, TreeOK, tree
  <1>2. proc[p].pc \in {"stat", "clone", "cloning", "fetch"}
    BY DEF StatSource, GitClone, GitCloned, GitFetch, At
  <1>3. proc[p].todo # <<>> /\ This(p) \in DOMAIN proc[p].lock /\ This(p) \in Shared
    BY <1>2, ProcFacts DEF Ended, PInv, PinInv, Fetching
  <1>4. Fail(p) \/ Goto(p, "clone") \/ Goto(p, "fetch") \/ Goto(p, "cloning") \/ Goto(p, "checkout")
    BY DEF StatSource, GitClone, GitCloned, GitFetch
  <1>5. CASE Fail(p)
    BY <1>1, <1>5, FailStep DEF Fail, Ended
  <1>6. ASSUME NEW l \in {"clone", "fetch", "cloning", "checkout"}, Goto(p, l)
        PROVE  IInv'
    <2>1. l \in Fetching \cup {"enumerate"} /\ l # "checking out"
      BY DEF Fetching
    <2> QED
      BY <1>1, <1>3, <1>6, <2>1, GotoInv
  <1> QED
    BY <1>4, <1>5, <1>6

\* A call that fails.
LEMMA ErrorInv ==
  ASSUME IInv, NEW p \in Proc, Error(p)
  PROVE  IInv'
  <1>1. /\ UNCHANGED <<work, head, out>> /\ repo' \in {"absent", "foreign", "broken", "repo"}
        /\ locked' \in BOOLEAN /\ locked' = locked
        /\ starts' \in 0..MaxStarts /\ faults' \in 0..MaxFaults
    BY PlainStarts DEF Error
  <1> QED
    BY <1>1, FailStep DEF Error, Fail, Ended

\* The paths of what a suite reads.
LEMMA SourceFacts ==
  ASSUME IInv, NEW s \in Suite
  PROVE  /\ DOMAIN Source(s) \in SUBSET ToSet(Paths)
         /\ \A f \in DOMAIN Source(s) : Source(s)[f] \in Commit \cup {Here}
         /\ s \notin Shared => DOMAIN Source(s) = Committed /\ \A f \in Committed : Source(s)[f] = Here
  <1>1. \A f \in DOMAIN work : work[f] \in Commit /\ f \in Tree[work[f]]
    BY DEF IInv, TypeOK
  <1> QED
    BY <1>1, SharedCheckoutAssumption DEF Source

LEMMA ListFixturesInv ==
  ASSUME IInv, NEW p \in Proc, ListFixtures(p)
  PROVE  IInv'
  <1> DEFINE s == This(p)
             t == DOMAIN Source(s)
  <1>1. /\ UNCHANGED <<work, head, out>> /\ repo' \in {"absent", "foreign", "broken", "repo"}
        /\ locked' \in BOOLEAN /\ locked' = locked
        /\ starts' \in 0..MaxStarts /\ faults' \in 0..MaxFaults
    BY PlainStarts DEF ListFixtures
  <1>2. CASE Fail(p)
    BY <1>1, <1>2, FailStep DEF Fail, Ended
  <1>3. CASE Step(p, [proc[p] EXCEPT !.pc = "copy", !.files = Copies(s, t)])
    <2>1. /\ TypeOK /\ PInv(p) /\ ProcOK(p) /\ proc[p] \in Invocation /\ s \in Suite
          /\ proc[p].todo # <<>> /\ s \in DOMAIN proc[p].lock /\ At(p, "list") /\ p \in Working
      BY ProcFacts DEF ListFixtures, At, Ended, Working
    <2>2. Copies(s, t) \in Seq(Path)
      BY <2>1, SourceFacts, CopiesCoverCases
    <2>3. proc'[p] = [proc[p] EXCEPT !.pc = "copy", !.files = Copies(s, t)]
      BY <1>3, <2>1, StepOf
    <2>4. proc'[p] \in Invocation
      <3>1. "copy" \in Control
        BY DEF Control
      <3>2. [proc[p] EXCEPT !.pc = "copy", !.files = Copies(s, t)] \in Invocation
        BY <2>1, <2>2, <3>1, Moves, Zenon
      <3> QED
        BY <2>3, <3>2
    <2>5. /\ proc'[p].pc = "copy" /\ proc'[p].todo = proc[p].todo /\ proc'[p].lock = proc[p].lock
          /\ proc'[p].alone = proc[p].alone /\ proc'[p].files = Copies(s, t)
      BY <2>1, <2>3 DEF Invocation
    <2>6. This(p)' = s /\ Pin(p)' = Pin(p) /\ OriginOf(p)' = OriginOf(p) /\ \A m : At(p, m)' <=> m = "copy"
      BY <2>5 DEF This, Pin, At, OriginOf
    <2>7. ProcOK(p)'
      <3>1. p \in Sharing' <=> p \in Sharing
        BY <2>1, <2>5, <2>6 DEF Sharing, Working
      <3> QED
        BY <1>1, <2>1, <2>4, <2>5, <2>6, <3>1 DEF ProcOK
    <2>8. PinInv(p)' /\ CasesInv(p)'
      BY <2>1, <2>5, <2>6 DEF PinInv, CasesInv, Fetching
    <2>9. TreeInv(p)'
      BY <1>1, <2>1, <2>5, <2>6 DEF PInv, TreeInv, CheckedOut
    <2>10. CopyInv(p)'
      <3> SUFFICES ASSUME proc[p].alone
                   PROVE  Copies(s, TreeOf(s, OriginOf(p))) = Copies(s, t)
        BY <2>5, <2>6 DEF CopyInv, TreeOf
      <3>1. CASE s \in Shared
        <4>1. Pin(p) \in Commit /\ work = CheckedOut(Pin(p))
          BY <2>1, <3>1 DEF PInv, TreeInv
        <4>2. t = Tree[Pin(p)]
          BY <3>1, <4>1, CheckedOutFacts DEF Source
        <4> QED
          BY <3>1, <4>2 DEF TreeOf, OriginOf
      <3>2. CASE s \notin Shared
        BY <2>1, <3>2, SourceFacts DEF TreeOf
      <3> QED
        BY <3>1, <3>2
    <2>11. PInv(p)'
      BY <2>7, <2>8, <2>9, <2>10 DEF PInv
    <2> QED
      BY <1>1, <1>3, <2>5, <2>11, PlainStep
  <1> QED
    BY <1>2, <1>3 DEF ListFixtures

-------------------------------------------------------------------------------
(* The checkout, the files and the tables change.                          *)

\* A checkout, under way or done, has each path from a commit that has it.
LEMMA CheckoutKeepsTypes ==
  ASSUME TreeOK, NEW c \in Commit, work' \in PartlyCheckedOut(c) \/ work' = CheckedOut(c)
  PROVE  \A f \in DOMAIN work' : work'[f] \in Commit /\ f \in Tree[work'[f]]
  <1>1. CASE work' = CheckedOut(c)
    BY <1>1, CheckedOutFacts
  <1>2. CASE work' \in PartlyCheckedOut(c)
    <2>1. PICK done : work' = [f \in (DOMAIN work \ done) \cup (Tree[c] \cap done) |->
                                 IF f \in done THEN c ELSE work[f]]
      BY <1>2 DEF PartlyCheckedOut
    <2> QED
      BY <2>1 DEF TreeOK
  <1> QED
    BY <1>1, <1>2

LEMMA DisturbedPc ==
  ASSUME IInv, NEW p \in Proc, NEW r, NEW others, Disturbing(p, r, others), NEW q \in Proc \ {p}
  PROVE  proc'[q].pc = proc[q].pc
  <1>1. proc[q] \in Invocation
    BY ProcFacts
  <1>2. proc'[q] = IF q \in others THEN [proc[q] EXCEPT !.alone = FALSE] ELSE proc[q]
    BY DisturbingOf
  <1> QED
    BY <1>1, <1>2 DEF Invocation

\* One invocation changes the checkout; the others who use it know.
LEMMA CheckoutStep ==
  ASSUME IInv, NEW p \in Proc, NEW r, Disturbing(p, r, Sharing), PInv(p)', TreeOK', HolderInv',
         UNCHANGED out, starts' \in 0..MaxStarts, faults' \in 0..MaxFaults
  PROVE  IInv'
  <1>1. TypeOK /\ OutOK /\ UNCHANGED <<testdata, table, fetched, verified>>
    BY ProcFacts DEF out
  <1>2. ASSUME NEW q \in Proc \ {p} PROVE Peaceful(q)
    <2>1. proc'[q] = IF q \in Sharing THEN [proc[q] EXCEPT !.alone = FALSE] ELSE proc[q]
      BY DisturbingOf
    <2>2. q \in Sharing => ~proc'[q].alone
      BY <2>1, ProcFacts DEF Invocation
    <2>3. q \in Working /\ This(q) \in Shared => q \in Sharing
      BY DEF Sharing
    <2> QED
      BY <1>1, <2>1, <2>2, <2>3 DEF Peaceful
  <1>3. OutOK'
    BY <1>1 DEF OutOK
  <1>4. FetchedInv' /\ VerifiedInv'
    BY <1>1 DEF IInv, FetchedInv, VerifiedInv, TreeOf
  <1>5. proc' = [q \in Proc |-> proc'[q]]
    BY DisturbingOf
  <1> QED
    BY <1>2, <1>3, <1>4, <1>5, StepByStep

LEMMA GitCheckoutInv ==
  ASSUME IInv, NEW p \in Proc, GitCheckout(p)
  PROVE  IInv'
  <1>1. /\ UNCHANGED <<repo, head, out>> /\ TreeOK
        /\ starts' \in 0..MaxStarts /\ faults' \in 0..MaxFaults
    BY PlainStarts, ProcFacts DEF GitCheckout
  <1>2. /\ TypeOK /\ proc[p].todo # <<>> /\ This(p) \in DOMAIN proc[p].lock /\ This(p) \in Shared
        /\ p \notin Sharing
    BY ProcFacts DEF GitCheckout, At, Ended, PInv, PinInv, Fetching, Sharing, Working
  <1>3. CASE Fail(p) /\ UNCHANGED <<locked, work>>
    BY <1>1, <1>3, FailStep DEF Fail, Ended, TreeOK
  <1>4. CASE /\ ~Refused(p) /\ head = Pin(p) /\ UNCHANGED <<locked, work>>
             /\ Step(p, [proc[p] EXCEPT !.pc = "list", !.alone = ~Dirty])
    <2>1. proc'[p] = [proc[p] EXCEPT !.pc = "list", !.alone = ~Dirty]
      BY <1>2, <1>4, StepOf
    <2>2. Pin(p) \in Commit /\ ~locked' /\ (~Dirty => work' = CheckedOut(Pin(p)))
      BY <1>4 DEF Refused, Dirty
    <2>3. (~Dirty) \in BOOLEAN
      OBVIOUS
    <2>4. PInv(p)' /\ proc'[p].pc # "checking out"
      BY <1>2, <2>1, <2>2, <2>3, WorkStep, ProcFacts DEF Invocation
    <2> QED
      BY <1>1, <1>4, <2>4, PlainStep DEF TreeOK
  <1>5. CASE /\ ~Refused(p) /\ locked' = TRUE /\ work' \in PartlyCheckedOut(Pin(p))
             /\ Disturbing(p, [proc[p] EXCEPT !.pc = "checking out"], Sharing)
    <2>1. Pin(p) \in Commit
      BY <1>5 DEF Refused
    <2>2. proc'[p] = [proc[p] EXCEPT !.pc = "checking out"]
      BY <1>5, DisturbingOf
    <2>3. PInv(p)'
      <3>1. "checking out" \in Fetching \cup {"enumerate"}
        BY DEF Fetching
      <3> QED
        BY <1>2, <2>1, <2>2, <3>1, GotoStep
    <2>4. TreeOK'
      <3>1. \A f \in DOMAIN work' : work'[f] \in Commit /\ f \in Tree[work'[f]]
        BY <1>1, <1>5, <2>1, CheckoutKeepsTypes
      <3> QED
        BY <1>1, <1>5, <3>1 DEF TreeOK
    <2>5. HolderInv'
      <3>1. \A q \in Proc : ~At(q, "checking out")
        BY <1>5 DEF IInv, HolderInv, Refused
      <3>2. \A q \in Proc \ {p} : proc'[q].pc = proc[q].pc
        BY <1>5, DisturbedPc
      <3> QED
        BY <1>5, <3>1, <3>2 DEF HolderInv, At
    <2> QED
      BY <1>1, <1>5, <2>3, <2>4, <2>5, CheckoutStep
  <1> QED
    BY <1>3, <1>4, <1>5 DEF GitCheckout

LEMMA GitCheckedOutInv ==
  ASSUME IInv, NEW p \in Proc, GitCheckedOut(p)
  PROVE  IInv'
  <1>1. /\ UNCHANGED <<repo, out>> /\ TreeOK /\ locked' = FALSE /\ starts' \in 0..MaxStarts
    BY PlainStarts, ProcFacts DEF GitCheckedOut
  <1>2. /\ TypeOK /\ proc[p].todo # <<>> /\ This(p) \in DOMAIN proc[p].lock
        /\ Pin(p) \in Commit /\ At(p, "checking out")
    BY ProcFacts DEF GitCheckedOut, At, Ended, PInv, PinInv
  <1>3. CASE Fail(p) /\ Fault /\ UNCHANGED <<work, head>>
    BY <1>1, <1>2, <1>3, FailStep, PlainStarts DEF Fail, Ended, TreeOK
  <1>4. CASE /\ work' = CheckedOut(Pin(p)) /\ head' = Pin(p) /\ UNCHANGED faults
             /\ Disturbing(p, [proc[p] EXCEPT !.pc = "list", !.alone = TRUE], Sharing)
    <2>1. proc'[p] = [proc[p] EXCEPT !.pc = "list", !.alone = TRUE]
      BY <1>4, DisturbingOf
    <2>2. PInv(p)'
      BY <1>1, <1>2, <1>4, <2>1, WorkStep
    <2>3. TreeOK'
      <3>1. \A f \in DOMAIN work' : work'[f] \in Commit /\ f \in Tree[work'[f]]
        BY <1>1, <1>2, <1>4, CheckoutKeepsTypes
      <3> QED
        BY <1>1, <1>2, <1>4, <3>1 DEF TreeOK
    <2>4. faults' \in 0..MaxFaults
      BY <1>4, PlainStarts
    <2>5. HolderInv'
      <3>1. \A q \in Proc \ {p} : proc'[q].pc = proc[q].pc
        BY <1>4, DisturbedPc
      <3>2. proc'[p].pc = "list"
        BY <2>1, ProcFacts DEF Invocation
      <3>3. At(p, "checking out")
        BY DEF GitCheckedOut
      <3> QED
        BY <3>1, <3>2, <3>3 DEF IInv, HolderInv, At
    <2> QED
      BY <1>1, <1>4, <2>2, <2>3, <2>4, <2>5, CheckoutStep
  <1> QED
    BY <1>3, <1>4 DEF GitCheckedOut

\* A file of s is written: the other fetches of s know, and the last green one
\* counts no longer.
LEMMA PutStep ==
  ASSUME IInv, NEW p \in Proc, NEW r, NEW s \in Suite, NEW f, NEW c \in Commit \cup {Torn, Here},
         Put(s, f, c), Disturbing(p, r, On(s)), PInv(p)', TreeOK', fetched' = [fetched EXCEPT ![s] = None],
         UNCHANGED <<locked, work, table, verified>>, proc'[p].pc # "checking out",
         starts' \in 0..MaxStarts, faults' \in 0..MaxFaults
  PROVE  IInv'
  <1>1. TypeOK /\ OutOK
    BY ProcFacts
  <1>2. /\ DOMAIN testdata' = Suite /\ \A u \in Suite \ {s} : testdata'[u] = testdata[u]
        /\ testdata'[s] = [g \in {f} \cup DOMAIN testdata[s] |-> IF g = f THEN c ELSE testdata[s][g]]
    BY <1>1 DEF Put, OutOK
  <1>3. /\ fetched'[s] = None /\ \A u \in Suite \ {s} : fetched'[u] = fetched[u]
        /\ fetched' \in [Suite -> Commit \cup {None, Here}]
    BY <1>1 DEF OutOK
  <1>4. ASSUME NEW q \in Proc \ {p} PROVE Peaceful(q)
    <2> DEFINE others == On(s)
    <2> HIDE DEF others
    <2>1. proc'[q] = IF q \in others THEN [proc[q] EXCEPT !.alone = FALSE] ELSE proc[q]
      <3>1. Disturbing(p, r, others)
        BY DEF others
      <3> QED
        BY <3>1, DisturbingOf
    <2>2. q \in others => ~proc'[q].alone
      BY <2>1, ProcFacts DEF Invocation
    <2>3. q \in Working => This(q) \in Suite
      BY ProcFacts DEF Working, Ended
    <2>4. q \in Working /\ proc'[q].alone => testdata'[This(q)] = testdata[This(q)]
      BY <1>2, <2>2, <2>3 DEF On, others
    <2> QED
      BY <2>1, <2>4 DEF Peaceful
  <1>5. OutOK'
    <2>1. \A u \in Suite : \A g \in DOMAIN testdata'[u] : testdata'[u][g] \in Commit \cup {Torn, Here}
      BY <1>1, <1>2 DEF OutOK
    <2> QED
      BY <1>1, <1>2, <1>3, <2>1 DEF OutOK
  <1>6. FetchedInv'
    <2> SUFFICES ASSUME NEW u \in Suite, fetched'[u] # None
                 PROVE  /\ fetched'[u] \in (IF u \in Shared THEN Commit ELSE {Here})
                        /\ \A g \in ToSet(Copies(u, TreeOf(u, fetched'[u]))) :
                             g \in DOMAIN testdata'[u] /\ testdata'[u][g] = fetched'[u]
      BY DEF FetchedInv, TreeOf
    <2>1. u # s /\ fetched'[u] = fetched[u] /\ testdata'[u] = testdata[u]
      BY <1>2, <1>3
    <2>2. FetchedInv /\ fetched[u] # None
      BY <2>1 DEF IInv
    <2>3. /\ fetched[u] \in (IF u \in Shared THEN Commit ELSE {Here})
          /\ \A g \in ToSet(Copies(u, TreeOf(u, fetched[u]))) :
               g \in DOMAIN testdata[u] /\ testdata[u][g] = fetched[u]
      BY <2>2 DEF FetchedInv
    <2> QED
      BY <2>1, <2>3
  <1>7. VerifiedInv'
    BY DEF IInv, VerifiedInv, TreeOf
  <1>8. proc' = [q \in Proc |-> proc'[q]]
    BY DisturbingOf
  <1> QED
    BY <1>4, <1>5, <1>6, <1>7, <1>8, HolderStep, StepByStep

LEMMA CopyFileInv ==
  ASSUME IInv, NEW p \in Proc, CopyFile(p)
  PROVE  IInv'
  <1> DEFINE s == This(p)
             f == Head(proc[p].files)
             r == [proc[p] EXCEPT !.files = Tail(@)]
  <1>1. /\ UNCHANGED <<repo, locked, work, head, table, verified>> /\ TreeOK
        /\ starts' \in 0..MaxStarts /\ faults' \in 0..MaxFaults
    BY PlainStarts, ProcFacts DEF CopyFile, tree
  <1>2. /\ TypeOK /\ PInv(p) /\ ProcOK(p) /\ proc[p] \in Invocation /\ s \in Suite
        /\ proc[p].todo # <<>> /\ s \in DOMAIN proc[p].lock /\ At(p, "copy") /\ p \in Working
    BY ProcFacts DEF CopyFile, At, Ended, Working
  <1>3. CASE Fail(p) /\ UNCHANGED <<testdata, fetched>>
    BY <1>1, <1>3, FailStep DEF Fail, Ended, TreeOK, out
  <1>4. CASE /\ f \in DOMAIN Source(s) /\ Put(s, f, Source(s)[f]) /\ Disturbing(p, r, On(s))
             /\ fetched' = [fetched EXCEPT ![s] = None] /\ proc[p].files # <<>>
    <2>1. proc[p].files \in Seq(Path)
      BY <1>2 DEF Invocation
    <2>2. Tail(proc[p].files) \in Seq(Path) /\ ToSet(proc[p].files) = {f} \cup ToSet(Tail(proc[p].files))
      BY <1>4, <2>1, HeadAndTail
    <2>3. proc'[p] = r
      BY <1>4, DisturbingOf
    <2>4. proc'[p] \in Invocation
      <3>1. \A files \in Seq(Path) : [proc[p] EXCEPT !.files = files] \in Invocation
        BY <1>2 DEF Invocation
      <3>2. r = [proc[p] EXCEPT !.files = Tail(proc[p].files)]
        OBVIOUS
      <3> HIDE DEF r
      <3> QED
        BY <2>2, <2>3, <3>1, <3>2
    <2>5. /\ proc'[p].pc = "copy" /\ proc'[p].todo = proc[p].todo /\ proc'[p].lock = proc[p].lock
          /\ proc'[p].alone = proc[p].alone /\ proc'[p].files = Tail(proc[p].files)
      BY <1>2, <2>3 DEF Invocation, At
    <2>6. This(p)' = s /\ Pin(p)' = Pin(p) /\ OriginOf(p)' = OriginOf(p) /\ \A m : At(p, m)' <=> m = "copy"
      BY <2>5 DEF This, Pin, At, OriginOf
    <2>7. ProcOK(p)'
      <3>1. p \in Sharing' <=> p \in Sharing
        BY <1>2, <2>5, <2>6 DEF Sharing, Working
      <3> QED
        BY <1>1, <1>2, <2>4, <2>5, <2>6, <3>1 DEF ProcOK
    <2>8. PinInv(p)' /\ CasesInv(p)'
      BY <1>2, <2>5, <2>6 DEF PinInv, CasesInv, Fetching
    <2>9. TreeInv(p)'
      BY <1>1, <1>2, <2>5, <2>6 DEF PInv, TreeInv, CheckedOut
    <2>10. testdata'[s] = [g \in {f} \cup DOMAIN testdata[s] |-> IF g = f THEN Source(s)[f] ELSE testdata[s][g]]
      BY <1>2, <1>4 DEF Put, TypeOK
    <2>11. CopyInv(p)'
      <3> SUFFICES ASSUME proc[p].alone,
                          NEW g \in ToSet(Copies(s, TreeOf(s, OriginOf(p))))
                   PROVE  \/ g \in ToSet(Tail(proc[p].files))
                          \/ g \in DOMAIN testdata'[s] /\ testdata'[s][g] = OriginOf(p)
        BY <2>5, <2>6 DEF CopyInv, TreeOf
      <3>1. Source(s)[f] = OriginOf(p)
        <4>1. CASE s \in Shared
          <5>1. Pin(p) \in Commit /\ work = CheckedOut(Pin(p))
            BY <1>2, <4>1 DEF PInv, TreeInv
          <5> QED
            BY <1>4, <4>1, <5>1, CheckedOutFacts DEF Source, OriginOf
        <4>2. CASE s \notin Shared
          BY <1>2, <1>4, <4>2, SourceFacts DEF OriginOf
        <4> QED
          BY <4>1, <4>2
      <3>2. \/ g \in ToSet(proc[p].files)
            \/ g \in DOMAIN testdata[s] /\ testdata[s][g] = OriginOf(p)
        BY <1>2 DEF PInv, CopyInv
      <3> QED
        BY <2>2, <2>10, <3>1, <3>2
    <2>12. PInv(p)'
      BY <2>7, <2>8, <2>9, <2>11 DEF PInv
    <2>13. Source(s)[f] \in Commit \cup {Torn, Here}
      BY <1>2, <1>4, SourceFacts
    <2>14. TreeOK'
      BY <1>1 DEF TreeOK
    <2> HIDE DEF r, f
    <2> QED
      BY <1>1, <1>2, <1>4, <2>5, <2>12, <2>13, <2>14, PutStep
  <1> QED
    BY <1>1, <1>3, <1>4 DEF CopyFile

LEMMA FetchDoneInv ==
  ASSUME IInv, NEW p \in Proc, FetchDone(p)
  PROVE  IInv'
  <1> DEFINE s == This(p)
  <1>1. /\ UNCHANGED <<repo, locked, work, head, testdata, table, verified>> /\ TreeOK /\ OutOK
        /\ starts' \in 0..MaxStarts /\ faults' \in 0..MaxFaults
    BY PlainStarts, ProcFacts DEF FetchDone, tree
  <1>2. /\ TypeOK /\ PInv(p) /\ proc[p] \in Invocation /\ s \in Suite
        /\ proc[p].todo # <<>> /\ At(p, "copy") /\ p \in Working
        /\ Tail(proc[p].todo) \in Seq(Suite)
    BY ProcFacts DEF FetchDone, At, Ended, Working
  <1>3. PInv(p)' /\ proc'[p].pc # "checking out" /\ \A q \in Proc \ {p} : Peaceful(q)
    <2>1. Step(p, [proc[p] EXCEPT !.pc = "next", !.todo = Tail(proc[p].todo)])
      BY DEF FetchDone
    <2>2. /\ proc'[p] = [proc[p] EXCEPT !.pc = "next", !.todo = Tail(proc[p].todo)]
          /\ \A q \in Proc \ {p} : proc'[q] = proc[q]
      BY <1>2, <2>1, StepOf
    <2>3. proc'[p] \in Invocation /\ proc'[p].pc = "next"
      BY <1>2, <2>2 DEF Invocation, Control
    <2> QED
      BY <1>1, <2>2, <2>3, NextStep DEF Peaceful
  <1>4. fetched' = [fetched EXCEPT ![s] = IF ~proc[p].alone THEN None ELSE OriginOf(p)]
    BY DEF FetchDone, OriginOf
  <1>5. proc[p].alone =>
          /\ OriginOf(p) \in (IF s \in Shared THEN Commit ELSE {Here})
          /\ \A f \in ToSet(Copies(s, TreeOf(s, OriginOf(p)))) :
               f \in DOMAIN testdata[s] /\ testdata[s][f] = OriginOf(p)
    <2>1. ToSet(proc[p].files) = {}
      <3>1. proc[p].files = <<>>
        BY DEF FetchDone
      <3> QED
        BY <3>1 DEF ToSet
    <2>2. proc[p].alone /\ s \in Shared => Pin(p) \in Commit
      BY <1>2 DEF PInv, TreeInv
    <2> QED
      BY <1>2, <2>1, <2>2 DEF PInv, CopyInv, OriginOf
  <1>6. FetchedInv'
    <2> SUFFICES ASSUME NEW u \in Suite, fetched'[u] # None
                 PROVE  /\ fetched'[u] \in (IF u \in Shared THEN Commit ELSE {Here})
                        /\ \A f \in ToSet(Copies(u, TreeOf(u, fetched'[u]))) :
                             f \in DOMAIN testdata[u] /\ testdata[u][f] = fetched'[u]
      BY <1>1 DEF FetchedInv, TreeOf
    <2>1. CASE u = s
      <3>1. proc[p].alone /\ fetched'[u] = OriginOf(p)
        BY <1>1, <1>4, <2>1 DEF OutOK
      <3> QED
        BY <1>5, <2>1, <3>1
    <2>2. CASE u # s
      BY <1>1, <1>4, <2>2 DEF IInv, FetchedInv, OutOK
    <2> QED
      BY <2>1, <2>2
  <1>7. OutOK'
    <2>1. proc[p].alone => OriginOf(p) \in Commit \cup {None, Here}
      BY <1>5
    <2> QED
      BY <1>1, <1>4, <2>1 DEF OutOK
  <1>8. VerifiedInv' /\ TreeOK'
    BY <1>1 DEF IInv, VerifiedInv, TreeOf, TreeOK
  <1>9. proc' = [q \in Proc |-> proc'[q]]
    BY <1>2, StepOf DEF FetchDone, TypeOK
  <1> QED
    BY <1>1, <1>3, <1>6, <1>7, <1>8, <1>9, HolderStep, StepByStep

\* The cases read off a whole commit are its cases; the commit is not guessed.
LEMMA EnumerateInv ==
  ASSUME IInv, NEW p \in Proc, Enumerate(p)
  PROVE  IInv'
  <1> DEFINE s == This(p)
             t == DOMAIN Source(s)
  <1>1. /\ UNCHANGED <<work, head, out>> /\ repo' \in {"absent", "foreign", "broken", "repo"}
        /\ locked' \in BOOLEAN /\ locked' = locked
        /\ starts' \in 0..MaxStarts /\ faults' \in 0..MaxFaults
    BY PlainStarts DEF Enumerate
  <1>2. /\ TypeOK /\ PInv(p) /\ proc[p] \in Invocation /\ s \in Suite
        /\ proc[p].todo # <<>> /\ s \in DOMAIN proc[p].lock
    BY ProcFacts DEF Enumerate, At, Ended
  <1>3. CASE Fail(p)
    BY <1>1, <1>3, FailStep DEF Fail, Ended
  <1>4. ASSUME NEW cases \in SUBSET SUBSET Named, NEW commit \in Commit \cup {None, Here},
               Tabulate(p, cases, commit),
               commit # None => /\ commit \in (IF s \in Shared THEN Commit ELSE {Here})
                                /\ cases = Cases(s, TreeOf(s, commit))
        PROVE  IInv'
    <2>1. Step(p, [proc[p] EXCEPT !.pc = "table", !.cases = cases, !.from = commit])
      BY <1>4 DEF Tabulate
    <2>2. proc'[p] = [proc[p] EXCEPT !.pc = "table", !.cases = cases, !.from = commit]
      BY <1>2, <2>1, StepOf
    <2>3. proc'[p] \in Invocation
      <3>1. "table" \in Control
        BY DEF Control
      <3>2. [proc[p] EXCEPT !.pc = "table", !.cases = cases, !.from = commit] \in Invocation
        BY <1>2, <3>1, Moves, Zenon
      <3> QED
        BY <2>2, <3>2
    <2>4. /\ proc'[p].pc = "table" /\ proc'[p].todo = proc[p].todo /\ proc'[p].lock = proc[p].lock
          /\ proc'[p].cases = cases /\ proc'[p].from = commit
      BY <1>2, <2>2 DEF Invocation
    <2>5. This(p)' = s /\ \A m : At(p, m)' <=> m = "table"
      BY <2>4 DEF This, At
    <2>6. p \notin Working' /\ p \notin Sharing'
      BY <2>4 DEF Working, Sharing
    <2>7. ProcOK(p)'
      BY <1>2, <2>3, <2>4, <2>5, <2>6 DEF ProcOK
    <2>8. PinInv(p)' /\ CopyInv(p)' /\ TreeInv(p)'
      BY <2>4, <2>5, <2>6 DEF PinInv, CopyInv, TreeInv, Fetching
    <2>9. CasesInv(p)'
      BY <1>4, <2>4, <2>5 DEF CasesInv, TreeOf
    <2>10. PInv(p)'
      BY <2>7, <2>8, <2>9 DEF PInv
    <2> QED
      BY <1>1, <2>1, <2>4, <2>10, PlainStep
  <1>5. Cases(s, t) \in SUBSET SUBSET Named
    BY <1>2, SourceFacts, CopiesCoverCases
  <1>6. CASE Tabulate(p, {}, None)
    BY <1>4, <1>6
  <1>7. CASE s \in Shared /\ Tabulate(p, Cases(s, t), CommitOf(work))
    <2>1. CASE \E c \in Commit : work = CheckedOut(c)
      <3>1. CommitOf(work) \in Commit /\ work = CheckedOut(CommitOf(work))
        BY <2>1 DEF CommitOf
      <3>2. t = TreeOf(s, CommitOf(work))
        BY <1>7, <3>1, CheckedOutFacts DEF Source, TreeOf
      <3> HIDE DEF t
      <3> QED
        BY <1>4, <1>5, <1>7, <3>1, <3>2
    <2>2. CASE ~ \E c \in Commit : work = CheckedOut(c)
      <3>1. CommitOf(work) = None
        BY <2>2 DEF CommitOf
      <3> QED
        BY <1>4, <1>5, <1>7, <3>1
    <2> QED
      BY <2>1, <2>2
  <1>8. CASE s \notin Shared /\ Tabulate(p, Cases(s, t), Here)
    <2>1. t = TreeOf(s, Here)
      BY <1>2, <1>8, SourceFacts DEF TreeOf
    <2> HIDE DEF t
    <2> QED
      BY <1>4, <1>5, <1>8, <2>1
  <1> QED
    BY <1>3, <1>6, <1>7, <1>8 DEF Enumerate

\* A table is written, or torn.
LEMMA TableStep ==
  ASSUME IInv, NEW p \in Proc, NEW r, Step(p, r), PInv(p)', TreeOK', NEW s \in Suite,
         NEW cases \in SUBSET SUBSET Named, NEW commit \in Commit \cup {None, Here},
         table' = [table EXCEPT ![s] = cases], verified' = [verified EXCEPT ![s] = commit],
         commit # None => /\ commit \in (IF s \in Shared THEN Commit ELSE {Here})
                          /\ cases = Cases(s, TreeOf(s, commit)),
         UNCHANGED <<locked, work, testdata, fetched>>, proc'[p].pc # "checking out",
         starts' \in 0..MaxStarts, faults' \in 0..MaxFaults
  PROVE  IInv'
  <1>1. TypeOK /\ OutOK
    BY ProcFacts
  <1>2. proc' = [q \in Proc |-> proc'[q]] /\ \A q \in Proc \ {p} : Peaceful(q)
    BY <1>1, StepOf DEF TypeOK, Peaceful
  <1>3. OutOK' /\ FetchedInv'
    BY <1>1 DEF OutOK, IInv, FetchedInv, TreeOf
  <1>4. VerifiedInv'
    <2> SUFFICES ASSUME NEW u \in Suite, verified'[u] # None
                 PROVE  /\ verified'[u] \in (IF u \in Shared THEN Commit ELSE {Here})
                        /\ table'[u] = Cases(u, TreeOf(u, verified'[u]))
      BY DEF VerifiedInv, TreeOf
    <2>1. CASE u = s
      <3>1. verified'[u] = commit /\ table'[u] = cases
        BY <1>1, <2>1 DEF OutOK
      <3> QED
        BY <2>1, <3>1
    <2>2. CASE u # s
      <3>1. verified'[u] = verified[u] /\ table'[u] = table[u]
        BY <1>1, <2>2 DEF OutOK
      <3>2. /\ verified[u] \in (IF u \in Shared THEN Commit ELSE {Here})
            /\ table[u] = Cases(u, TreeOf(u, verified[u]))
        BY <3>1 DEF IInv, VerifiedInv
      <3> QED
        BY <3>1, <3>2
    <2> QED
      BY <2>1, <2>2
  <1> QED
    BY <1>2, <1>3, <1>4, HolderStep, StepByStep

LEMMA WriteGoFileInv ==
  ASSUME IInv, NEW p \in Proc, WriteGoFile(p)
  PROVE  IInv'
  <1> DEFINE s == This(p)
             r == [proc[p] EXCEPT !.pc = "next", !.todo = Tail(@), !.cases = {}, !.from = None]
  <1>1. /\ UNCHANGED <<repo, locked, work, head, testdata, fetched>> /\ TreeOK
        /\ starts' \in 0..MaxStarts /\ faults' \in 0..MaxFaults
    BY PlainStarts, ProcFacts DEF WriteGoFile, tree
  <1>2. /\ TypeOK /\ PInv(p) /\ proc[p] \in Invocation /\ s \in Suite
        /\ proc[p].todo # <<>> /\ At(p, "table") /\ Tail(proc[p].todo) \in Seq(Suite)
    BY ProcFacts DEF WriteGoFile, At, Ended
  <1>3. CASE Fail(p) /\ UNCHANGED <<table, verified>>
    BY <1>1, <1>3, FailStep DEF Fail, Ended, TreeOK, out
  <1>4. CASE /\ proc[p].cmd = "generate" \/ SameTable(s, proc[p].cases)
             /\ table' = [table EXCEPT ![s] = IF proc[p].cmd = "generate" THEN proc[p].cases ELSE @]
             /\ verified' = [verified EXCEPT ![s] = proc[p].from]
             /\ Step(p, r)
    <2>1. proc'[p] = r
      BY <1>2, <1>4, StepOf
    <2>2. r \in Invocation /\ r.pc = "next"
      <3>1. /\ [proc[p] EXCEPT !.pc = "next", !.todo = Tail(proc[p].todo), !.cases = {}, !.from = None] \in Invocation
            /\ [proc[p] EXCEPT !.pc = "next", !.todo = Tail(proc[p].todo), !.cases = {}, !.from = None].pc = "next"
        BY <1>2 DEF Invocation, Control
      <3> QED
        BY <3>1
    <2> HIDE DEF r
    <2>3. PInv(p)'
      BY <2>1, <2>2, NextStep
    <2>4. table' = [table EXCEPT ![s] = proc[p].cases]
      BY <1>2, <1>4 DEF SameTable, TypeOK
    <2>5. proc[p].cases \in SUBSET SUBSET Named /\ proc[p].from \in Commit \cup {None, Here}
      BY <1>2 DEF Invocation
    <2>6. proc[p].from # None => /\ proc[p].from \in (IF s \in Shared THEN Commit ELSE {Here})
                                 /\ proc[p].cases = Cases(s, TreeOf(s, proc[p].from))
      BY <1>2 DEF PInv, CasesInv
    <2>7. TreeOK'
      BY <1>1 DEF TreeOK
    <2> HIDE DEF s
    <2> QED
      BY <1>1, <1>2, <1>4, <2>1, <2>2, <2>3, <2>4, <2>5, <2>6, <2>7, TableStep
  <1> QED
    BY <1>1, <1>3, <1>4 DEF WriteGoFile

LEMMA KillInv ==
  ASSUME IInv, NEW p \in Proc, Kill(p)
  PROVE  IInv'
  <1> DEFINE s == This(p)
             r == [Idle EXCEPT !.pc = "failed"]
  <1>1. /\ UNCHANGED <<work, head>> /\ TypeOK /\ OutOK /\ starts' \in 0..MaxStarts /\ faults' \in 0..MaxFaults
    BY PlainStarts, ProcFacts DEF Kill
  <1>2. /\ repo' \in {"absent", "foreign", "broken", "repo"} /\ locked' \in BOOLEAN
        /\ locked' = locked \/ At(p, "checking out")
        /\ TreeOK'
    BY ProcFacts DEF Kill, TreeOK
  <1>3. r.pc = "failed" /\ "failed" \in Ended
    BY DEF Ended, Idle
  <1>4. ASSUME proc'[p] = r PROVE PInv(p)' /\ proc'[p].pc # "checking out"
    BY <1>1, <1>3, <1>4, EndOf
  <1>5. proc[p].pc \notin Ended \cup {"next"} => s \in Suite
    BY ProcFacts
  <1>6. CASE At(p, "copy") /\ proc[p].files # <<>>
    <2>1. /\ Put(s, Head(proc[p].files), Torn) /\ Disturbing(p, r, On(s))
          /\ fetched' = [fetched EXCEPT ![s] = None] /\ UNCHANGED <<table, verified, locked>>
      BY <1>6 DEF Kill, At
    <2>2. s \in Suite
      BY <1>5, <1>6 DEF At, Ended
    <2>3. proc'[p] = r
      BY <2>1, DisturbingOf
    <2> HIDE DEF r, s
    <2> QED
      BY <1>1, <1>2, <1>4, <2>1, <2>2, <2>3, PutStep
  <1>7. CASE At(p, "table") /\ proc[p].cmd = "generate"
    <2>1. /\ table' = [table EXCEPT ![s] = TornTable] /\ verified' = [verified EXCEPT ![s] = None]
          /\ Step(p, r) /\ UNCHANGED <<testdata, fetched, locked>>
      BY <1>7 DEF Kill, At, Fail, End
    <2>2. s \in Suite
      BY <1>5, <1>7 DEF At, Ended
    <2>3. proc'[p] = r
      BY <1>1, <2>1, StepOf
    <2>4. TornTable \in SUBSET SUBSET Named /\ None \in Commit \cup {None, Here}
      BY DEF TornTable
    <2> HIDE DEF r, s
    <2> QED
      BY <1>1, <1>2, <1>4, <2>1, <2>2, <2>3, <2>4, TableStep
  <1>8. CASE Fail(p) /\ UNCHANGED out
    BY <1>1, <1>2, <1>3, <1>8, FailStep DEF Fail
  <1> QED
    BY <1>6, <1>7, <1>8 DEF Kill

\* The checkout is cleared away: nobody is at work.
LEMMA RemoveSourceInv ==
  ASSUME IInv, RemoveSource
  PROVE  IInv'
  <1>1. /\ UNCHANGED <<testdata, table, fetched, verified, proc, starts, faults>>
        /\ repo' = "absent" /\ locked' = FALSE /\ work' = NoFiles /\ head' = None
    BY DEF RemoveSource, out
  <1>2. \A p \in Proc : proc[p].pc \in Ended
    BY DEF RemoveSource
  <1>3. \A p \in Proc : Peaceful(p)
    BY <1>1, <1>2 DEF Peaceful, Working, Ended
  <1>4. \A p \in Proc : PInv(p)'
    BY <1>3, Others
  <1>5. \A p \in Proc : ~At(p, "checking out")'
    BY <1>1, <1>2 DEF At, Ended
  <1>6. TypeOK'
    <2>1. (locked => \A p \in Sharing : ~proc[p].alone)'
      BY <1>1
    <2>2. DOMAIN work' = {}
      BY <1>1 DEF NoFiles
    <2>3. (\A p \in Proc : proc[p].pc \in Ended \cup {"next"} \/ (proc[p].todo # <<>> /\ This(p) \in DOMAIN proc[p].lock))'
      BY <1>1, <1>2
    <2> QED
      BY <1>1, <2>1, <2>2, <2>3 DEF IInv, TypeOK
  <1>7. HolderInv' /\ FetchedInv' /\ VerifiedInv'
    BY <1>1, <1>5 DEF HolderInv, IInv, FetchedInv, VerifiedInv, TreeOf
  <1> QED
    BY <1>4, <1>6, <1>7 DEF IInv

-------------------------------------------------------------------------------
(* The invariant and what it shows.                                        *)

LEMMA InitInv == Init => IInv
  <1> SUFFICES ASSUME Init PROVE IInv
    OBVIOUS
  <1>1. \A p \in Proc : proc[p] = Idle
    BY DEF Init
  <1>2. \A p \in Proc : proc[p] \in Invocation /\ proc[p].pc = "ok"
    BY <1>1, IdleOf DEF Idle
  <1>3. \A p \in Proc : p \notin Working /\ p \notin Sharing
    BY <1>2 DEF Working, Sharing
  <1>4. \A p \in Proc : PInv(p)
    <2> SUFFICES ASSUME NEW p \in Proc PROVE PInv(p)
      OBVIOUS
    <2>1. ProcOK(p)
      BY <1>2, <1>3 DEF ProcOK, Ended
    <2>2. PinInv(p) /\ TreeInv(p) /\ CopyInv(p) /\ CasesInv(p)
      BY <1>2, <1>3 DEF PinInv, TreeInv, CopyInv, CasesInv, At, Fetching
    <2> QED
      BY <2>1, <2>2 DEF PInv
  <1>5. HolderInv /\ FetchedInv /\ VerifiedInv
    BY <1>2 DEF Init, HolderInv, At, FetchedInv, VerifiedInv
  <1>6. TypeOK
    <2>1. MaxStarts \in Nat /\ MaxFaults \in Nat
      BY SharedCheckoutAssumption
    <2>2. proc \in [Proc -> Invocation]
      BY <1>2 DEF Init
    <2>3. DOMAIN work = {} /\ \A s \in Suite : DOMAIN testdata[s] = {}
      BY DEF Init, NoFiles
    <2>4. \A p \in Proc : proc[p].pc \in Ended \cup {"next"} \/ (proc[p].todo # <<>> /\ This(p) \in DOMAIN proc[p].lock)
      BY <1>2 DEF Ended
    <2>5. starts \in 0..MaxStarts /\ faults \in 0..MaxFaults
      BY <2>1 DEF Init
    <2>6. /\ DOMAIN testdata = Suite /\ table \in [Suite -> SUBSET SUBSET Named]
          /\ fetched \in [Suite -> Commit \cup {None, Here}] /\ verified \in [Suite -> Commit \cup {None, Here}]
      BY DEF Init
    <2>7. /\ repo \in {"absent", "foreign", "broken", "repo"} /\ locked \in BOOLEAN /\ ~locked
          /\ head \in Commit \cup {None}
      BY DEF Init
    <2> QED
      BY <2>2, <2>3, <2>4, <2>5, <2>6, <2>7 DEF TypeOK
  <1> QED
    BY <1>4, <1>5, <1>6 DEF IInv

LEMMA NextInv == IInv /\ [Next]_vars => IInv'
  <1> SUFFICES ASSUME IInv, [Next]_vars PROVE IInv'
    OBVIOUS
  <1>1. CASE RemoveSource
    BY <1>1, RemoveSourceInv
  <1>2. CASE UNCHANGED vars
    <2>1. UNCHANGED <<repo, locked, work, head, testdata, table, fetched, verified, proc, starts, faults>>
      BY <1>2 DEF vars, tree, out
    <2>2. \A p \in Proc : Peaceful(p)
      BY <2>1 DEF Peaceful
    <2>3. \A p \in Proc : PInv(p)'
      BY <2>2, Others
    <2>4. TypeOK'
      BY <2>1 DEF IInv, TypeOK, Sharing, Working, This
    <2>5. HolderInv' /\ FetchedInv' /\ VerifiedInv'
      BY <2>1 DEF IInv, HolderInv, At, FetchedInv, VerifiedInv, TreeOf
    <2> QED
      BY <2>3, <2>4, <2>5 DEF IInv
  <1>3. ASSUME NEW p \in Proc, Start(p) \/ Advance(p) \/ Error(p) \/ Kill(p)
        PROVE  IInv'
    <2>1. CASE Start(p) \/ Error(p) \/ Kill(p)
      BY <2>1, StartInv, ErrorInv, KillInv
    <2>2. CASE Advance(p)
      BY <2>2, NextSuiteInv, FetchingInv, GitCheckoutInv, GitCheckedOutInv, ListFixturesInv,
         CopyFileInv, FetchDoneInv, EnumerateInv, WriteGoFileInv DEF Advance
    <2> QED
      BY <1>3, <2>1, <2>2
  <1> QED
    BY <1>1, <1>2, <1>3 DEF Next

LEMMA Invariance == Spec => []IInv
  BY InitInv, NextInv, PTL DEF Spec

\* The types, and that an invocation which takes the checkout for its own never
\* does so while git holds the index, hold in every run of any number of
\* invocations of w3cgen over any commits and locks.
THEOREM TypeCorrect == Spec => []TypeOK
  <1>1. IInv => TypeOK
    BY DEF IInv
  <1> QED
    BY <1>1, Invariance, PTL

\* A fetch that ends green and undisturbed leaves every file of the commit its
\* lock entry pinned where the suite reads it, until something writes there
\* again: for any commits, locks, selections, kills and calls that fail.
THEOREM FetchesArePinned == Spec => []FetchedIsPinned
  <1>1. IInv => FetchedIsPinned
    BY DEF IInv, FetchedInv, FetchedIsPinned, TreeOf
  <1> QED
    BY <1>1, Invariance, PTL

\* A table written or found up to date off a whole commit has the cases of that
\* commit, and each finds its files if the last green fetch was of that commit:
\* what a suite copies covers what its table names, whatever the commit holds.
THEOREM VerifiedCasesAlwaysFindVectors == Spec => []VerifiedCasesFindVectors
  <1>1. ASSUME IInv PROVE VerifiedCasesFindVectors
    <2> SUFFICES ASSUME NEW s \in Suite, verified[s] # None
                 PROVE  /\ table[s] = Cases(s, TreeOf(s, verified[s]))
                        /\ fetched[s] = verified[s] =>
                             \A f \in TreeOf(s, verified[s]) \cap UNION table[s] :
                               f \in DOMAIN testdata[s] /\ testdata[s][f] = fetched[s]
      BY DEF VerifiedCasesFindVectors, TreeOf
    <2> DEFINE t == TreeOf(s, verified[s])
    <2>1. table[s] = Cases(s, t) /\ verified[s] \in (IF s \in Shared THEN Commit ELSE {Here})
      BY <1>1 DEF IInv, VerifiedInv
    <2>2. t \in SUBSET ToSet(Paths)
      BY <2>1, SharedCheckoutAssumption DEF TreeOf
    <2> HIDE DEF t
    <2>3. \A c \in Cases(s, t) : c \cap t \subseteq ToSet(Copies(s, t))
      BY <2>2, CopiesCoverCases
    <2>4. t \cap UNION table[s] \subseteq ToSet(Copies(s, t))
      BY <2>1, <2>3
    <2>5. fetched[s] = verified[s] =>
            \A f \in ToSet(Copies(s, t)) : f \in DOMAIN testdata[s] /\ testdata[s][f] = fetched[s]
      BY <1>1 DEF IInv, FetchedInv, t
    <2> QED
      BY <2>1, <2>4, <2>5 DEF t
  <1> QED
    BY <1>1, Invariance, PTL

================================================================================
