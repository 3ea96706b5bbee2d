----------------------------- MODULE Closure_proofs -----------------------------
(***************************************************************************)
(* Proofs about Closure for every checkout and every graph of references:  *)
(* types, that no file is read twice, and that the search finds exactly    *)
(* the reachable files.                                                    *)
(*                                                                         *)
(* KnownInv is the half "no more": what is enqueued or linked lies in      *)
(* every closed set.  SeenInv is the half "no less": what has been read    *)
(* refers only to what is known, so that at the end the set of files read  *)
(* is closed itself.                                                       *)
(***************************************************************************)
EXTENDS Closure, TLAPS

Known == enqueued \cup Elems(links)

SetsInv ==
  /\ read \subseteq enqueued \cap disk.readable
  /\ fixtures = disk.preset \cup read
  /\ Elems(queue) \subseteq enqueued
  /\ enqueued \cap disk.readable \subseteq read \cup Elems(queue)

KnownInv == \A S \in SUBSET disk.readable : Closed(S) => Known \cap disk.readable \subseteq S

SeenInv ==
  /\ Elems(disk.start) \subseteq Known
  /\ \A f \in read \cap disk.scanned : Elems(disk.refs[f]) \ {Remote} \subseteq Known

IInv == TypeOK /\ SetsInv /\ KnownInv /\ SeenInv /\ ReadsOnce

-------------------------------------------------------------------------------
LEMMA ElemsTail ==
  ASSUME NEW T, NEW s \in Seq(T), s # <<>>
  PROVE /\ Head(s) \in T
        /\ Tail(s) \in Seq(T)
        /\ Elems(s) = {Head(s)} \cup Elems(Tail(s))
  <1>1. /\ Len(s) \in Nat \ {0} /\ Head(s) = s[1]
        /\ Len(Tail(s)) = Len(s) - 1
        /\ \A i \in 1..(Len(s) - 1) : Tail(s)[i] = s[i + 1]
    OBVIOUS
  <1>2. ASSUME NEW x \in Elems(s) PROVE x \in {Head(s)} \cup Elems(Tail(s))
    <2>1. PICK i \in 1..Len(s) : x = s[i]
      BY DEF Elems
    <2>2. CASE i = 1
      BY <1>1, <2>1, <2>2
    <2>3. CASE i # 1
      <3>1. i - 1 \in 1..(Len(s) - 1) /\ Tail(s)[i - 1] = s[i]
        BY <1>1, <2>3
      <3> QED
        BY <1>1, <2>1, <3>1 DEF Elems
    <2> QED
      BY <2>2, <2>3
  <1>3. ASSUME NEW x \in Elems(Tail(s)) PROVE x \in Elems(s)
    <2>1. PICK i \in 1..(Len(s) - 1) : x = Tail(s)[i]
      BY <1>1, <1>3 DEF Elems
    <2>2. i + 1 \in 1..Len(s) /\ x = s[i + 1]
      BY <1>1, <2>1
    <2> QED
      BY <2>2 DEF Elems
  <1>4. Head(s) \in Elems(s)
    BY <1>1 DEF Elems
  <1> QED
    BY <1>2, <1>3, <1>4

LEMMA ElemsAppend ==
  ASSUME NEW T, NEW s \in Seq(T), NEW e \in T
  PROVE /\ Append(s, e) \in Seq(T)
        /\ Elems(Append(s, e)) = Elems(s) \cup {e}
  BY DEF Elems

LEMMA ElemsEmpty == Elems(<<>>) = {}
  BY DEF Elems

LEMMA InitInv == Init => IInv
  <1> SUFFICES ASSUME Init PROVE IInv
    OBVIOUS
  <1>1. disk \in DiskType /\ disk.start \in Seq(File)
    BY ClosureAssumption DEF Init, DiskType
  <1>2. TypeOK
    BY <1>1 DEF Init, TypeOK, DiskType
  <1>3. SetsInv /\ ReadsOnce
    BY <1>1, ElemsEmpty DEF Init, SetsInv, ReadsOnce, DiskType
  <1>4. KnownInv
    BY DEF Init, KnownInv, Known, Closed
  <1>5. SeenInv
    BY DEF Init, SeenInv, Known
  <1> QED
    BY <1>2, <1>3, <1>4, <1>5 DEF IInv

-------------------------------------------------------------------------------
\* A reference is looked at: it was known before and is known after.
LEMMA FollowStep == IInv /\ Follow => IInv'
  <1> SUFFICES ASSUME IInv, Follow PROVE IInv'
    OBVIOUS
  <1> DEFINE f == Head(links)
  <1>t. TypeOK /\ SetsInv /\ KnownInv /\ SeenInv /\ ReadsOnce
    BY DEF IInv
  <1>u. UNCHANGED <<disk, fixtures, read>> /\ links # <<>> /\ links' = Tail(links)
    BY DEF Follow
  <1>l. /\ links' \in Seq(File \cup {Remote}) /\ f \in File \cup {Remote}
        /\ Elems(links) = {f} \cup Elems(links')
    BY <1>t, <1>u, ElemsTail DEF TypeOK
  <1>1. CASE IsNew(f)
    <2>1. /\ enqueued' = enqueued \cup {f} /\ queue' = Append(queue, f)
          /\ f \in File /\ f \notin enqueued
      BY <1>1, <1>l DEF Follow, IsNew
    <2>2. queue' \in Seq(File) /\ Elems(queue') = Elems(queue) \cup {f}
      BY <1>t, <2>1, ElemsAppend DEF TypeOK
    <2>3. Known' = Known
      BY <1>l, <2>1 DEF Known
    <2>4. TypeOK'
      BY <1>t, <1>u, <1>l, <2>1, <2>2 DEF TypeOK
    <2>5. SetsInv'
      BY <1>t, <1>u, <2>1, <2>2 DEF SetsInv
    <2>6. KnownInv' /\ SeenInv'
      BY <1>t, <1>u, <2>3 DEF KnownInv, SeenInv, Closed
    <2>7. ReadsOnce'
      <3>1. f \notin Elems(queue) /\ f \notin read
        BY <1>t, <2>1 DEF SetsInv
      <3>2. /\ Len(queue) \in Nat /\ Len(queue') = Len(queue) + 1
            /\ queue'[Len(queue) + 1] = f
            /\ \A i \in 1..Len(queue) : queue'[i] = queue[i]
        BY <1>t, <2>1 DEF TypeOK
      <3>3. \A i \in 1..Len(queue) : queue[i] # f
        BY <3>1 DEF Elems
      <3>4. \A i, j \in 1..Len(queue') : queue'[i] = queue'[j] => i = j
        BY <1>t, <3>2, <3>3 DEF ReadsOnce
      <3> QED
        BY <1>t, <1>u, <2>2, <3>1, <3>4 DEF ReadsOnce
    <2> QED
      BY <2>4, <2>5, <2>6, <2>7 DEF IInv
  <1>2. CASE ~IsNew(f)
    <2>1. UNCHANGED <<enqueued, queue>>
      BY <1>2 DEF Follow
    <2>2. Known \ {Remote} \subseteq Known' /\ Known' \subseteq Known
      BY <1>2, <1>l, <2>1 DEF Known, IsNew
    <2>3. TypeOK' /\ SetsInv' /\ ReadsOnce'
      BY <1>t, <1>u, <1>l, <2>1 DEF TypeOK, SetsInv, ReadsOnce
    <2>4. KnownInv'
      BY <1>t, <1>u, <2>2 DEF KnownInv, Closed
    <2>5. Remote \notin Elems(disk.start)
      BY <1>t, ClosureAssumption DEF TypeOK, DiskType, Elems
    <2>6. SeenInv'
      BY <1>t, <1>u, <2>2, <2>5 DEF SeenInv
    <2> QED
      BY <2>3, <2>4, <2>6 DEF IInv
  <1> QED
    BY <1>1, <1>2

\* Taking the head off the queue leaves a queue without it.
LEMMA Dequeue ==
  ASSUME TypeOK, ReadsOnce, queue # <<>>, queue' = Tail(queue)
  PROVE /\ Head(queue) \in File /\ queue' \in Seq(File)
        /\ Elems(queue) = {Head(queue)} \cup Elems(queue')
        /\ Head(queue) \notin Elems(queue')
        /\ \A i, j \in 1..Len(queue') : queue'[i] = queue'[j] => i = j
  <1>1. /\ Head(queue) \in File /\ queue' \in Seq(File)
        /\ Elems(queue) = {Head(queue)} \cup Elems(queue')
    BY ElemsTail DEF TypeOK
  <1>2. /\ Len(queue) \in Nat \ {0} /\ Head(queue) = queue[1]
        /\ Len(queue') = Len(queue) - 1
        /\ \A i \in 1..(Len(queue) - 1) : queue'[i] = queue[i + 1]
    BY DEF TypeOK
  <1>3. \A i, j \in 1..Len(queue) : queue[i] = queue[j] => i = j
    BY DEF ReadsOnce
  <1>4. \A i \in 1..(Len(queue) - 1) : i + 1 \in 1..Len(queue) /\ queue[i + 1] # queue[1]
    BY <1>2, <1>3
  <1>5. Head(queue) \notin Elems(queue')
    BY <1>2, <1>4 DEF Elems
  <1>6. \A i, j \in 1..Len(queue') : queue'[i] = queue'[j] => i = j
    <2> SUFFICES ASSUME NEW i \in 1..Len(queue'), NEW j \in 1..Len(queue'),
                        queue'[i] = queue'[j]
                 PROVE i = j
      OBVIOUS
    <2>1. i + 1 \in 1..Len(queue) /\ j + 1 \in 1..Len(queue) /\ queue[i + 1] = queue[j + 1]
      BY <1>2
    <2> QED
      BY <1>3, <2>1
  <1> QED
    BY <1>1, <1>5, <1>6

\* A file is read: its references become known, and belong to every closed set
\* because the file does.
LEMMA VisitStep == IInv /\ Visit => IInv'
  <1> SUFFICES ASSUME IInv, Visit PROVE IInv'
    OBVIOUS
  <1> DEFINE f == Head(queue)
  <1>t. TypeOK /\ SetsInv /\ KnownInv /\ SeenInv /\ ReadsOnce
    BY DEF IInv
  <1>u. /\ UNCHANGED <<disk, enqueued>> /\ links = <<>> /\ queue # <<>>
        /\ queue' = Tail(queue)
        /\ f \in disk.readable
        /\ fixtures' = fixtures \cup {f} /\ read' = read \cup {f}
        /\ links' = IF f \in disk.scanned THEN disk.refs[f] ELSE <<>>
    BY DEF Visit
  <1>q. /\ f \in File /\ queue' \in Seq(File)
        /\ Elems(queue) = {f} \cup Elems(queue')
        /\ f \notin Elems(queue')
        /\ \A i, j \in 1..Len(queue') : queue'[i] = queue'[j] => i = j
    BY <1>t, <1>u, Dequeue
  <1>l. links' \in Seq(File \cup {Remote})
    BY <1>t, <1>u, <1>q DEF TypeOK, DiskType
  <1>k. /\ Known = enqueued
        /\ Known' = enqueued \cup (IF f \in disk.scanned THEN Elems(disk.refs[f]) ELSE {})
    BY <1>u, ElemsEmpty DEF Known
  <1>1. TypeOK'
    BY <1>t, <1>u, <1>q, <1>l DEF TypeOK
  <1>2. SetsInv'
    BY <1>t, <1>u, <1>q DEF SetsInv
  <1>3. KnownInv'
    <2> SUFFICES ASSUME NEW S \in SUBSET disk.readable, Closed(S)
                 PROVE Known' \cap disk.readable \subseteq S
      BY <1>u DEF KnownInv, Closed
    <2>1. enqueued \cap disk.readable \subseteq S
      BY <1>t, <1>k DEF KnownInv
    <2>2. f \in S
      BY <1>t, <1>u, <1>q, <2>1 DEF SetsInv
    <2>3. f \in disk.scanned => Elems(disk.refs[f]) \cap disk.readable \subseteq S
      BY <2>2 DEF Closed
    <2> QED
      BY <1>k, <2>1, <2>3
  <1>4. SeenInv'
    BY <1>t, <1>u, <1>k DEF SeenInv
  <1>5. ReadsOnce'
    BY <1>t, <1>u, <1>q DEF ReadsOnce
  <1> QED
    BY <1>1, <1>2, <1>3, <1>4, <1>5 DEF IInv

LEMMA DropStep == IInv /\ Drop => IInv'
  <1> SUFFICES ASSUME IInv, Drop PROVE IInv'
    OBVIOUS
  <1>t. TypeOK /\ SetsInv /\ KnownInv /\ SeenInv /\ ReadsOnce
    BY DEF IInv
  <1>u. /\ UNCHANGED <<disk, enqueued, links, fixtures, read>> /\ queue # <<>>
        /\ queue' = Tail(queue) /\ Head(queue) \notin disk.readable
    BY DEF Drop
  <1>q. /\ queue' \in Seq(File)
        /\ Elems(queue) = {Head(queue)} \cup Elems(queue')
        /\ \A i, j \in 1..Len(queue') : queue'[i] = queue'[j] => i = j
    BY <1>t, <1>u, Dequeue
  <1>1. TypeOK' /\ SetsInv' /\ ReadsOnce'
    BY <1>t, <1>u, <1>q DEF TypeOK, SetsInv, ReadsOnce
  <1>2. KnownInv' /\ SeenInv'
    BY <1>t, <1>u DEF KnownInv, SeenInv, Known, Closed
  <1> QED
    BY <1>1, <1>2 DEF IInv

-------------------------------------------------------------------------------
THEOREM Inductive == Spec => []IInv
  <1>1. Init => IInv
    BY InitInv
  <1>2. IInv /\ UNCHANGED vars => IInv'
    BY DEF vars, IInv, TypeOK, SetsInv, KnownInv, Known, SeenInv, ReadsOnce, Closed
  <1>3. IInv /\ [Next]_vars => IInv'
    BY <1>2, FollowStep, VisitStep, DropStep DEF Next
  <1> QED
    BY <1>1, <1>3, PTL DEF Spec

\* The variables keep their types; the queue holds paths of the suite only.
THEOREM TypeCorrect == Spec => []TypeOK
  <1>1. IInv => TypeOK
    BY DEF IInv
  <1> QED
    BY <1>1, Inductive, PTL

\* No file is read twice (the set enqueued of both searches).
THEOREM AlwaysReadsOnce == Spec => []ReadsOnce
  <1>1. IInv => ReadsOnce
    BY DEF IInv
  <1> QED
    BY <1>1, Inductive, PTL

\* At the end the files read are closed, and lie in every closed set: they are
\* the reachable ones (schemaClosure, collectClosure).
LEMMA FoundAtEnd == IInv => FindsReachable
  <1> SUFFICES ASSUME IInv, Done PROVE fixtures = disk.preset \cup Reachable
    BY DEF FindsReachable
  <1>t. TypeOK /\ SetsInv /\ KnownInv /\ SeenInv
    BY DEF IInv
  <1>e. Elems(queue) = {} /\ Known = enqueued
    BY ElemsEmpty DEF Done, Known
  <1>1. read = enqueued \cap disk.readable
    BY <1>t, <1>e DEF SetsInv
  <1>2. Remote \notin disk.readable
    BY <1>t, ClosureAssumption DEF TypeOK, DiskType
  <1>3. Closed(read)
    BY <1>t, <1>e, <1>1, <1>2 DEF Closed, SeenInv
  <1>4. read = Reachable
    BY <1>t, <1>e, <1>1, <1>3 DEF Reachable, KnownInv
  <1> QED
    BY <1>t, <1>4 DEF SetsInv

THEOREM AlwaysFindsReachable == Spec => []FindsReachable
  BY Inductive, FoundAtEnd, PTL
===============================================================================
