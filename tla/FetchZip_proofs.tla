---------------------------- MODULE FetchZip_proofs ----------------------------
(***************************************************************************)
(* Proofs about FetchZip for any number of invocations, any archives and   *)
(* any number of kills: type correctness, the three state invariants that  *)
(* the runs check, and that FetchZip implements AtomicInstall.             *)
(*                                                                         *)
(* The invariants are not inductive alone: what Rename moves into place is *)
(* whole and acceptable because of what each invocation established on its *)
(* way there, from the lock file it read to the tree it unpacked.          *)
(***************************************************************************)
EXTENDS FetchZip, TLAPS

\* An invocation still has a lock file's digest, and from "verify" on its data.
WantInv ==
  /\ pin \in published
  /\ \A p \in Procs : pc[p] \notin Idle => want[p] \in published
  /\ \A p \in Procs : pc[p] = "verify" => data[p] # None

\* Past the check the data is acceptable under the digest it was checked with.
CheckedInv ==
  \A p \in Procs : pc[p] \in {"mktemp", "extract", "rename"} =>
    /\ data[p] # None
    /\ data[p] \notin NotZip
    /\ want[p] \in {Unpinned, data[p]}

\* The temporary directory exists exactly while unpacking and renaming, holds
\* the checked data, and is whole when it is about to be renamed.
TmpInv ==
  \A p \in Procs :
    /\ tmp[p] # None <=> pc[p] \in {"extract", "rename"}
    /\ tmp[p] # None => tmp[p].archive = data[p]
    /\ pc[p] = "rename" => Complete(tmp[p])

SourceInv == SourceIsComplete /\ SourceIsPinned

EndInv ==
  /\ \A p \in Procs : pc[p] = "ok" => source # None
  /\ litter <= crashes

IInv == TypeOK /\ WantInv /\ CheckedInv /\ TmpInv /\ SourceInv /\ EndInv

-------------------------------------------------------------------------------
LEMMA InitInv == Init => IInv
  BY FetchAssumption
     DEF Init, IInv, TypeOK, PC, Idle, WantInv, CheckedInv, TmpInv, SourceInv,
         SourceIsComplete, SourceIsPinned, EndInv

\* Types need the rest of the invariant: MkdirTemp records an archive only
\* because its data is one.
LEMMA TypeStep == IInv /\ [Next]_vars => TypeOK'
  <1> SUFFICES ASSUME IInv, [Next]_vars PROVE TypeOK'
    OBVIOUS
  <1>t. TypeOK /\ CheckedInv /\ TmpInv
    BY DEF IInv
  <1> USE FetchAssumption DEF Goto, Step, world, DigestAgrees
  <1>1. ASSUME NEW p \in Procs, Start(p) PROVE TypeOK'
    BY <1>t, <1>1 DEF Start, PC, Idle, TypeOK
  <1>2. ASSUME NEW p \in Procs, Advance(p) PROVE TypeOK'
    <2>1. CASE StatPresent(p) \/ StatAbsent(p)
      BY <1>t, <2>1 DEF StatPresent, StatAbsent, PC, Idle, TypeOK
    <2>2. CASE \E a \in Archives : Download(p, a)
      BY <1>t, <2>2 DEF Download, PC, Idle, TypeOK
    <2>3. CASE Verified(p) \/ Rejected(p) \/ FailEarly(p)
      BY <1>t, <2>3 DEF Verified, Rejected, FailEarly, PC, Idle, TypeOK
    <2>4. CASE MkdirTemp(p)
      <3>1. data[p] \in Archives
        BY <1>t, <2>4 DEF MkdirTemp, CheckedInv, TypeOK
      <3>2. [archive |-> data[p], entries |-> {}] \in Tree
        BY <3>1 DEF Tree
      <3> QED
        BY <1>t, <2>4, <3>2 DEF MkdirTemp, PC, Idle, TypeOK
    <2>5. CASE ExtractZipEntry(p)
      <3>1. tmp[p] \in Tree
        BY <1>t, <2>5 DEF ExtractZipEntry, TmpInv, TypeOK
      <3>2. PICK e \in Entries[tmp[p].archive] \ tmp[p].entries :
              tmp' = [tmp EXCEPT ![p].entries = @ \cup {e}]
        BY <2>5 DEF ExtractZipEntry
      <3>3. [tmp[p] EXCEPT !.entries = @ \cup {e}] \in Tree
        BY <3>1, <3>2 DEF Tree
      <3> QED
        BY <1>t, <2>5, <3>2, <3>3 DEF ExtractZipEntry, TypeOK
    <2>6. CASE ExtractDone(p)
      BY <1>t, <2>6 DEF ExtractDone, PC, Idle, TypeOK
    <2>7. CASE Rename(p)
      BY <1>t, <2>7 DEF Rename, PC, Idle, TypeOK
    <2>8. CASE FailLate(p)
      BY <1>t, <2>8 DEF FailLate, PC, Idle, TypeOK
    <2> QED
      BY <1>2, <2>1, <2>2, <2>3, <2>4, <2>5, <2>6, <2>7, <2>8 DEF Advance
  <1>3. ASSUME NEW p \in Procs, Crash(p) PROVE TypeOK'
    BY <1>t, <1>3 DEF Crash, PC, Idle, TypeOK
  <1>4. ASSUME NEW d \in Archives \cup {Unpinned}, Repin(d) PROVE TypeOK'
    BY <1>t, <1>4 DEF Repin, TypeOK
  <1>5. CASE UNCHANGED vars
    BY <1>t, <1>5 DEF vars, TypeOK
  <1> QED
    BY <1>1, <1>2, <1>3, <1>4, <1>5 DEF Next

\* The invariant without its types.
Facts == WantInv /\ CheckedInv /\ TmpInv /\ SourceInv /\ EndInv

LEMMA FactsStep == IInv /\ [Next]_vars => Facts'
  <1> SUFFICES ASSUME IInv, [Next]_vars PROVE Facts'
    OBVIOUS
  <1>t. TypeOK /\ Facts
    BY DEF IInv, Facts
  <1> USE FetchAssumption DEF Facts, WantInv, CheckedInv, TmpInv, SourceInv,
          SourceIsComplete, SourceIsPinned, EndInv, Complete, DigestAgrees
  <1>1. ASSUME NEW p \in Procs, Start(p) PROVE Facts'
    BY <1>t, <1>1 DEF Start, Step, Goto, Idle, TypeOK
  <1>2. ASSUME NEW p \in Procs, Advance(p) PROVE Facts'
    <2>1. CASE StatPresent(p) \/ StatAbsent(p)
      BY <1>t, <2>1 DEF StatPresent, StatAbsent, Step, Goto, Idle, TypeOK
    <2>2. CASE \E a \in Archives : Download(p, a)
      BY <1>t, <2>2 DEF Download, Step, Goto, Idle, TypeOK
    <2>3. CASE Verified(p)
      BY <1>t, <2>3 DEF Verified, Step, Goto, Idle, TypeOK
    <2>4. CASE Rejected(p)
      BY <1>t, <2>4 DEF Rejected, Step, Goto, Idle, TypeOK
    <2>5. CASE FailEarly(p)
      BY <1>t, <2>5 DEF FailEarly, Step, Goto, Idle, TypeOK
    <2>6. CASE MkdirTemp(p)
      <3>1. [archive |-> data[p], entries |-> {}] \in Tree
        BY <1>t, <2>6 DEF MkdirTemp, Tree, TypeOK
      <3> QED
        BY <1>t, <2>6, <3>1 DEF MkdirTemp, world, Goto, Idle, TypeOK
    <2>7. CASE ExtractZipEntry(p)
      <3>1. PICK e \in Entries[tmp[p].archive] : tmp' = [tmp EXCEPT ![p].entries = @ \cup {e}]
        BY <2>7 DEF ExtractZipEntry
      <3>2. /\ pc[p] = "extract" /\ tmp[p] # None /\ tmp[p] \in Tree
            /\ UNCHANGED <<source, pc, want, data, world>>
        BY <1>t, <2>7 DEF ExtractZipEntry, TypeOK
      <3>3. /\ tmp'[p] = [tmp[p] EXCEPT !.entries = @ \cup {e}]
            /\ tmp'[p].archive = tmp[p].archive
            /\ tmp'[p] \in Tree
            /\ \A q \in Procs \ {p} : tmp'[q] = tmp[q]
        BY <1>t, <3>1, <3>2 DEF TypeOK, Tree
      <3>4. tmp'[p] # None
        BY <3>3
      <3>5. WantInv' /\ CheckedInv' /\ SourceInv' /\ EndInv'
        BY <1>t, <3>2 DEF world
      <3>6. TmpInv'
        <4>1. SUFFICES ASSUME NEW q \in Procs
              PROVE  /\ tmp'[q] # None <=> pc[q] \in {"extract", "rename"}
                     /\ tmp'[q] # None => tmp'[q].archive = data[q]
                     /\ pc[q] = "rename" => Complete(tmp'[q])
          BY <3>2
        <4>2. CASE q = p
          BY <1>t, <3>2, <3>3, <3>4, <4>2
        <4>3. CASE q # p
          BY <1>t, <3>3, <4>3
        <4> QED
          BY <4>2, <4>3
      <3> QED
        BY <3>5, <3>6
    <2>8. CASE ExtractDone(p)
      BY <1>t, <2>8 DEF ExtractDone, world, Goto, Idle, TypeOK
    <2>9. CASE Rename(p)
      <3>1. tmp[p] \in Tree /\ tmp[p] # None
        BY <1>t, <2>9 DEF Rename, TypeOK
      <3>2. tmp[p].archive = data[p] /\ Complete(tmp[p])
        BY <1>t, <2>9, <3>1 DEF Rename
      <3>3. SourceInv'
        BY <1>t, <2>9, <3>1, <3>2 DEF Rename, world, Idle, TypeOK
      <3>4. WantInv' /\ CheckedInv' /\ EndInv'
        BY <1>t, <2>9, <3>1 DEF Rename, world, Goto, Idle, TypeOK
      <3>5. TmpInv'
        BY <1>t, <2>9 DEF Rename, world, Goto, TypeOK
      <3> QED
        BY <3>3, <3>4, <3>5
    <2>10. CASE FailLate(p)
      BY <1>t, <2>10 DEF FailLate, world, Goto, Idle, TypeOK
    <2> QED
      BY <1>2, <2>1, <2>2, <2>3, <2>4, <2>5, <2>6, <2>7, <2>8, <2>9, <2>10 DEF Advance
  <1>3. ASSUME NEW p \in Procs, Crash(p) PROVE Facts'
    BY <1>t, <1>3 DEF Crash, Goto, Idle, TypeOK
  <1>4. ASSUME NEW d \in Archives \cup {Unpinned}, Repin(d) PROVE Facts'
    BY <1>t, <1>4 DEF Repin
  <1>5. CASE UNCHANGED vars
    BY <1>t, <1>5 DEF vars
  <1> QED
    BY <1>1, <1>2, <1>3, <1>4, <1>5 DEF Next

LEMMA Invariance == Spec => []IInv
  <1>1. IInv /\ [Next]_vars => IInv'
    BY TypeStep, FactsStep DEF IInv, Facts
  <1> QED
    BY InitInv, <1>1, PTL DEF Spec

-------------------------------------------------------------------------------
\* Every reachable state is well typed.
THEOREM TypeCorrect == Spec => []TypeOK
  <1>1. IInv => TypeOK
    BY DEF IInv
  <1> QED
    BY Invariance, <1>1, PTL

\* The comment on fetchZip's rename, for any number of concurrent invocations,
\* failures and kills: the source directory is absent or whole.
THEOREM SourceAlwaysComplete == Spec => []SourceIsComplete
  <1>1. IInv => SourceIsComplete
    BY DEF IInv, SourceInv
  <1> QED
    BY Invariance, <1>1, PTL

\* What sits in the source directory was pinned by some lock file.
THEOREM SourceAlwaysPinned == Spec => []SourceIsPinned
  <1>1. IInv => SourceIsPinned
    BY DEF IInv, SourceInv
  <1> QED
    BY Invariance, <1>1, PTL

\* Success means a source directory, and only kills leave litter.
THEOREM OutcomeAlwaysHonest == Spec => []OutcomeIsHonest
  <1>1. IInv => OutcomeIsHonest
    BY DEF IInv, EndInv, TmpInv, OutcomeIsHonest, Idle
  <1> QED
    BY Invariance, <1>1, PTL

-------------------------------------------------------------------------------
\* A step of FetchZip is an Install of AtomicInstall or leaves it unchanged.
LEMMA InstallStep == IInv /\ [Next]_vars => [AI!InstallNext]_installed
  <1> SUFFICES ASSUME IInv, [Next]_vars PROVE [AI!InstallNext]_installed
    OBVIOUS
  <1>1. ASSUME NEW p \in Procs, Rename(p) PROVE AI!InstallNext
    <2>1. tmp[p] \in Tree /\ tmp[p] # None /\ Complete(tmp[p])
      BY <1>1 DEF Rename, IInv, TypeOK, TmpInv
    <2>2. tmp[p].archive \in Archives \ NotZip
      BY <1>1, <2>1 DEF Rename, IInv, CheckedInv, TmpInv, Tree
    <2>3. installed' = tmp[p].archive
      BY <1>1, <2>1 DEF Rename, installed, Complete
    <2>4. installed \in {a \in Archives \ NotZip : Entries[a] = {}} \cup {None}
      <3>1. CASE source = None
        BY <3>1 DEF installed
      <3>2. CASE source # None
        <4>1. Complete(source) /\ source \in Tree /\ source.archive \notin NotZip
          BY <3>2 DEF IInv, SourceInv, SourceIsComplete, SourceIsPinned, TypeOK
        <4>2. source.entries = {}
          BY <1>1, <3>2 DEF Rename, RenameWorks
        <4> QED
          BY <3>2, <4>1, <4>2 DEF installed, Complete, Tree
      <3> QED
        BY <3>1, <3>2
    <2> QED
      BY <2>2, <2>3, <2>4 DEF AI!InstallNext, AI!Install
  <1>2. ASSUME source' = source PROVE installed' = installed
    BY <1>2 DEF installed, Complete
  <1>3. CASE UNCHANGED vars
    BY <1>2, <1>3 DEF vars
  <1>4. ASSUME NEW p \in Procs, Start(p) \/ Crash(p) PROVE source' = source
    BY <1>4 DEF Start, Crash, Step
  <1>5. ASSUME NEW p \in Procs, Advance(p), ~Rename(p) PROVE source' = source
    BY <1>5 DEF Advance, StatPresent, StatAbsent, Download, Verified, Rejected,
         FailEarly, MkdirTemp, ExtractZipEntry, ExtractDone, FailLate, Step
  <1>6. ASSUME NEW d \in Archives \cup {Unpinned}, Repin(d) PROVE source' = source
    BY <1>6 DEF Repin
  <1> QED
    BY <1>1, <1>2, <1>3, <1>4, <1>5, <1>6 DEF Next

\* From outside, any number of invocations is one atomic installation.
THEOREM ImplementsAtomicInstall == Spec => InstallsAtomically
  <1>1. Init => AI!InstallInit
    BY DEF Init, installed, AI!InstallInit
  <1> QED
    BY Invariance, InstallStep, <1>1, PTL DEF Spec, InstallsAtomically, AI!InstallSpec
===============================================================================
