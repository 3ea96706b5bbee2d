---------------------------- MODULE SuiteTree_proofs ----------------------------
(***************************************************************************)
(* Proofs about SuiteTree for any files, tables, revisions and catalogs,   *)
(* any curated fixtures and both families of suites: type correctness and  *)
(* the state invariants that the runs check.                               *)
(*                                                                         *)
(* What a successful fetch promises is won file by file: CopyInv says that *)
(* whatever is off the list is in place, CleanInv that nothing but copies  *)
(* has come since the tree was removed.  VerifyInv is the same for the     *)
(* tables a verify has passed.                                             *)
(***************************************************************************)
EXTENDS SuiteTree, TLAPS

\* The command at hand: a fetch has a revision, its list holds fixtures, what
\* is open is on the list and in the checkout; a generate lists tables of its
\* catalog; nothing is open or listed elsewhere.
JobInv ==
  /\ cmd = "fetch" /\ pc \notin Ended => tree = NoSource
  /\ cmd = "fetch" /\ pc \in {"remove", "catalog", "copy", "overlay"} => rev \in Rev
  /\ cmd = "fetch" /\ pc = "copy" =>
       /\ todo \subseteq Needed(rev)
       /\ open # "none" => open \in todo /\ Holds(rev, open)
  /\ cmd = "fetch" /\ pc = "overlay" =>
       /\ Rebuilt
       /\ todo \subseteq Overlay
       /\ open # "none" => open \in todo
  /\ cmd # "fetch" /\ pc = "tables" =>
       /\ todo \subseteq Tables(rev)
       /\ open # "none" => open \in todo
  /\ pc \in {"source", "remove", "catalog", "read", "ok", "error"} => open = "none"
  /\ pc = "manifest" => open \in {"none", "manifest"}
  /\ cmd = "verify" => open = "none"
  /\ pc \in {"source", "remove", "catalog", "copy", "overlay"} => cmd = "fetch"
  /\ pc \in {"read", "manifest", "tables"} => cmd \in {"generate", "verify"}

InPlace(f) == f \in Needed(rev) /\ Holds(rev, f) => fixtures[f] = rev

\* What is off the list has been copied.
CopyInv ==
  /\ pc = "copy" => \A f \in File \ todo : InPlace(f)
  /\ pc = "overlay" =>
       \A f \in File :
         /\ f \notin Overlay => InPlace(f)
         /\ f \in Overlay \ todo => fixtures[f] = "curated"

\* A tree that was removed holds only what this fetch has put there.
CleanInv ==
  Rebuilt =>
    /\ pc = "catalog" => \A f \in File : fixtures[f] = "absent"
    /\ pc = "copy" =>
         \A f \in File : fixtures[f] # "absent" => f \in Needed(rev) /\ Holds(rev, f)
    /\ pc = "overlay" =>
         \A f \in File : fixtures[f] # "absent" =>
           f \in Overlay \/ (f \in Needed(rev) /\ Holds(rev, f))

\* What is off the list has been compared.
VerifyInv ==
  cmd = "verify" /\ pc \in {"tables", "ok"} =>
    /\ manifest = <<lock, Counts(rev)>>
    /\ \A t \in Tables(rev) : pc = "ok" \/ t \notin todo => SameTable(t, rev)

TreeInv == FetchedTreeIsWhole /\ RebuiltTreeIsClean

IInv == TypeOK /\ JobInv /\ CopyInv /\ CleanInv /\ VerifyInv /\ TreeInv

-------------------------------------------------------------------------------
\* A catalog names tables and files of the suite.
LEMMA CatalogTypes ==
  ASSUME NEW r \in Rev
  PROVE /\ Tables(r) \subseteq Table
        /\ Needed(r) \subseteq File
        /\ Counts(r) \in Nat
        /\ Tables(NoSource) = {} /\ Counts(NoSource) = NoSource
  <1>1. Catalog[r] \in CatalogType
    BY SuiteTreeAssumption
  <1>2. PICK D \in SUBSET Table : Catalog[r].tables \in [D -> SUBSET File]
    BY <1>1 DEF CatalogType
  <1>3. Catalog[r].extra \subseteq File
    BY <1>1 DEF CatalogType
  <1>4. \A t \in D : Reads(t, r) \subseteq File
    BY <1>2 DEF Reads
  <1>5. Counts(r) \in Nat /\ Counts(NoSource) = NoSource
    BY <1>1, SuiteTreeAssumption DEF CatalogType, Counts
  <1> QED
    BY SuiteTreeAssumption, <1>2, <1>3, <1>4, <1>5 DEF Tables, Needed

LEMMA InitInv == Init => IInv
  BY SuiteTreeAssumption
     DEF Init, IInv, TypeOK, PC, JobInv, CopyInv, CleanInv, VerifyInv, TreeInv,
         FetchedTreeIsWhole, RebuiltTreeIsClean, Ended

-------------------------------------------------------------------------------
\* Types need the list: a table is written from a revision because only a
\* revision has tables.
LEMMA TypeStep == IInv /\ [Next]_vars => TypeOK'
  <1> SUFFICES ASSUME IInv, [Next]_vars PROVE TypeOK'
    OBVIOUS
  <1>t. TypeOK /\ JobInv
    BY DEF IInv
  <1>c. /\ \A r \in Rev : Tables(r) \subseteq Table /\ Needed(r) \subseteq File
        /\ Tables(NoSource) = {}
        /\ Counts(rev) \in Nat \cup {NoSource}
    BY <1>t, SuiteTreeAssumption, CatalogTypes DEF TypeOK
  <1> USE SuiteTreeAssumption DEF TypeOK, PC, Goto, At, Disk, job, Ended
  <1>1. ASSUME NEW c \in {"fetch", "generate", "verify"}, Start(c) PROVE TypeOK'
    BY <1>t, <1>1 DEF Start
  <1>2. CASE FetchSource
    BY <1>t, <1>2 DEF FetchSource
  <1>3. CASE RemoveAll
    BY <1>t, <1>3 DEF RemoveAll
  <1>4. CASE ReadCatalog
    BY <1>t, <1>c, <1>4 DEF ReadCatalog, JobInv
  <1>5. CASE CreateFixture
    BY <1>t, <1>c, <1>5 DEF CreateFixture, JobInv
  <1>6. CASE WriteFixture
    BY <1>t, <1>6 DEF WriteFixture, JobInv
  <1>7. CASE SkipMissing \/ StopAtMissing \/ StartOverlay \/ FetchDone
    BY <1>t, <1>7 DEF SkipMissing, StopAtMissing, StartOverlay, Copied, FetchDone, JobInv
  <1>8. CASE ReadSource \/ CreateManifest
    BY <1>t, <1>8 DEF ReadSource, CreateManifest
  <1>9. CASE WriteManifest
    BY <1>t, <1>c, <1>9 DEF WriteManifest
  <1>10. CASE CreateTable
    BY <1>t, <1>c, <1>10 DEF CreateTable, JobInv
  <1>11. CASE WriteTable
    <2>1. rev \in Rev
      BY <1>t, <1>c, <1>11 DEF WriteTable, JobInv
    <2> QED
      BY <1>t, <1>11, <2>1 DEF WriteTable
  <1>12. CASE VerifyManifest \/ VerifyTable \/ TablesDone
    BY <1>t, <1>c, <1>12 DEF VerifyManifest, VerifyTable, TablesDone
  <1>13. CASE Abort \/ Repin \/ RemoveSource
    BY <1>t, <1>13 DEF Abort, Repin, RemoveSource
  <1>14. CASE UNCHANGED vars
    BY <1>t, <1>14 DEF vars
  <1> QED
    BY <1>1, <1>2, <1>3, <1>4, <1>5, <1>6, <1>7, <1>8, <1>9, <1>10, <1>11, <1>12,
       <1>13, <1>14 DEF Next, Fetch, Generate

LEMMA JobStep == IInv /\ [Next]_vars => JobInv'
  <1> SUFFICES ASSUME IInv, [Next]_vars PROVE JobInv'
    OBVIOUS
  <1>t. TypeOK /\ JobInv
    BY DEF IInv
  <1> USE DEF JobInv, Goto, At, Disk, job, Ended
  <1>1. ASSUME NEW c \in {"fetch", "generate", "verify"}, Start(c) PROVE JobInv'
    BY <1>1 DEF Start
  <1>2. CASE FetchSource
    <2>1. source' \in Rev
      BY <1>t, <1>2, SuiteTreeAssumption DEF FetchSource, TypeOK
    <2> QED
      BY <1>t, <1>2, <2>1 DEF FetchSource
  <1>3. CASE RemoveAll
    BY <1>t, <1>3 DEF RemoveAll
  <1>4. CASE ReadCatalog
    BY <1>t, <1>4 DEF ReadCatalog
  <1>5. CASE CreateFixture
    BY <1>t, <1>5 DEF CreateFixture
  <1>6. CASE WriteFixture
    BY <1>t, <1>6 DEF WriteFixture
  <1>7. CASE SkipMissing
    BY <1>t, <1>7 DEF SkipMissing
  <1>8. CASE StopAtMissing \/ FetchDone
    BY <1>t, <1>8 DEF StopAtMissing, Copied, FetchDone
  <1>9. CASE StartOverlay
    BY <1>t, <1>9 DEF StartOverlay
  <1>10. CASE ReadSource \/ CreateManifest
    BY <1>t, <1>10 DEF ReadSource, CreateManifest
  <1>11. CASE WriteManifest
    BY <1>t, <1>11 DEF WriteManifest
  <1>12. CASE CreateTable
    BY <1>t, <1>12 DEF CreateTable
  <1>13. CASE WriteTable
    BY <1>t, <1>13 DEF WriteTable
  <1>14. CASE VerifyManifest
    BY <1>t, <1>14 DEF VerifyManifest
  <1>15. CASE VerifyTable
    BY <1>t, <1>15 DEF VerifyTable
  <1>16. CASE TablesDone
    BY <1>t, <1>16 DEF TablesDone
  <1>17. CASE Abort \/ Repin \/ RemoveSource
    BY <1>t, <1>17 DEF Abort, Repin, RemoveSource
  <1>18. CASE UNCHANGED vars
    BY <1>t, <1>18 DEF vars
  <1> QED
    BY <1>1, <1>2, <1>3, <1>4, <1>5, <1>6, <1>7, <1>8, <1>9, <1>10, <1>11, <1>12,
       <1>13, <1>14, <1>15, <1>16, <1>17, <1>18 DEF Next, Fetch, Generate

\* The steps of a fetch that do not touch testdata, and all other steps.
Quiet ==
  \/ \E c \in {"fetch", "generate", "verify"} : Start(c)
  \/ FetchSource \/ StopAtMissing
  \/ Generate \/ Abort \/ Repin \/ RemoveSource
  \/ UNCHANGED vars

\* None of them is inside the copy, and none changes a copied file.
LEMMA QuietStep ==
  ASSUME IInv, Quiet
  PROVE /\ fixtures' = fixtures
        /\ pc' \in {"catalog", "copy", "overlay"} =>
             \/ UNCHANGED <<pc, rev, todo>>
             \/ pc' = "catalog" /\ ~Rebuilt
        /\ tree' = tree \/ tree' = NoSource
  <1>t. TypeOK /\ JobInv
    BY DEF IInv
  <1> USE <1>t DEF Goto, At, Disk, job, Ended, TypeOK, JobInv
  <1>1. ASSUME NEW c \in {"fetch", "generate", "verify"}, Start(c)
        PROVE fixtures' = fixtures /\ pc' \in {"source", "read"} /\ tree' \in {tree, NoSource}
    BY <1>1 DEF Start
  <1>2. CASE FetchSource
    BY <1>2 DEF FetchSource
  <1>3. CASE StopAtMissing
    BY <1>3 DEF StopAtMissing
  <1>4. CASE ReadSource \/ CreateManifest \/ WriteManifest
    BY <1>4 DEF ReadSource, CreateManifest, WriteManifest
  <1>5. CASE CreateTable \/ WriteTable
    BY <1>5 DEF CreateTable, WriteTable
  <1>6. CASE VerifyManifest \/ VerifyTable \/ TablesDone
    BY <1>6 DEF VerifyManifest, VerifyTable, TablesDone
  <1>7. CASE Abort \/ Repin \/ RemoveSource
    BY <1>7 DEF Abort, Repin, RemoveSource
  <1>8. CASE UNCHANGED vars
    BY <1>8 DEF vars
  <1> QED
    BY <1>1, <1>2, <1>3, <1>4, <1>5, <1>6, <1>7, <1>8 DEF Quiet, Generate

LEMMA StepCases ==
  [Next]_vars =>
    \/ RemoveAll \/ ReadCatalog \/ CreateFixture \/ WriteFixture
    \/ SkipMissing \/ StartOverlay \/ FetchDone \/ Quiet
  BY DEF Next, Fetch, Quiet

LEMMA CopyStep == IInv /\ [Next]_vars => CopyInv'
  <1> SUFFICES ASSUME IInv, [Next]_vars PROVE CopyInv'
    OBVIOUS
  <1>t. TypeOK /\ JobInv /\ CopyInv
    BY DEF IInv
  <1> USE <1>t DEF CopyInv, InPlace, Goto, At, Disk, Ended, TypeOK, JobInv
  <1>1. CASE RemoveAll
    BY <1>1 DEF RemoveAll
  <1>2. CASE ReadCatalog
    BY <1>2 DEF ReadCatalog
  <1>3. CASE CreateFixture
    BY <1>3 DEF CreateFixture
  <1>4. CASE WriteFixture
    <2>1. open \in todo /\ open # "none"
      BY <1>4, SuiteTreeAssumption DEF WriteFixture
    <2>2. CASE pc = "copy"
      BY <1>4, <2>1, <2>2 DEF WriteFixture
    <2>3. CASE pc = "overlay"
      BY <1>4, <2>1, <2>3 DEF WriteFixture
    <2> QED
      BY <1>4, <2>2, <2>3 DEF WriteFixture
  <1>5. CASE SkipMissing
    BY <1>5 DEF SkipMissing
  <1>6. CASE StartOverlay
    BY <1>6 DEF StartOverlay
  <1>7. CASE FetchDone
    BY <1>7 DEF FetchDone, Copied
  <1>8. CASE Quiet
    BY <1>8, QuietStep
  <1> QED
    BY <1>1, <1>2, <1>3, <1>4, <1>5, <1>6, <1>7, <1>8, StepCases

LEMMA CleanStep == IInv /\ [Next]_vars => CleanInv'
  <1> SUFFICES ASSUME IInv, [Next]_vars PROVE CleanInv'
    OBVIOUS
  <1>t. TypeOK /\ JobInv /\ CleanInv
    BY DEF IInv
  <1> USE <1>t DEF CleanInv, Goto, At, Disk, Ended, TypeOK, JobInv
  <1>1. CASE RemoveAll
    BY <1>1 DEF RemoveAll
  <1>2. CASE ReadCatalog
    BY <1>2 DEF ReadCatalog
  <1>3. CASE CreateFixture
    BY <1>3 DEF CreateFixture
  <1>4. CASE WriteFixture
    <2>1. open \in todo /\ open # "none"
      BY <1>4, SuiteTreeAssumption DEF WriteFixture
    <2>2. CASE pc = "copy"
      BY <1>4, <2>1, <2>2 DEF WriteFixture
    <2>3. CASE pc = "overlay"
      BY <1>4, <2>1, <2>3 DEF WriteFixture
    <2> QED
      BY <1>4, <2>2, <2>3 DEF WriteFixture
  <1>5. CASE SkipMissing
    BY <1>5 DEF SkipMissing
  <1>6. CASE StartOverlay
    BY <1>6 DEF StartOverlay
  <1>7. CASE FetchDone
    BY <1>7 DEF FetchDone, Copied
  <1>8. CASE Quiet
    BY <1>8, QuietStep
  <1> QED
    BY <1>1, <1>2, <1>3, <1>4, <1>5, <1>6, <1>7, <1>8, StepCases

\* FetchDone turns what the copy has established into the promise; from then on
\* nothing touches testdata but a fetch, which withdraws it first.
LEMMA TreeStep == IInv /\ [Next]_vars => TreeInv'
  <1> SUFFICES ASSUME IInv, [Next]_vars PROVE TreeInv'
    OBVIOUS
  <1>t. TypeOK /\ JobInv /\ CopyInv /\ CleanInv /\ TreeInv
    BY DEF IInv
  <1>a. ~Rebuilt => Overlay = {}
    BY SuiteTreeAssumption
  <1> USE <1>t DEF TreeInv, FetchedTreeIsWhole, RebuiltTreeIsClean, Goto, At, Disk, Ended
  <1>1. CASE RemoveAll \/ ReadCatalog \/ CreateFixture
    BY <1>1 DEF RemoveAll, ReadCatalog, CreateFixture, JobInv
  <1>2. CASE WriteFixture \/ SkipMissing \/ StartOverlay
    BY <1>2 DEF WriteFixture, SkipMissing, StartOverlay, JobInv
  <1>3. CASE FetchDone
    BY <1>3, <1>a DEF FetchDone, Copied, CopyInv, InPlace, CleanInv
  <1>4. CASE Quiet
    BY <1>4, QuietStep
  <1> QED
    BY <1>1, <1>2, <1>3, <1>4, StepCases

LEMMA VerifyStep == IInv /\ [Next]_vars => VerifyInv'
  <1> SUFFICES ASSUME IInv, [Next]_vars PROVE VerifyInv'
    OBVIOUS
  <1>t. TypeOK /\ JobInv /\ VerifyInv
    BY DEF IInv
  <1> USE <1>t DEF VerifyInv, SameTable, Goto, At, Disk, job, Ended, JobInv
  <1>1. ASSUME NEW c \in {"fetch", "generate", "verify"}, Start(c) PROVE VerifyInv'
    BY <1>1 DEF Start
  <1>2. CASE FetchSource \/ RemoveAll \/ ReadCatalog \/ CreateFixture \/ WriteFixture
    BY <1>2 DEF FetchSource, RemoveAll, ReadCatalog, CreateFixture, WriteFixture
  <1>3. CASE SkipMissing \/ StopAtMissing \/ StartOverlay \/ FetchDone
    BY <1>3 DEF SkipMissing, StopAtMissing, StartOverlay, Copied, FetchDone
  <1>4. CASE ReadSource \/ CreateManifest \/ WriteManifest \/ CreateTable \/ WriteTable
    BY <1>4 DEF ReadSource, CreateManifest, WriteManifest, CreateTable, WriteTable
  <1>5. CASE VerifyManifest
    BY <1>5 DEF VerifyManifest
  <1>6. CASE VerifyTable
    BY <1>6 DEF VerifyTable
  <1>7. CASE TablesDone
    BY <1>7 DEF TablesDone
  <1>8. CASE Abort \/ Repin \/ RemoveSource
    BY <1>8 DEF Abort, Repin, RemoveSource
  <1>9. CASE UNCHANGED vars
    BY <1>9 DEF vars
  <1> QED
    BY <1>1, <1>2, <1>3, <1>4, <1>5, <1>6, <1>7, <1>8, <1>9 DEF Next, Fetch, Generate

-------------------------------------------------------------------------------
THEOREM Inductive == Spec => []IInv
  <1>1. Init => IInv
    BY InitInv
  <1>2. IInv /\ [Next]_vars => IInv'
    BY TypeStep, JobStep, CopyStep, CleanStep, VerifyStep, TreeStep DEF IInv
  <1> QED
    BY <1>1, <1>2, PTL DEF Spec

\* The variables keep their types.
THEOREM TypeCorrect == Spec => []TypeOK
  <1>1. IInv => TypeOK
    BY DEF IInv
  <1> QED
    BY <1>1, Inductive, PTL

\* After a successful fetch every file the catalog names and the checkout holds
\* is in testdata, whole and of that checkout (populateFixtures).
THEOREM FetchedTreeAlwaysWhole == Spec => []FetchedTreeIsWhole
  <1>1. IInv => FetchedTreeIsWhole
    BY DEF IInv, TreeInv
  <1> QED
    BY <1>1, Inductive, PTL

\* No stale file survives a successful fetch of qt3 or xslt30.
THEOREM RebuiltTreeAlwaysClean == Spec => []RebuiltTreeIsClean
  <1>1. IInv => RebuiltTreeIsClean
    BY DEF IInv, TreeInv
  <1> QED
    BY <1>1, Inductive, PTL

\* A green verify has compared the manifest and every table (WriteGoFile).
THEOREM VerifyAlwaysHonest == Spec => []VerifyIsHonest
  <1>1. IInv => VerifyIsHonest
    BY DEF IInv, VerifyInv, VerifyIsHonest
  <1> QED
    BY <1>1, Inductive, PTL

\* A green fetch and a green verify of one checkout promise that the compiled
\* cases find their fixtures.
THEOREM VerifiedCasesAlwaysHaveFixtures == Spec => []VerifiedCasesHaveFixtures
  <1>1. IInv => VerifiedCasesHaveFixtures
    <2> SUFFICES ASSUME IInv, cmd = "verify", pc = "ok", tree # NoSource, rev = tree,
                        NEW t \in Tables(rev), NEW f \in Reads(t, gen[t]),
                        Holds(tree, f) \/ f \in Overlay
                 PROVE fixtures[f] \in {tree, "curated"}
      BY DEF VerifiedCasesHaveFixtures
    <2>1. Reads(t, gen[t]) = Reads(t, rev)
      BY DEF IInv, VerifyInv, SameTable
    <2>2. rev \in Rev
      BY DEF IInv, TypeOK
    <2>3. f \in Needed(rev) /\ f \in File
      BY <2>1, <2>2, CatalogTypes DEF Needed
    <2> QED
      BY <2>3 DEF IInv, TreeInv, FetchedTreeIsWhole
  <1> QED
    BY <1>1, Inductive, PTL
===============================================================================
