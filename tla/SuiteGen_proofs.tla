---------------------------- MODULE SuiteGen_proofs ----------------------------
(***************************************************************************)
(* Proofs about SuiteGen, for every checkout of every suite:               *)
(*                                                                         *)
(*   - the types;                                                          *)
(*   - what Fetch copies for the harness of XSD 1.0 is enough for it to    *)
(*     find the cases of the checkout: the set files and the catalog are   *)
(*     among the files wanted, and a fetch that ends well has copied every *)
(*     file wanted (FixturesInv);                                          *)
(*   - what expectations/qt3.json expects to fail is watched: its checks   *)
(*     at the start of the suite leave no row of such a name skipped;      *)
(*   - a tree fetched to its end holds every file its cases open, in all   *)
(*     four suites: a fetch copies what it wants (CopiedInv), each row     *)
(*     comes from a case whose files are wanted, and the searches through  *)
(*     schemas, entities and stylesheets want what helium will ask for;    *)
(*   - a mark of a false-pass risk is no false alarm, and the verdicts on  *)
(*     qt3 and xslt30 follow the result elements of the catalogs, by       *)
(*     induction over the trees of assertions.                             *)
(*                                                                         *)
(* What folds and recursive functions of the catalogs compute is reached   *)
(* through the lemmas of CatalogPaths_proofs.                              *)
(***************************************************************************)
EXTENDS SuiteGen, CatalogPaths_proofs

\* A row is judged when the tables are there, so they do not change any more.
JudgedLast == pc # "done" => verdict = NoVerdict

IInv == TypeOK /\ JudgedLast

\* A step that judges nothing.
LEMMA Unjudged ==
  ASSUME IInv, pc # "done", verdict' = verdict, cmd' = cmd,
         pc' \in {"collect", "copy", "overlay", "done", "failed"},
         testdata' \subseteq src'.files \cup Overlay \cup DOMAIN XSLT!AssetSource \cup {Leftover}
  PROVE  IInv'
<1>1. verdict' = NoVerdict
  BY DEF IInv, JudgedLast
<1>2. verdict'.row = 0 /\ verdict'.status = "none"
  BY <1>1 DEF NoVerdict
<1> QED BY <1>1, <1>2 DEF IInv, TypeOK, JudgedLast

\* What the harness of qt3 makes of a case.
LEMMA RunCaseVerdict ==
  ASSUME NEW row, NEW listed, NEW u \in {"ready", "fatal", "skip"}, NEW o
  PROVE  QT3!RunCase(row, listed, u, o) \in {"pass", "fail", "skip"}
BY DEF QT3!RunCase

\* What the harness of xslt30 makes of a case.
LEMMA XSLTVerdict ==
  ASSUME JudgeXSLT
  PROVE  verdict'.row \in DOMAIN rows /\ verdict'.listed = {} /\ verdict'.status \in {"pass", "fail"}
<1> DEFINE status(i, o) == IF XSLT!Passes(rows[i], o) THEN "pass" ELSE "fail"
<1>1. \A i, o : status(i, o) \in {"pass", "fail"}
  OBVIOUS
<1>2. \E i \in DOMAIN rows, o \in Outcomes :
        verdict' = [row |-> i, outcome |-> o, listed |-> {}, setUp |-> "ready", status |-> status(i, o)]
  BY DEF JudgeXSLT
<1> HIDE DEF status
<1> QED BY <1>1, <1>2

\* The step that judges keeps the types ...
LEMMA JudgeStep == ASSUME IInv, Judge PROVE IInv'
<1>1. /\ pc = "done"
      /\ UNCHANGED <<src, cmd, pc, manifest, rows, files, testdata>>
  BY DEF Judge
<1>2. verdict'.row \in DOMAIN rows /\ verdict'.status \in {"pass", "fail", "skip"}
  <2>1. CASE JudgeQT3
    <3> DEFINE listed(i, e) == {l \in {"skip", "xfail"} : rows[i].name \in e[l]}
    <3>1. PICK e \in Listings, i \in DOMAIN rows, o \in Outcomes : \E u \in QT3!SetUps(rows[i]) :
            verdict' = [row |-> i, outcome |-> o, listed |-> listed(i, e), setUp |-> u,
                        status |-> QT3!RunCase(rows[i], listed(i, e), u, o)]
      BY <2>1 DEF JudgeQT3
    <3>2. PICK u \in {"ready", "fatal", "skip"} :
            /\ verdict'.row = i
            /\ verdict'.status = QT3!RunCase(rows[i], listed(i, e), u, o)
      BY <3>1 DEF QT3!SetUps
    <3> QED BY <3>2, RunCaseVerdict
  <2>2. CASE JudgeXSLT
    BY <2>2, XSLTVerdict
  <2> QED BY <2>1, <2>2 DEF Judge
<1> QED BY <1>1, <1>2 DEF IInv, TypeOK, JudgedLast

\* ... as does every other.
LEMMA TypesStep == ASSUME IInv, [Next]_vars PROVE IInv'
<1> DEFINE Room == src.files \cup Overlay \cup DOMAIN XSLT!AssetSource \cup {Leftover}
<1>t. testdata \subseteq Room
  BY DEF IInv, TypeOK
<1>1. CASE RemoveAll
  BY <1>1, Unjudged DEF RemoveAll
<1>2. CASE WriteManifest
  <2>1. /\ pc' \in {"failed", "done", "collect"} /\ pc # "done"
        /\ UNCHANGED <<src, cmd, testdata, verdict>>
    BY <1>2 DEF WriteManifest
  <2> QED BY <2>1, <1>t, Unjudged
<1>3. CASE Tabulate
  <2>1. /\ pc' \in {"failed", "done"} /\ pc # "done"
        /\ UNCHANGED <<src, cmd, testdata, verdict>>
    BY <1>3 DEF Tabulate
  <2> QED BY <2>1, <1>t, Unjudged
<1>4. CASE Collect
  <2>1. /\ pc' \in {"failed", "copy", "done"} /\ pc # "done"
        /\ UNCHANGED <<src, cmd, testdata, verdict>>
    BY <1>4 DEF Collect
  <2> QED BY <2>1, <1>t, Unjudged
<1>5. CASE CopyFiles
  <2> DEFINE there == {p \in Wanted : IF IsQT3 THEN p \in src.files ELSE XSLT!Available(src, p)}
  <2>1. there \subseteq Room
    BY DEF XSLT!Available
  <2>2. /\ pc' \in {"overlay", "failed"} /\ pc # "done"
        /\ testdata' \subseteq there
        /\ UNCHANGED <<src, cmd, verdict>>
    BY <1>5 DEF CopyFiles
  <2> QED BY <2>1, <2>2, Unjudged
<1>6. CASE PopulateFixtures
  <2>1. /\ pc' \in {"done", "failed"} /\ pc # "done"
        /\ testdata' \subseteq testdata \cup src.files
        /\ UNCHANGED <<src, cmd, verdict>>
    BY <1>6 DEF PopulateFixtures
  <2> QED BY <2>1, <1>t, Unjudged
<1>7. CASE CopyOverlay
  BY <1>7, <1>t, Unjudged DEF CopyOverlay
<1>8. CASE Judge
  BY <1>8, JudgeStep
<1>9. CASE UNCHANGED vars
  BY <1>9 DEF vars, IInv, TypeOK, JudgedLast
<1> QED BY <1>1, <1>2, <1>3, <1>4, <1>5, <1>6, <1>7, <1>8, <1>9 DEF Next

\* The types at the start.
LEMMA InitialTypes == Init => IInv
BY DEF Init, IInv, TypeOK, JudgedLast, NoVerdict

\* The types: what a fetch leaves in testdata comes from the checkout, from the
\* overlay or from before, and what is judged is a row of the tables.
THEOREM TypeCorrect == Spec => []TypeOK
<1>1. IInv => TypeOK
  BY DEF IInv
<1> QED BY InitialTypes, TypesStep, <1>1, PTL DEF Spec

-------------------------------------------------------------------------------
(* The harness of XSD 1.0 *)

\* A fetch of xsd11 on its way: first nothing is copied, then it is known what the
\* reader of XSD 1.0 will open, then all that was wanted is there.
FixturesInv ==
  IsXSTS /\ cmd = "fetch" =>
    /\ pc \in {"collect", "copy", "done", "failed"}
    /\ pc \in {"collect", "copy"} => testdata = {Leftover}
    /\ pc \in {"copy", "done"} => XSTS!ReadXSD10FixtureRels(src) \subseteq files
    /\ pc = "done" => files \subseteq src.files /\ testdata = {Leftover} \cup files

SourceInv == src \in Sources

\* Nothing is wanted or copied at the start.
LEMMA FixturesInit == Init => FixturesInv /\ SourceInv
BY DEF Init, FixturesInv, SourceInv, IsXSTS

\* What the reader of XSD 1.0 opens is wanted.
LEMMA WantedForXSD10 ==
  ASSUME NEW s, XSTS!CollectTests(s).ok
  PROVE  XSTS!ReadXSD10FixtureRels(s) \subseteq XSTS!CollectTests(s).files
<1> DEFINE for11 == UNION {XSTS!FixtureRels(s, r) : r \in XSTS!ToSet(XSTS!ReadCases(s))}
           for10 == XSTS!ReadXSD10FixtureRels(s)
<1>1. XSTS!CollectTests(s) =
        IF ~XSTS!Readable(s) THEN [ok |-> FALSE, rows |-> <<>>, files |-> {}]
        ELSE [ok |-> TRUE, rows |-> XSTS!ReadCases(s), files |-> for11 \cup for10]
  BY DEF XSTS!CollectTests
<1> HIDE DEF for11, for10
<1>2. for10 \subseteq XSTS!CollectTests(s).files
  BY <1>1
<1> QED BY <1>2 DEF for10

\* Each step keeps what is wanted and copied for XSD 1.0.
LEMMA FixturesStep == ASSUME FixturesInv, SourceInv, [Next]_vars PROVE FixturesInv' /\ SourceInv'
<1>1. src' = src /\ cmd' = cmd
  BY DEF Next, vars, RemoveAll, WriteManifest, Tabulate, Collect, CopyFiles, PopulateFixtures, CopyOverlay, Judge
<1>2. ASSUME IsXSTS', cmd' = "fetch" PROVE FixturesInv'
  <2> IsXSTS /\ cmd = "fetch" /\ ~Rebuilt /\ ~IsQT3 /\ ~IsXSLT
    BY <1>1, <1>2 DEF IsXSTS, Rebuilt, IsQT3, IsXSLT
  <2> USE DEF FixturesInv
  <2>1. CASE Collect
    <3> DEFINE walk == XSTS!CollectTests(src)
    <3>1. CollectTests = walk
      BY DEF CollectTests, IsQT3, IsXSLT, IsXSTS, IsXML
    <3>2. walk.ok => XSTS!ReadXSD10FixtureRels(src) \subseteq walk.files
      BY WantedForXSD10
    <3>3. pc' = IF walk.ok THEN "copy" ELSE "failed"
      BY <2>1, <3>1 DEF Collect
    <3>4. files' = walk.files /\ testdata' = testdata /\ pc = "collect"
      BY <2>1, <3>1 DEF Collect
    <3> QED BY <1>1, <3>2, <3>3, <3>4
  <2>2. CASE PopulateFixtures
    BY <1>1, <2>2 DEF PopulateFixtures
  <2>3. CASE Judge
    BY <2>3 DEF Judge, JudgeQT3, JudgeXSLT
  <2>4. CASE UNCHANGED vars
    BY <2>4 DEF vars, IsXSTS
  <2> QED BY <2>1, <2>2, <2>3, <2>4
      DEF Next, RemoveAll, WriteManifest, Tabulate, CopyFiles, CopyOverlay
<1> QED BY <1>1, <1>2 DEF FixturesInv, SourceInv

\* The reader looks at the catalog and at where the set files are, nothing else.
LEMMA SameSets ==
  ASSUME NEW s, NEW f, NEW g, XSTS!SuiteXML \in f, XSTS!SuiteXML \in g,
         XSTS!PresentSets(s, f) = XSTS!PresentSets(s, g)
  PROVE  XSTS!BuildXSD10Cases(s, f) = XSTS!BuildXSD10Cases(s, g)
<1>1. XSTS!Present(s, f) = XSTS!Present(s, g)
  BY DEF XSTS!Present
<1> QED BY <1>1 DEF XSTS!BuildXSD10Cases

\* What is copied leaves the reader the same sets to read.
LEMMA FixturesSuffice == FixturesInv /\ SourceInv => XSD10ReadsSameCases
<1> SUFFICES ASSUME FixturesInv, SourceInv, IsXSTS, cmd = "fetch", pc = "done"
             PROVE  XSTS!BuildXSD10Cases(src, testdata) = XSTS!BuildXSD10Cases(src, src.files)
  BY DEF XSD10ReadsSameCases
<1>1. /\ XSTS!ReadXSD10FixtureRels(src) \subseteq files
      /\ files \subseteq src.files
      /\ testdata = {Leftover} \cup files
  BY DEF FixturesInv
<1>2. XSTS!SuiteXML \in files
  BY <1>1 DEF XSTS!ReadXSD10FixtureRels
<1>3. ASSUME NEW t \in XSTS!PresentSets(src, src.files) PROVE XSTS!Clean(t.href) \in files
  BY <1>1 DEF XSTS!ReadXSD10FixtureRels
<1>4. ASSUME NEW t \in XSTS!ToSet(src.sets) PROVE XSTS!Clean(t.href) # Leftover
  BY LeftoverAssumption DEF SourceInv, IsXSTS, ToSet, XSTS!ToSet
<1>5. XSTS!PresentSets(src, testdata) = XSTS!PresentSets(src, src.files)
  BY <1>1, <1>3, <1>4 DEF XSTS!PresentSets
<1> QED BY <1>1, <1>2, <1>5, SameSets

\* The harness of XSD 1.0 finds, after a fetch that succeeded, the very cases that
\* the checkout has, however many sets there are and wherever they lie: the walk
\* that makes the list of fixtures foresees what the other walk will look for.
THEOREM XSD10AlwaysReadsSameCases == Spec => []XSD10ReadsSameCases
<1>1. FixturesInv /\ SourceInv /\ [Next]_vars => FixturesInv' /\ SourceInv'
  BY FixturesStep
<1> QED BY FixturesInit, FixturesSuffice, <1>1, PTL DEF Spec

-------------------------------------------------------------------------------
(* Expected failures *)

\* Of a case that is expected to fail, once its suite has started: only a schema
\* helium cannot compile skips it, and a fixture that cannot be read fails it.
ExpectedFailureWatched ==
  "xfail" \in verdict.listed =>
    /\ verdict.status = "skip" => verdict.setUp = "skip"
    /\ verdict.setUp = "fatal" => verdict.status = "fail"

\* A verdict on an expected failure is one the checks at the start allow.
LEMMA WatchedStep == ASSUME ExpectedFailureWatched, [Next]_vars PROVE ExpectedFailureWatched'
<1>1. CASE verdict' = verdict
  BY <1>1 DEF ExpectedFailureWatched
<1>2. CASE JudgeXSLT
  <2>1. verdict'.listed = {}
    BY <1>2, XSLTVerdict
  <2> QED BY <2>1 DEF ExpectedFailureWatched
<1>3. CASE JudgeQT3
  <2> DEFINE listed(i, e) == {l \in {"skip", "xfail"} : rows[i].name \in e[l]}
  <2>1. PICK e \in Listings, i \in DOMAIN rows, o \in Outcomes : \E u \in QT3!SetUps(rows[i]) :
          verdict' = [row |-> i, outcome |-> o, listed |-> listed(i, e), setUp |-> u,
                      status |-> QT3!RunCase(rows[i], listed(i, e), u, o)]
    BY <1>3 DEF JudgeQT3
  <2>0. PICK u \in {"ready", "fatal", "skip"} :
          verdict' = [row |-> i, outcome |-> o, listed |-> listed(i, e), setUp |-> u,
                      status |-> QT3!RunCase(rows[i], listed(i, e), u, o)]
    BY <2>1 DEF QT3!SetUps
  <2> SUFFICES ASSUME "xfail" \in listed(i, e)
               PROVE  /\ QT3!RunCase(rows[i], listed(i, e), u, o) = "skip" => u = "skip"
                      /\ u = "fatal" => QT3!RunCase(rows[i], listed(i, e), u, o) = "fail"
    BY <2>0 DEF ExpectedFailureWatched
  <2>2. QT3!ValidExpectations(e, rows)
    BY DEF Listings
  <2>3. rows[i].name \in e.xfail
    OBVIOUS
  <2>4. "skip" \notin listed(i, e)
    BY <2>2, <2>3 DEF QT3!ValidExpectations
  <2>5. rows[i].skip = ""
    <3>1. rows[i] \in QT3!Named(rows, rows[i].name)
      BY DEF QT3!Named, QT3!ToSet
    <3> QED BY <2>2, <2>3, <3>1 DEF QT3!ValidExpectations
  <2> QED BY <2>4, <2>5 DEF QT3!RunCase
<1> QED BY <1>1, <1>2, <1>3
    DEF Next, vars, RemoveAll, WriteManifest, Tabulate, Collect, CopyFiles, PopulateFixtures, CopyOverlay, Judge

\* The part of VerdictsFollowCatalog that does not depend on what a case asserts: no
\* entry of expectations/qt3.json that the suite accepts names a case that is then
\* passed over, and none turns a broken fixture into a failure that was expected.
THEOREM ExpectedFailuresAreWatched == Spec => []ExpectedFailureWatched
<1>1. Init => ExpectedFailureWatched
  BY DEF Init, ExpectedFailureWatched, NoVerdict
<1>2. ExpectedFailureWatched /\ [Next]_vars => ExpectedFailureWatched'
  BY WatchedStep
<1> QED BY <1>1, <1>2, PTL DEF Spec

-------------------------------------------------------------------------------
(* A fetch copies what it wants *)

\* What there is of the files wanted.
There == {p \in Wanted : IF IsQT3 THEN p \in src.files ELSE XSLT!Available(src, p)}

\* A fetch on its way: once the catalog has been read, rows and files are those of
\* the checkout; a fetch that ends well has copied what there is of the files.
CopiedInv ==
  cmd = "fetch" =>
    /\ pc \in {"remove", "collect", "copy", "overlay", "done", "failed"}
    /\ pc \in {"copy", "overlay", "done"} =>
         rows = CollectTests.rows /\ files = CollectTests.files /\ CollectTests.ok
    /\ pc = "overlay" => Rebuilt
    /\ pc \in {"overlay", "done"} /\ Rebuilt => There \subseteq testdata
    /\ pc = "done" /\ Rebuilt => Overlay \subseteq testdata
    /\ pc = "done" /\ ~Rebuilt => files \subseteq testdata

\* Nothing is copied at the start.
LEMMA CopiedInit == Init => CopiedInv /\ SourceInv
BY DEF Init, CopiedInv, SourceInv

\* Each step keeps what a fetch has copied.
LEMMA CopiedStep == ASSUME CopiedInv, SourceInv, [Next]_vars PROVE CopiedInv' /\ SourceInv'
<1>1. src' = src /\ cmd' = cmd
  BY DEF Next, vars, RemoveAll, WriteManifest, Tabulate, Collect, CopyFiles, PopulateFixtures, CopyOverlay, Judge
<1>2. CollectTests' = CollectTests /\ IsQT3' = IsQT3 /\ Rebuilt' = Rebuilt
  BY <1>1 DEF CollectTests, Rebuilt, IsQT3, IsXSLT, IsXSTS, IsXML
<1>3. files' = files => There' = There
  BY <1>1, <1>2 DEF There, Wanted
<1>4. ASSUME cmd = "fetch" PROVE CopiedInv'
  <2> USE DEF CopiedInv
  <2>1. CASE RemoveAll
    BY <1>1, <2>1 DEF RemoveAll
  <2>2. CASE Collect
    <3>1. /\ pc = "collect" /\ rows' = CollectTests.rows /\ files' = CollectTests.files
          /\ pc' = IF CollectTests.ok THEN "copy" ELSE "failed"
      BY <1>4, <2>2 DEF Collect
    <3> QED BY <1>1, <1>2, <3>1
  <2>3. CASE CopyFiles
    <3>1. /\ pc = "copy" /\ Rebuilt /\ rows' = rows /\ files' = files
          /\ pc' = "failed" \/ (pc' = "overlay" /\ testdata' = There)
      BY <2>3 DEF CopyFiles, There
    <3> QED BY <1>1, <1>2, <1>3, <1>4, <3>1
  <2>4. CASE PopulateFixtures
    <3>1. /\ pc = "copy" /\ ~Rebuilt /\ rows' = rows /\ files' = files
          /\ pc' = "failed" \/ (pc' = "done" /\ files \subseteq testdata')
      BY <2>4 DEF PopulateFixtures
    <3> QED BY <1>1, <1>2, <1>4, <3>1
  <2>5. CASE CopyOverlay
    BY <1>1, <1>2, <1>3, <1>4, <2>5 DEF CopyOverlay
  <2>6. CASE Judge \/ UNCHANGED vars
    <3>1. UNCHANGED <<src, cmd, pc, rows, files, testdata>>
      BY <2>6 DEF Judge, vars
    <3> QED BY <1>1, <1>2, <1>3, <1>4, <3>1
  <2>7. ~WriteManifest /\ ~Tabulate
    BY <1>4 DEF WriteManifest, Tabulate
  <2> QED BY <2>1, <2>2, <2>3, <2>4, <2>5, <2>6, <2>7 DEF Next
<1> QED BY <1>1, <1>4 DEF CopiedInv, SourceInv

\* What the instances share with this module.
LEMMA SameHelpers ==
  /\ \A s : XSTS!ToSet(s) = ToSet(s) /\ QT3!ToSet(s) = ToSet(s) /\ XSLT!ToSet(s) = ToSet(s) /\ XML!ToSet(s) = ToSet(s)
  /\ \A s : XSTS!IsList(s) = IsList(s) /\ QT3!IsList(s) = IsList(s) /\ XSLT!IsList(s) = IsList(s) /\ XML!IsList(s) = IsList(s)
  /\ \A s, S : XSTS!Among(s, S) = Among(s, S) /\ QT3!Among(s, S) = Among(s, S) /\ XSLT!Among(s, S) = Among(s, S)
  /\ \A s : XSTS!FlattenSeq(s) = FlattenSeq(s) /\ QT3!FlattenSeq(s) = FlattenSeq(s) /\ XSLT!FlattenSeq(s) = FlattenSeq(s) /\ XML!FlattenSeq(s) = FlattenSeq(s)
  /\ \A s, n : XSTS!Reached(s, n) = Reached(s, n) /\ QT3!Reached(s, n) = Reached(s, n) /\ XML!Reached(s, n) = Reached(s, n)
  /\ \A s : XSLT!Cardinality(s) = Cardinality(s) /\ XSLT!IsFiniteSet(s) = IsFiniteSet(s)
<1>1. \A s : XSTS!ToSet(s) = ToSet(s) /\ QT3!ToSet(s) = ToSet(s) /\ XSLT!ToSet(s) = ToSet(s) /\ XML!ToSet(s) = ToSet(s)
  BY DEF ToSet, XSTS!ToSet, QT3!ToSet, XSLT!ToSet, XML!ToSet
<1>2. \A s : XSTS!IsList(s) = IsList(s) /\ QT3!IsList(s) = IsList(s) /\ XSLT!IsList(s) = IsList(s) /\ XML!IsList(s) = IsList(s)
  BY <1>1 DEF IsList, XSTS!IsList, QT3!IsList, XSLT!IsList, XML!IsList
<1>3. \A s, S : XSTS!Among(s, S) = Among(s, S) /\ QT3!Among(s, S) = Among(s, S) /\ XSLT!Among(s, S) = Among(s, S)
  BY DEF Among, XSTS!Among, QT3!Among, XSLT!Among
<1>4. \A s : XSTS!FlattenSeq(s) = FlattenSeq(s) /\ QT3!FlattenSeq(s) = FlattenSeq(s) /\ XSLT!FlattenSeq(s) = FlattenSeq(s) /\ XML!FlattenSeq(s) = FlattenSeq(s)
  BY DEF FlattenSeq, XSTS!FlattenSeq, QT3!FlattenSeq, XSLT!FlattenSeq, XML!FlattenSeq
<1>5. \A s, n : XSTS!Reached(s, n) = Reached(s, n) /\ QT3!Reached(s, n) = Reached(s, n) /\ XML!Reached(s, n) = Reached(s, n)
  <2>1. \A s : XSTS!Cardinality(s) = Cardinality(s) /\ QT3!Cardinality(s) = Cardinality(s) /\ XML!Cardinality(s) = Cardinality(s)
    BY DEF Cardinality, XSTS!Cardinality, QT3!Cardinality, XML!Cardinality
  <2> QED BY <2>1 DEF Reached, Grown, XSTS!Reached, XSTS!Grown, QT3!Reached, QT3!Grown, XML!Reached, XML!Grown
<1>6. \A s : XSLT!Cardinality(s) = Cardinality(s) /\ XSLT!IsFiniteSet(s) = IsFiniteSet(s)
  BY DEF Cardinality, XSLT!Cardinality, IsFiniteSet, XSLT!IsFiniteSet
<1> QED BY <1>1, <1>2, <1>3, <1>4, <1>5, <1>6

-------------------------------------------------------------------------------
(* xml *)

\* What helium opens for a row of xml and the checkout has is in the row's fixtures.
LEMMA XMLOpensFixtures ==
  ASSUME NEW s, XML!IsCheckout(s), IsFiniteSet(s.files), NEW row
  PROVE  XML!Opens(s, row) \cap s.files \subseteq XML!FixtureRels(s, row)
<1> DEFINE There2(p) == {q \in XML!ExternalRefs(s, p) : XML!FileExists(s, q)}
           found == [p \in s.files |-> There2(p)]
           closure == Reached({row.uri}, found)
           step(p) == IF p \in DOMAIN s.refs /\ s.ext[p] \in XML!ScannedExt
                      THEN {XML!Clean(XML!Front(p) \o r) : r \in s.refs[p]} \cap s.files ELSE {}
           next == [p \in s.files |-> step(p)]
<1>1. XML!Opens(s, row) = Reached({row.uri}, next)
  BY SameHelpers DEF XML!Opens
<1>2. closure \subseteq XML!FixtureRels(s, row)
  BY SameHelpers DEF XML!FixtureRels, XML!CollectClosure
<1>3. \A p \in s.files : step(p) \subseteq There2(p)
  <2> SUFFICES ASSUME NEW p \in s.files, p \in DOMAIN s.refs, s.ext[p] \in XML!ScannedExt,
                      NEW r \in s.refs[p], XML!Clean(XML!Front(p) \o r) \in s.files
               PROVE  XML!Clean(XML!Front(p) \o r) \in There2(p)
    OBVIOUS
  <2>1. ~XML!IsURL(r) /\ XML!ContainedPath(XML!Clean(XML!Front(p) \o r))
    BY DEF XML!IsCheckout
  <2> QED BY <2>1 DEF XML!ExternalRefs, XML!FileExists, XML!JoinBase
<1> HIDE DEF There2, step
<1>4. DOMAIN found = s.files /\ DOMAIN next = s.files
  OBVIOUS
<1>5. {row.uri} \subseteq closure /\ \A p \in closure \cap s.files : There2(p) \subseteq closure
  <2>1. \A p \in s.files : found[p] = There2(p)
    OBVIOUS
  <2> HIDE DEF found
  <2> QED BY <1>4, <2>1, ReachedClosed
<1>6. \A p \in closure \cap DOMAIN next : next[p] \subseteq closure
  <2> HIDE DEF closure
  <2> QED BY <1>3, <1>5
<1>7. Reached({row.uri}, next) \subseteq closure
  <2> HIDE DEF closure, next
  <2> QED BY <1>4, <1>5, <1>6, ReachedWithin
<1> QED BY <1>1, <1>2, <1>7

\* The fixtures of each row are wanted.
LEMMA XMLFilesFixtures ==
  ASSUME NEW s, XML!CollectTests(s).ok, NEW row \in ToSet(XML!CollectTests(s).rows)
  PROVE  XML!FixtureRels(s, row) \subseteq XML!CollectTests(s).files
<1> DEFINE all == UNION {XML!FixtureRels(s, r) : r \in XML!ToSet(XML!ReadCases(s).rows)}
<1>1. XML!CollectTests(s) = IF XML!ReadCases(s).ok THEN [ok |-> TRUE, rows |-> XML!ReadCases(s).rows, files |-> all]
                            ELSE [ok |-> FALSE, rows |-> <<>>, files |-> {}]
  BY DEF XML!CollectTests
<1> HIDE DEF all
<1>2. XML!CollectTests(s).rows = XML!ReadCases(s).rows /\ XML!CollectTests(s).files = all
  BY <1>1
<1> QED BY <1>2, SameHelpers DEF all

-------------------------------------------------------------------------------
(* xsd11 *)

\* What helium opens from some files and the checkout has is in their closure.
LEMMA XSTSOpensClosure ==
  ASSUME NEW s, XSTS!IsCheckout(s), IsFiniteSet(s.files), NEW rels, NEW row,
         XSTS!ToSet(row.schemas) \cup {it.rel : it \in XSTS!ToSet(row.instances)} \subseteq rels
  PROVE  XSTS!Opens(s, row) \cap s.files \subseteq XSTS!SchemaClosure(s, rels)
<1> DEFINE start == XSTS!ToSet(row.schemas) \cup {it.rel : it \in XSTS!ToSet(row.instances)}
           Have(ps) == {p \in ps : XSTS!ContainedPath(p) /\ p \in s.files}
           found == [p \in s.files |-> Have(XSTS!SchemaRefs(s, p))]
           closure == Reached(Have(rels), found)
           Uris(p) == IF p \notin DOMAIN s.refs THEN {}
                      ELSE UNION {IF a.kind = "one" THEN {a.uri} ELSE {pair[2] : pair \in XSTS!ToSet(a.pairs)} : a \in s.refs[p]}
           step(p) == {XSTS!ResolveRel(XSTS!Front(p), u) : u \in Uris(p)} \cap s.files
           next == [p \in s.files |-> step(p)]
<1>1. XSTS!Opens(s, row) = Reached(start, next)
  BY SameHelpers DEF XSTS!Opens
<1>2. closure = XSTS!SchemaClosure(s, rels)
  BY SameHelpers DEF XSTS!SchemaClosure
<1>3. \A p \in s.files : step(p) \subseteq Have(XSTS!SchemaRefs(s, p))
  <2> SUFFICES ASSUME NEW p \in s.files, NEW u \in Uris(p), XSTS!ResolveRel(XSTS!Front(p), u) \in s.files
               PROVE  XSTS!ResolveRel(XSTS!Front(p), u) \in Have(XSTS!SchemaRefs(s, p))
    OBVIOUS
  <2>1. PICK a \in s.refs[p] : u \in IF a.kind = "one" THEN {a.uri} ELSE {pair[2] : pair \in XSTS!ToSet(a.pairs)}
    OBVIOUS
  <2>2. p \in DOMAIN s.refs /\ XSTS!ContainedPath(XSTS!ResolveRel(XSTS!Front(p), u))
    BY DEF XSTS!IsCheckout
  <2>3. ~XSTS!IsURL(u) /\ u \in XSTS!LocationURIs(XSTS!Tokens(a))
    <3>1. CASE a.kind = "one"
      <4>1. u = a.uri /\ XSTS!Tokens(a) = <<u>>
        BY <2>1, <3>1 DEF XSTS!Tokens
      <4>2. ~XSTS!IsURL(u)
        BY <2>2, <3>1, <4>1 DEF XSTS!IsCheckout
      <4>3. u \in XSTS!LocationURIs(<<u>>)
        BY DEF XSTS!LocationURIs, XSTS!ToSet
      <4> QED BY <4>1, <4>2, <4>3
    <3>2. CASE a.kind # "one"
      <4>1. PICK i \in DOMAIN a.pairs : u = a.pairs[i][2]
        BY <2>1, <3>2 DEF XSTS!ToSet
      <4>2. /\ XSTS!IsList(a.pairs)
            /\ \A pair \in XSTS!ToSet(a.pairs) :
                 XSTS!IsList(pair) /\ Len(pair) = 2
                   /\ (XSTS!IsURL(pair[2]) => XSTS!ResolveRel(XSTS!Front(p), pair[2]) \notin s.files)
        BY <2>2, <3>2 DEF XSTS!IsCheckout
      <4>3. a.pairs[i] \in XSTS!ToSet(a.pairs)
        BY DEF XSTS!ToSet
      <4>4. ~XSTS!IsURL(u)
        BY <4>1, <4>2, <4>3
      <4> DEFINE T == UNION {ToSet(pair) : pair \in ToSet(a.pairs)}
                 ss == a.pairs
      <4>5. ss \in Seq(Seq(T)) /\ \A j \in DOMAIN ss : Len(ss[j]) = 2
        <5>1. ss \in Seq(ToSet(ss)) /\ \A pair \in ToSet(ss) : pair \in Seq(ToSet(pair)) /\ Len(pair) = 2
          BY <4>2, SameHelpers DEF IsList
        <5>2. \A pair \in ToSet(ss) : pair \in Seq(T)
          <6> SUFFICES ASSUME NEW pair \in ToSet(ss) PROVE pair \in Seq(T)
            OBVIOUS
          <6>1. pair \in Seq(ToSet(pair)) /\ ToSet(pair) \subseteq T
            BY <5>1
          <6> HIDE DEF T
          <6> QED BY <6>1
        <5>3. \A j \in DOMAIN ss : ss[j] \in ToSet(ss)
          BY DEF ToSet
        <5> HIDE DEF ss, T
        <5> QED BY <5>1, <5>2, <5>3
      <4> HIDE DEF T
      <4>6. Len(FlattenSeq(ss)) = 2 * Len(ss) /\ FlattenSeq(ss)[2 * i] = ss[i][2]
        <5> HIDE DEF ss
        <5>1. i \in DOMAIN ss
          BY DEF ss
        <5> QED BY <4>5, <5>1, FlattenPairs
      <4>7. FlattenSeq(ss) \in Seq(T) /\ Len(ss) \in Nat /\ i \in 1..Len(ss)
        <5> HIDE DEF ss
        <5>1. i \in DOMAIN ss
          BY DEF ss
        <5> QED BY <4>5, <5>1, FlattenIs
      <4> DEFINE toks == FlattenSeq(ss)
      <4>8. XSTS!Tokens(a) = toks
        BY <3>2, SameHelpers DEF XSTS!Tokens
      <4> HIDE DEF toks
      <4>9. 2 * i \in DOMAIN toks /\ (2 * i) % 2 = 0 /\ Len(toks) # 1 /\ toks[2 * i] = u
        <5>1. Len(toks) = 2 * Len(ss) /\ DOMAIN toks = 1..Len(toks) /\ toks[2 * i] = u
          BY <4>1, <4>6, <4>7 DEF toks
        <5> HIDE DEF ss
        <5> QED BY <4>7, <5>1
      <4>10. u \in XSTS!LocationURIs(toks)
        BY <4>9 DEF XSTS!LocationURIs
      <4> QED BY <4>4, <4>8, <4>10
    <3> QED BY <3>1, <3>2
  <2> HIDE DEF Uris
  <2> QED BY <2>1, <2>2, <2>3 DEF XSTS!SchemaRefs
<1> HIDE DEF step
<1>4. DOMAIN found = s.files /\ DOMAIN next = s.files
  OBVIOUS
<1>5. Have(rels) \subseteq closure /\ \A p \in closure \cap s.files : Have(XSTS!SchemaRefs(s, p)) \subseteq closure
  <2>1. \A p \in s.files : found[p] = Have(XSTS!SchemaRefs(s, p))
    OBVIOUS
  <2> HIDE DEF found, Have
  <2> QED BY <1>4, <2>1, ReachedClosed
<1> DEFINE S == closure \cup (start \ s.files)
<1>6. start \subseteq S
  <2>1. start \cap s.files \subseteq Have(rels)
    BY DEF XSTS!IsCheckout
  <2> HIDE DEF closure, start, Have
  <2> QED BY <1>5, <2>1
<1>7. \A p \in S \cap DOMAIN next : next[p] \subseteq S
  <2> HIDE DEF closure, start, Have
  <2> QED BY <1>3, <1>5
<1>8. Reached(start, next) \subseteq S
  <2> HIDE DEF S, next
  <2> QED BY <1>4, <1>6, <1>7, ReachedWithin
<1>9. S \cap s.files \subseteq closure
  <2> HIDE DEF closure, start
  <2> QED OBVIOUS
<1> HIDE DEF S, start, closure
<1> QED BY <1>1, <1>2, <1>8, <1>9

\* The fixtures of each row of XSD 1.1 are wanted.
LEMMA XSTSFilesFixtures ==
  ASSUME NEW s, XSTS!CollectTests(s).ok, NEW row \in ToSet(XSTS!CollectTests(s).rows)
  PROVE  XSTS!FixtureRels(s, row) \subseteq XSTS!CollectTests(s).files
<1> DEFINE for11 == UNION {XSTS!FixtureRels(s, r) : r \in XSTS!ToSet(XSTS!ReadCases(s))}
           for10 == XSTS!ReadXSD10FixtureRels(s)
<1>1. XSTS!CollectTests(s) =
        IF ~XSTS!Readable(s) THEN [ok |-> FALSE, rows |-> <<>>, files |-> {}]
        ELSE [ok |-> TRUE, rows |-> XSTS!ReadCases(s), files |-> for11 \cup for10]
  BY DEF XSTS!CollectTests
<1> HIDE DEF for11, for10
<1>2. XSTS!CollectTests(s).rows = XSTS!ReadCases(s) /\ for11 \subseteq XSTS!CollectTests(s).files
  BY <1>1
<1>3. XSTS!FixtureRels(s, row) \subseteq for11
  BY <1>2, SameHelpers DEF for11
<1> QED BY <1>2, <1>3

\* The rows of XSD 1.0 are made of groups whose documents are all on the list.
LEMMA XSD10FilesFixtures ==
  ASSUME NEW s, XSTS!IsCheckout(s), XSTS!CollectTests(s).ok,
         NEW row \in ToSet(XSTS!BuildXSD10Cases(s, s.files))
  PROVE  \E rels : /\ XSTS!ToSet(row.schemas) \cup {it.rel : it \in XSTS!ToSet(row.instances)} \subseteq rels
                   /\ XSTS!SchemaClosure(s, rels) \subseteq XSTS!CollectTests(s).files
<1> DEFINE Fit(t) == {g \in ToSet(t.groups) : XSTS!Applies10(g, t) /\ XSTS!Usable(g, "1.0")}
           RowOf(t, g) == XSTS!Row(t, g, "1.0", XSTS!Decided(g, "1.0"))
           Here == {t \in XSTS!PresentSets(s, s.files) : t.parses}
           groups(t) == Among(t.groups, Fit(t))
           Of(t) == [i \in DOMAIN groups(t) |-> RowOf(t, groups(t)[i])]
           sets == Among(s.sets, Here)
           parts == [i \in DOMAIN sets |-> Of(sets[i])]
           T == UNION {{RowOf(t, g) : g \in Fit(t)} : t \in Here}
<1>1. XSTS!BuildXSD10Cases(s, s.files) = IF XSTS!SuiteXML \notin s.files THEN <<>> ELSE FlattenSeq(parts)
  BY SameHelpers DEF XSTS!BuildXSD10Cases
<1>2. Here \subseteq ToSet(s.sets) /\ IsList(s.sets) /\ \A t \in Here : IsList(t.groups)
  BY SameHelpers DEF XSTS!PresentSets, XSTS!IsCheckout
<1>3. ASSUME NEW t \in Here PROVE Of(t) \in Seq(T)
  <2>1. groups(t) \in Seq(ToSet(t.groups) \cap Fit(t))
    BY <1>2, AmongIs
  <2>2. Len(groups(t)) \in Nat /\ DOMAIN groups(t) = 1..Len(groups(t)) /\ \A i \in DOMAIN groups(t) : groups(t)[i] \in Fit(t)
    <3> HIDE DEF groups, Fit
    <3> QED BY <2>1
  <2>3. \A g \in Fit(t) : RowOf(t, g) \in T
    OBVIOUS
  <2>4. Of(t) \in [1..Len(groups(t)) -> T]
    <3> HIDE DEF groups, Fit, RowOf, T
    <3> QED BY <2>2, <2>3
  <2> HIDE DEF Of, groups, T
  <2> QED BY <2>2, <2>4, ListOf
<1>4. parts \in Seq(Seq(T))
  <2>1. sets \in Seq(ToSet(s.sets) \cap Here)
    BY <1>2, AmongIs
  <2>2. Len(sets) \in Nat /\ DOMAIN sets = 1..Len(sets) /\ \A i \in DOMAIN sets : sets[i] \in Here
    <3> HIDE DEF sets, Here
    <3> QED BY <2>1
  <2>3. parts \in [1..Len(sets) -> Seq(T)]
    <3> HIDE DEF sets, Here, Of, T
    <3> QED BY <1>3, <2>2
  <2> HIDE DEF parts, sets, T
  <2> QED BY <2>2, <2>3, ListOf
<1>5. row \in T
  <2>0. row \in ToSet(FlattenSeq(parts))
    <3> DEFINE q == FlattenSeq(parts)
    <3> HIDE DEF q, parts
    <3>1. ToSet(<<>>) = {}
      BY DEF ToSet
    <3>2. XSTS!BuildXSD10Cases(s, s.files) = <<>> \/ XSTS!BuildXSD10Cases(s, s.files) = q
      BY <1>1 DEF q
    <3>3. row \in ToSet(q)
      BY <3>1, <3>2
    <3> QED BY <3>3 DEF q
  <2>1. FlattenSeq(parts) \in Seq(T)
    <3> HIDE DEF parts, T
    <3> QED BY <1>4, FlattenIs
  <2> HIDE DEF parts, T
  <2> QED BY <2>0, <2>1 DEF ToSet
<1>6. PICK t \in Here : \E g \in Fit(t) : row = RowOf(t, g)
  BY <1>5
<1>61. PICK g \in Fit(t) : row = RowOf(t, g)
  BY <1>6
<1> DEFINE rels == XSTS!ToSet(XSTS!Docs(t, g)) \cup {XSTS!Rel(t, it) : it \in XSTS!ToSet(g.instances)}
<1>7. XSTS!ToSet(row.schemas) \cup {it.rel : it \in XSTS!ToSet(row.instances)} \subseteq rels
  <2> DEFINE decided == XSTS!Decided(g, "1.0")
  <2>0. IsList(g.instances)
    BY SameHelpers DEF XSTS!IsCheckout, XSTS!PresentSets
  <2>1. ToSet(decided) \subseteq ToSet(g.instances)
    <3>1. decided = Among(g.instances, {it \in ToSet(g.instances) : XSTS!PickValidity(it.expected, "1.0") # "none"})
      BY SameHelpers DEF XSTS!Decided
    <3> HIDE DEF decided
    <3> QED BY <2>0, <3>1, AmongIs
  <2> HIDE DEF decided
  <2> DEFINE inst == [i \in DOMAIN decided |->
                       [rel |-> XSTS!Rel(t, decided[i]), valid |-> XSTS!PickValidity(decided[i].expected, "1.0")]]
  <2>2. row.schemas = XSTS!Docs(t, g) /\ row.instances = inst
    BY <1>61 DEF XSTS!Row, decided
  <2>3. ASSUME NEW i \in DOMAIN inst PROVE inst[i].rel \in {XSTS!Rel(t, it) : it \in XSTS!ToSet(g.instances)}
    <3>1. decided[i] \in XSTS!ToSet(g.instances)
      BY <2>1, SameHelpers DEF ToSet
    <3> QED BY <3>1
  <2> HIDE DEF inst
  <2> QED BY <2>2, <2>3 DEF XSTS!ToSet
<1>8. XSTS!SchemaClosure(s, rels) \subseteq XSTS!ReadXSD10FixtureRels(s)
  <2>1. t \in XSTS!PresentSets(s, s.files)
    OBVIOUS
  <2>2. g \in {h \in XSTS!ToSet(t.groups) : ~XSTS!Is11(h, t) /\ h.docs # <<>>}
    BY SameHelpers DEF XSTS!Applies10, XSTS!Usable
  <2> DEFINE Rels(u, h) == XSTS!ToSet(XSTS!Docs(u, h)) \cup {XSTS!Rel(u, it) : it \in XSTS!ToSet(h.instances)}
             OfGroups(u) == UNION {XSTS!SchemaClosure(s, Rels(u, h)) : h \in {h \in XSTS!ToSet(u.groups) : ~XSTS!Is11(h, u) /\ h.docs # <<>>}}
             OfSet(u) == {XSTS!Clean(u.href)} \cup OfGroups(u)
  <2>3. XSTS!ReadXSD10FixtureRels(s) = {XSTS!SuiteXML} \cup UNION {OfSet(u) : u \in XSTS!PresentSets(s, s.files)}
    BY DEF XSTS!ReadXSD10FixtureRels
  <2>4. XSTS!SchemaClosure(s, Rels(t, g)) \subseteq OfGroups(t)
    <3> HIDE DEF Rels, Here, Fit
    <3> QED BY <2>2
  <2>5. OfGroups(t) \subseteq OfSet(t)
    <3> HIDE DEF OfGroups
    <3> QED OBVIOUS
  <2>6. OfSet(t) \subseteq XSTS!ReadXSD10FixtureRels(s)
    <3> HIDE DEF OfSet, Here
    <3> QED BY <2>1, <2>3
  <2>7. Rels(t, g) = rels
    OBVIOUS
  <2> HIDE DEF OfSet, OfGroups, Rels, Here, Fit, rels
  <2> QED BY <2>4, <2>5, <2>6, <2>7
<1> HIDE DEF rels
<1>9. XSTS!SchemaClosure(s, rels) \subseteq XSTS!CollectTests(s).files
  BY <1>8, WantedForXSD10
<1> QED BY <1>7, <1>9

-------------------------------------------------------------------------------
(* The suites that copy over what is there *)

\* What the module has of the checkout at hand, by suite.
LEMMA TheCheckout ==
  ASSUME SourceInv
  PROVE  /\ IsFiniteSet(src.files) /\ IsFiniteSet(Overlay)
         /\ IsQT3 => QT3!IsCheckout(src) /\ CollectTests = QT3!CollectTests(src)
         /\ IsXSLT => XSLT!IsCheckout(src) /\ CollectTests = XSLT!CollectTests(src)
         /\ IsXSTS => XSTS!IsCheckout(src) /\ CollectTests = XSTS!CollectTests(src)
         /\ IsXML => XML!IsCheckout(src) /\ CollectTests = XML!CollectTests(src)
BY CheckoutAssumption DEF SourceInv, CollectTests, IsQT3, IsXSLT, IsXSTS, IsXML

\* A fetched tree of xml has what its cases open.
LEMMA XMLFinds ==
  ASSUME CopiedInv, SourceInv, IsXML, cmd = "fetch", pc = "done", NEW row \in ToSet(rows)
  PROVE  XML!Opens(src, row) \cap src.files \subseteq testdata
<1>1. XML!IsCheckout(src) /\ IsFiniteSet(src.files) /\ CollectTests = XML!CollectTests(src)
  BY TheCheckout
<1>2. ~Rebuilt
  BY DEF Rebuilt, IsXML, IsQT3, IsXSLT
<1>3. rows = XML!CollectTests(src).rows /\ XML!CollectTests(src).ok /\ XML!CollectTests(src).files \subseteq testdata
  BY <1>1, <1>2 DEF CopiedInv
<1>4. XML!FixtureRels(src, row) \subseteq XML!CollectTests(src).files
  BY <1>3, XMLFilesFixtures
<1>5. XML!Opens(src, row) \cap src.files \subseteq XML!FixtureRels(src, row)
  BY <1>1, XMLOpensFixtures
<1> QED BY <1>3, <1>4, <1>5

\* A fetched tree of xsd11 has what the cases of XSD 1.1 and 1.0 open.
LEMMA XSTSFinds ==
  ASSUME CopiedInv, SourceInv, IsXSTS, cmd = "fetch", pc = "done",
         NEW row, row \in ToSet(rows) \/ row \in ToSet(XSTS!BuildXSD10Cases(src, src.files))
  PROVE  XSTS!Opens(src, row) \cap src.files \subseteq testdata
<1>1. XSTS!IsCheckout(src) /\ IsFiniteSet(src.files) /\ CollectTests = XSTS!CollectTests(src)
  BY TheCheckout
<1>2. ~Rebuilt
  BY DEF Rebuilt, IsXSTS, IsQT3, IsXSLT
<1>3. rows = XSTS!CollectTests(src).rows /\ XSTS!CollectTests(src).ok /\ XSTS!CollectTests(src).files \subseteq testdata
  BY <1>1, <1>2 DEF CopiedInv
<1>4. \E rels : /\ XSTS!ToSet(row.schemas) \cup {it.rel : it \in XSTS!ToSet(row.instances)} \subseteq rels
                /\ XSTS!SchemaClosure(src, rels) \subseteq XSTS!CollectTests(src).files
  <2>1. CASE row \in ToSet(rows)
    <3> DEFINE rels == XSTS!ToSet(row.schemas) \cup {it.rel : it \in XSTS!ToSet(row.instances)}
    <3>1. XSTS!SchemaClosure(src, rels) \subseteq XSTS!FixtureRels(src, row)
      BY DEF XSTS!FixtureRels
    <3>2. XSTS!FixtureRels(src, row) \subseteq XSTS!CollectTests(src).files
      BY <1>3, <2>1, XSTSFilesFixtures
    <3> QED BY <3>1, <3>2
  <2>2. CASE row \in ToSet(XSTS!BuildXSD10Cases(src, src.files))
    BY <1>1, <1>3, <2>2, XSD10FilesFixtures
  <2> QED BY <2>1, <2>2
<1>5. PICK rels : /\ XSTS!ToSet(row.schemas) \cup {it.rel : it \in XSTS!ToSet(row.instances)} \subseteq rels
                  /\ XSTS!SchemaClosure(src, rels) \subseteq XSTS!CollectTests(src).files
  BY <1>4
<1>6. XSTS!Opens(src, row) \cap src.files \subseteq XSTS!SchemaClosure(src, rels)
  BY <1>1, <1>5, XSTSOpensClosure
<1> QED BY <1>3, <1>5, <1>6

-------------------------------------------------------------------------------
(* qt3 *)

\* A row of qt3 is that of a case of the catalog, whose files are all wanted.
LEMMA QT3RowIs ==
  ASSUME NEW s, QT3!IsCheckout(s), QT3!CollectTests(s).ok, NEW row \in ToSet(QT3!CollectTests(s).rows)
  PROVE  \E ts \in ToSet(s.sets) : \E tc \in ToSet(ts.cases) :
           /\ row = QT3!Row(QT3!GeneratedTest(s, ts, tc))
           /\ QT3!RowFiles(s, ts, tc) \subseteq QT3!CollectTests(s).files
<1> DEFINE sets == QT3!Walked(s)
           RowOf(ts, tc) == QT3!Row(QT3!GeneratedTest(s, ts, tc))
           parts == [i \in DOMAIN sets |-> QT3!RowsOf(s, sets[i])]
           FilesFor(ts) == UNION {QT3!RowFiles(s, ts, tc) : tc \in QT3!ToSet(QT3!Taken(ts))}
           want == UNION {FilesFor(ts) : ts \in QT3!ToSet(sets)}
           T == UNION {{RowOf(ts, tc) : tc \in ToSet(QT3!Taken(ts))} : ts \in ToSet(sets)}
<1>1. QT3!CollectTests(s) = IF QT3!WalkFails(s) THEN [ok |-> FALSE, rows |-> <<>>, files |-> {}]
                            ELSE [ok |-> TRUE, rows |-> QT3!FlattenSeq(parts), files |-> want]
  BY DEF QT3!CollectTests
<1>2. QT3!CollectTests(s).rows = FlattenSeq(parts) /\ QT3!CollectTests(s).files = want
  <2> HIDE DEF parts, want
  <2> QED BY <1>1, SameHelpers
<1>3. /\ sets \in Seq(ToSet(sets)) /\ ToSet(sets) \subseteq ToSet(s.sets)
  <2>1. IsList(s.sets)
    BY SameHelpers DEF QT3!IsCheckout
  <2> DEFINE W == {ts \in ToSet(s.sets) : QT3!ContainedPath(ts.path)}
  <2>2. sets = Among(s.sets, W)
    BY SameHelpers DEF QT3!Walked
  <2> HIDE DEF W, sets
  <2>3. sets \in Seq(ToSet(s.sets) \cap W) /\ ToSet(sets) = ToSet(s.sets) \cap W
    BY <2>1, <2>2, AmongIs
  <2> QED BY <2>3
<1>4. ASSUME NEW ts \in ToSet(sets)
      PROVE  /\ QT3!Taken(ts) \in Seq(ToSet(QT3!Taken(ts))) /\ ToSet(QT3!Taken(ts)) \subseteq ToSet(ts.cases)
             /\ QT3!RowsOf(s, ts) \in Seq(T)
  <2>1. IsList(ts.cases)
    <3> HIDE DEF sets
    <3> QED BY <1>3, SameHelpers DEF QT3!IsCheckout
  <2> DEFINE W == {tc \in ToSet(ts.cases) : QT3!Applies(ts, tc)}
             taken == QT3!Taken(ts)
  <2>2. taken = Among(ts.cases, W)
    BY SameHelpers DEF QT3!Taken
  <2> HIDE DEF W, taken, sets
  <2>3. taken \in Seq(ToSet(ts.cases) \cap W) /\ ToSet(taken) = ToSet(ts.cases) \cap W
    BY <2>1, <2>2, AmongIs
  <2>4. taken \in Seq(ToSet(taken)) /\ ToSet(taken) \subseteq ToSet(ts.cases)
    BY <2>3
  <2>5. Len(taken) \in Nat /\ DOMAIN taken = 1..Len(taken) /\ \A i \in DOMAIN taken : taken[i] \in ToSet(taken)
    BY <2>4
  <2>6. \A tc \in ToSet(taken) : RowOf(ts, tc) \in T
    BY DEF taken
  <2>7. QT3!RowsOf(s, ts) = [i \in DOMAIN taken |-> RowOf(ts, taken[i])]
    BY DEF QT3!RowsOf, taken
  <2>8. QT3!RowsOf(s, ts) \in [1..Len(taken) -> T]
    <3> HIDE DEF RowOf, T
    <3> QED BY <2>5, <2>6, <2>7
  <2>9. QT3!RowsOf(s, ts) \in Seq(T)
    <3> HIDE DEF T
    <3> QED BY <2>5, <2>8, ListOf
  <2> QED BY <2>4, <2>9 DEF taken
<1>5. FlattenSeq(parts) \in Seq(T)
  <2>1. Len(sets) \in Nat /\ DOMAIN sets = 1..Len(sets) /\ \A i \in DOMAIN sets : sets[i] \in ToSet(sets)
    <3> HIDE DEF sets
    <3> QED BY <1>3
  <2>2. parts \in [1..Len(sets) -> Seq(T)]
    <3> HIDE DEF sets, T
    <3> QED BY <1>4, <2>1
  <2> HIDE DEF parts, sets, T
  <2>3. parts \in Seq(Seq(T))
    BY <2>1, <2>2, ListOf
  <2> QED BY <2>3, FlattenIs
<1>6. row \in T
  <2> HIDE DEF parts, T
  <2> QED BY <1>2, <1>5 DEF ToSet
<1>7. PICK ts \in ToSet(sets) : \E tc \in ToSet(QT3!Taken(ts)) : row = RowOf(ts, tc)
  BY <1>6
<1>8. PICK tc \in ToSet(QT3!Taken(ts)) : row = RowOf(ts, tc)
  BY <1>7
<1>9. QT3!RowFiles(s, ts, tc) \subseteq want
  <2>1. QT3!RowFiles(s, ts, tc) \subseteq FilesFor(ts)
    BY SameHelpers
  <2>2. FilesFor(ts) \subseteq want
    <3> HIDE DEF FilesFor, sets
    <3> QED BY SameHelpers
  <2> QED BY <2>1, <2>2
<1>10. ts \in ToSet(s.sets) /\ tc \in ToSet(ts.cases)
  BY <1>3, <1>4
<1> HIDE DEF sets, want
<1> QED BY <1>2, <1>8, <1>9, <1>10

\* The environment of a case lists its sources.
LEMMA QT3EnvIs ==
  ASSUME NEW s, QT3!IsCheckout(s), NEW ts \in ToSet(s.sets), NEW tc \in ToSet(ts.cases)
  PROVE  IsList(QT3!ResolveEnvironment(tc, ts.envs, s.envs).env.sources)
<1> DEFINE Envs == {u.env : u \in QT3!ToSet(ts.cases)} \cup QT3!Range(ts.envs) \cup QT3!Range(s.envs)
           e == QT3!ResolveEnvironment(tc, ts.envs, s.envs).env
<1>1. \A d \in Envs : IsList(d.sources)
  BY SameHelpers DEF QT3!IsCheckout
<1>2. e \in Envs \/ e = QT3!EmptyEnv
  BY SameHelpers DEF QT3!ResolveEnvironment, QT3!Range
<1>3. IsList(QT3!EmptyEnv.sources)
  <2>1. QT3!EmptyEnv.sources = <<>>
    BY DEF QT3!EmptyEnv
  <2> QED BY <2>1 DEF IsList
<1> HIDE DEF Envs, e
<1>4. IsList(e.sources)
  BY <1>1, <1>2, <1>3
<1> QED BY <1>4 DEF e

\* What a case of qt3 opens is among its files.
LEMMA QT3OpensRowFiles ==
  ASSUME QT3!IsCheckout(src), IsFiniteSet(src.files), IsFiniteSet(Copyable), src.files \subseteq Copyable,
         NEW ts \in ToSet(src.sets), NEW tc \in ToSet(ts.cases)
  PROVE  QT3Opens(QT3!Row(QT3!GeneratedTest(src, ts, tc))) \subseteq QT3!RowFiles(src, ts, tc)
<1> DEFINE e == QT3!ResolveEnvironment(tc, ts.envs, src.envs)
           dir == ts.path[1]
           schemas == QT3!EnvSchemas(e.env, e.global, dir)
           docs == QT3!ContextDoc(e.env, e.global, dir) \cup QT3!EnvVariableSources(e.env, e.global, dir)
                     \cup QT3!EnvCollections(e.env, e.global, dir)
           resources == QT3!ResourceMap(e.env, e.global, dir)
           row == QT3!Row(QT3!GeneratedTest(src, ts, tc))
           next == [p \in Copyable |-> QT3!SchemaLocations(src, p) \cap Copyable]
           found == [p \in src.files |-> QT3!SchemaLocations(src, p)]
           S == QT3!CollectSchemaFiles(src, schemas)
<1>1. row.docs = docs /\ row.resources = resources /\ row.schemas = schemas
  BY DEF QT3!Row, QT3!GeneratedTest
<1>2. QT3!RowFiles(src, ts, tc) = QT3!DocFiles(src, e.env, e.global, dir) \cup resources
  BY DEF QT3!RowFiles
<1>3. QT3!DocFiles(src, e.env, e.global, dir) =
        QT3!FilesOf(QT3!ToSet(QT3!ContextSources(e.env)), e.global, dir)
          \cup QT3!EnvVariableSources(e.env, e.global, dir) \cup QT3!EnvCollections(e.env, e.global, dir) \cup S
  BY DEF QT3!DocFiles
<1>4. QT3!ContextDoc(e.env, e.global, dir) \subseteq QT3!FilesOf(QT3!ToSet(QT3!ContextSources(e.env)), e.global, dir)
  <2> DEFINE env == e.env
             g == e.global
             own == {u \in ToSet(env.sources) : u.role = "." /\ u.file # ""}
             list == QT3!ContextSources(env)
  <2>1. IsList(env.sources)
    BY QT3EnvIs
  <2> HIDE DEF e, env, dir, g
  <2>2. list = Among(env.sources, own)
    BY SameHelpers DEF QT3!ContextSources
  <2> HIDE DEF own, list
  <2>3. list \in Seq(ToSet(env.sources) \cap own) /\ ToSet(list) = ToSet(env.sources) \cap own
    BY <2>1, <2>2, AmongIs
  <2>4. ASSUME list # <<>> PROVE Last(list) \in ToSet(list) /\ Last(list).file # "" /\ QT3!Last(list) = Last(list)
    <3>1. Len(list) \in DOMAIN list /\ list[Len(list)] \in ToSet(env.sources) \cap own
      BY <2>3, <2>4
    <3>2. list[Len(list)] \in ToSet(list)
      BY <3>1 DEF ToSet
    <3>3. list[Len(list)].file # ""
      BY <3>1 DEF own
    <3> QED BY <3>2, <3>3 DEF Last, QT3!Last
  <2>5. QT3!ContextDoc(env, g, dir) =
          IF list = <<>> THEN {} ELSE {QT3!ResolveEnvSourcePath(g, dir, QT3!Last(list).file)}
    BY DEF QT3!ContextDoc, list
  <2>6. QT3!ContextDoc(env, g, dir) \subseteq QT3!FilesOf(QT3!ToSet(list), g, dir)
    BY <2>4, <2>5, SameHelpers DEF QT3!FilesOf
  <2> QED BY <2>6 DEF list, env, g
<1>5. schemas \subseteq S /\ \A p \in S \cap src.files : QT3!SchemaLocations(src, p) \subseteq S
  <2>1. S = Reached(schemas, found)
    BY SameHelpers DEF QT3!CollectSchemaFiles
  <2>2. DOMAIN found = src.files /\ \A p \in src.files : found[p] = QT3!SchemaLocations(src, p)
    OBVIOUS
  <2> HIDE DEF S, found, schemas
  <2> QED BY <2>1, <2>2, ReachedClosed
<1>6. Reached(schemas, next) \subseteq S
  <2>1. \A p \in S \cap Copyable : QT3!SchemaLocations(src, p) \subseteq S
    <3>1. \A p : p \notin src.files => QT3!SchemaLocations(src, p) = {}
      BY DEF QT3!SchemaLocations
    <3> HIDE DEF S
    <3> QED BY <1>5, <3>1
  <2>2. DOMAIN next = Copyable /\ \A p \in Copyable : next[p] \subseteq QT3!SchemaLocations(src, p)
    OBVIOUS
  <2> HIDE DEF S, next, schemas
  <2>3. \A p \in S \cap DOMAIN next : next[p] \subseteq S
    BY <2>1, <2>2
  <2> QED BY <1>5, <2>2, <2>3, ReachedWithin
<1>7. QT3Opens(row) = docs \cup resources \cup Reached(schemas, next)
  <2>1. QT3Opens(row) = row.docs \cup row.resources \cup Reached(row.schemas, next)
    BY DEF QT3Opens
  <2> HIDE DEF row, docs, resources, schemas, next
  <2> QED BY <1>1, <2>1
<1> HIDE DEF e, dir, schemas, resources, S, next
<1> QED BY <1>2, <1>3, <1>4, <1>6, <1>7

\* A fetched tree of qt3 has what its cases open.
LEMMA QT3Finds ==
  ASSUME CopiedInv, SourceInv, IsQT3, cmd = "fetch", pc = "done", NEW row \in ToSet(rows)
  PROVE  QT3Opens(row) \cap Copyable \subseteq testdata
<1>1. /\ QT3!IsCheckout(src) /\ IsFiniteSet(src.files) /\ IsFiniteSet(Overlay)
      /\ CollectTests = QT3!CollectTests(src)
  BY TheCheckout
<1>2. Rebuilt /\ Copyable = src.files \cup Overlay
  BY DEF Rebuilt, Copyable
<1>3. IsFiniteSet(Copyable)
  BY <1>1, <1>2, FS_Union
<1>4. /\ rows = QT3!CollectTests(src).rows /\ files = QT3!CollectTests(src).files /\ QT3!CollectTests(src).ok
      /\ There \subseteq testdata /\ Overlay \subseteq testdata
  BY <1>1, <1>2 DEF CopiedInv
<1>5. \E ts \in ToSet(src.sets) : \E tc \in ToSet(ts.cases) :
        /\ row = QT3!Row(QT3!GeneratedTest(src, ts, tc))
        /\ QT3!RowFiles(src, ts, tc) \subseteq QT3!CollectTests(src).files
  BY <1>1, <1>4, QT3RowIs
<1>6. PICK ts \in ToSet(src.sets) : \E tc \in ToSet(ts.cases) :
        /\ row = QT3!Row(QT3!GeneratedTest(src, ts, tc))
        /\ QT3!RowFiles(src, ts, tc) \subseteq QT3!CollectTests(src).files
  BY <1>5
<1>7. PICK tc \in ToSet(ts.cases) :
        /\ row = QT3!Row(QT3!GeneratedTest(src, ts, tc))
        /\ QT3!RowFiles(src, ts, tc) \subseteq QT3!CollectTests(src).files
  BY <1>6
<1>8. QT3Opens(row) \subseteq files
  BY <1>1, <1>2, <1>3, <1>4, <1>7, QT3OpensRowFiles
<1>9. files \cap src.files \subseteq There
  BY DEF There, Wanted
<1> QED BY <1>2, <1>4, <1>8, <1>9

-------------------------------------------------------------------------------
(* xslt30: one call of the search for what a stylesheet depends on *)

\* What refers to a file as a stylesheet, as a schema, or at all.
Leads(s, kinds) ==
  UNION {{XSLT!ResolveDep(p, r) : r \in {t \in ToSet(XSLT!Refs(s, p)) : t.kind \in kinds}} : p \in s.files}
Sheets(s) == Leads(s, {"href"})
Schemas(s) == Leads(s, {"schema", "location"})

\* The calls that can be asked for, and the states of the search from p.
Calls(s, p) == [path : {p} \cup Leads(s, XSLT!Kinds), as : {"sheet", "schema"}]
Searches(s, p) ==
  [calls : Seq(Calls(s, p)), visited : SUBSET ({p} \cup Leads(s, XSLT!Kinds)), deps : SUBSET Leads(s, XSLT!Kinds)]

\* What one call finds of a file, the calls it asks for.
Fresh(s, c) ==
  {r \in ToSet(XSLT!Refs(s, c.path)) :
     (c.as = "sheet" \/ r.kind = "location") /\ XSLT!ContainedPath(XSLT!ResolveDep(c.path, r))}
Asked(s, c) ==
  {[path |-> XSLT!ResolveDep(c.path, r), as |-> XSLT!As(r.kind)] :
     r \in {t \in Fresh(s, c) : XSLT!Followed(c.as, t.kind)}}

\* The references of a file are a list; one that is no file has none.
LEMMA RefsAre ==
  ASSUME NEW s, XSLT!IsCheckout(s), NEW p
  PROVE  /\ IsList(XSLT!Refs(s, p))
         /\ \A r \in ToSet(XSLT!Refs(s, p)) : r.kind \in XSLT!Kinds /\ p \in s.files
         /\ p \in DOMAIN s.refs => Len(XSLT!Refs(s, p)) <= Len(s.refs[p])
         /\ p \notin DOMAIN s.refs => XSLT!Refs(s, p) = <<>>
<1>1. IsList(<<>>) /\ ToSet(<<>>) = {} /\ Len(<<>>) = 0
  BY DEF IsList, ToSet
<1>2. \A q \in DOMAIN s.refs : IsList(s.refs[q]) /\ \A r \in ToSet(s.refs[q]) : r.kind \in XSLT!Kinds
  BY SameHelpers DEF XSLT!IsCheckout
<1>3. \A q \in DOMAIN s.refs : Len(s.refs[q]) \in Nat
  BY <1>2 DEF IsList
<1>4. XSLT!Refs(s, p) = IF p \in s.files \cap DOMAIN s.refs THEN s.refs[p] ELSE <<>>
  BY DEF XSLT!Refs
<1>5. CASE p \in s.files \cap DOMAIN s.refs
  BY <1>2, <1>3, <1>4, <1>5
<1>6. CASE p \notin s.files \cap DOMAIN s.refs
  BY <1>1, <1>3, <1>4, <1>6
<1> QED BY <1>5, <1>6

\* What a call does that finds a file it has not seen.
LEMMA VisitFresh ==
  ASSUME NEW s, XSLT!IsCheckout(s), NEW p, NEW w \in Searches(s, p), w.calls # <<>>,
         Head(w.calls).path \notin w.visited
  PROVE  LET c == Head(w.calls) IN
         \E new \in Seq(Calls(s, p)) :
           /\ XSLT!Visit(s, w) = [calls |-> new \o Tail(w.calls), visited |-> w.visited \cup {c.path},
                                  deps |-> w.deps \cup {XSLT!ResolveDep(c.path, r) : r \in Fresh(s, c)}]
           /\ ToSet(new) = Asked(s, c) /\ Len(new) <= Len(XSLT!Refs(s, c.path))
<1> DEFINE c == Head(w.calls)
           refs == XSLT!Refs(s, c.path)
           keep == {r \in Fresh(s, c) : XSLT!Followed(c.as, r.kind)}
           followed == Among(refs, keep)
           Call(r) == [path |-> XSLT!ResolveDep(c.path, r), as |-> XSLT!As(r.kind)]
           new == [i \in DOMAIN followed |-> Call(followed[i])]
           C == Calls(s, p)
<1>1. XSLT!Visit(s, w) = [calls |-> new \o Tail(w.calls), visited |-> w.visited \cup {c.path},
                          deps |-> w.deps \cup {XSLT!ResolveDep(c.path, r) : r \in Fresh(s, c)}]
  <2>1. followed = XSLT!Among(refs, {r \in Fresh(s, c) : XSLT!Followed(c.as, r.kind)})
    BY SameHelpers
  <2>2. Fresh(s, c) = {r \in XSLT!ToSet(refs) :
           (c.as = "sheet" \/ r.kind = "location") /\ XSLT!ContainedPath(XSLT!ResolveDep(c.path, r))}
    BY SameHelpers DEF Fresh
  <2> HIDE DEF followed
  <2> QED BY <2>1, <2>2 DEF XSLT!Visit
<1>2. keep \subseteq ToSet(refs)
  BY DEF Fresh
<1>3. IsList(refs)
  BY RefsAre
<1>4. followed \in Seq(keep) /\ ToSet(followed) = keep /\ Len(followed) <= Len(refs)
  <2>1. ToSet(refs) \cap keep = keep
    BY <1>2
  <2> HIDE DEF keep, refs
  <2> QED BY <1>3, <2>1, AmongIs
<1>5. \A r \in keep : Call(r) \in C
  <2> SUFFICES ASSUME NEW r \in keep PROVE Call(r) \in C
    OBVIOUS
  <2>1. r \in ToSet(refs) /\ r.kind \in XSLT!Kinds /\ c.path \in s.files
    BY <1>2, RefsAre
  <2>2. Call(r).path \in Leads(s, XSLT!Kinds)
    BY <2>1 DEF Leads
  <2>3. Call(r).as \in {"sheet", "schema"}
    BY DEF XSLT!As
  <2> HIDE DEF keep, refs
  <2> QED BY <2>2, <2>3 DEF Calls
<1> HIDE DEF C, keep, refs
<1>6. Len(followed) \in Nat /\ DOMAIN followed = 1..Len(followed) /\ \A i \in DOMAIN followed : followed[i] \in keep
  <2> HIDE DEF followed
  <2> QED BY <1>4
<1>7. new \in Seq(C) /\ Len(new) = Len(followed)
  <2>1. new \in [1..Len(followed) -> C]
    <3> HIDE DEF followed, Call
    <3> QED BY <1>5, <1>6
  <2> HIDE DEF followed, new
  <2> QED BY <1>6, <2>1, ListOf
<1>8. ToSet(new) = {Call(r) : r \in keep}
  <2>1. keep = {followed[i] : i \in DOMAIN followed}
    BY <1>4 DEF ToSet
  <2>2. ToSet(new) = {Call(followed[i]) : i \in DOMAIN followed}
    <3> HIDE DEF followed, Call
    <3> QED BY DEF ToSet
  <2> HIDE DEF followed, Call, new
  <2> QED BY <2>1, <2>2
<1>9. Asked(s, c) = {Call(r) : r \in keep}
  BY DEF Asked, keep
<1> HIDE DEF new, followed, Call
<1> QED BY <1>1, <1>4, <1>7, <1>8, <1>9 DEF refs, C

-------------------------------------------------------------------------------
(* xslt30: the search as a whole *)

\* Where a reference at v is read: anywhere if it is a location, else where v is
\* read as a stylesheet, which the start of the search and what is imported are.
Read(s, p, v, r) == r.kind = "location" \/ v = p \/ v \in Sheets(s)

\* The search from p on its way.  Calls have a file as what refers to it has it;
\* what a file seen refers to in the suite is found, there or not, and seen or
\* asked for unless it is a document; p is seen first.
SearchInv(s, p, w) ==
  /\ \A c \in ToSet(w.calls) :
       IF c.as = "sheet" THEN c.path = p \/ c.path \in Sheets(s) ELSE c.path \in Schemas(s)
  /\ \A v \in w.visited \cap s.files : \A r \in ToSet(XSLT!Refs(s, v)) :
       XSLT!ContainedPath(XSLT!ResolveDep(v, r)) /\ Read(s, p, v, r) =>
         /\ XSLT!ResolveDep(v, r) \in w.deps
         /\ \/ r.kind = "document" \/ XSLT!ResolveDep(v, r) \in w.visited
            \/ \E c \in ToSet(w.calls) : c.path = XSLT!ResolveDep(v, r)
  /\ IF w.visited = {} THEN w.calls = <<[path |-> p, as |-> "sheet"]>> ELSE p \in w.visited

\* No file is both a stylesheet and a schema, none is out of the suite, and none
\* is named like a reference with a fragment.
LEMMA OneKind ==
  ASSUME NEW s, XSLT!IsCheckout(s)
  PROVE  /\ s.files \cap Sheets(s) \cap Schemas(s) = {}
         /\ \A q \in s.files : XSLT!ContainedPath(q) /\ q[2] \notin DOMAIN XSLT!Bare
<1> DEFINE T(kinds) == UNION {{XSLT!ResolveDep(p, r) : r \in {t \in XSLT!ToSet(XSLT!Refs(s, p)) : t.kind \in kinds}} : p \in s.files}
<1>1. s.files \cap T({"href"}) \cap T({"schema", "location"}) = {}
      /\ \A q \in s.files : XSLT!ContainedPath(q) /\ q[2] \notin DOMAIN XSLT!Bare
  BY DEF XSLT!IsCheckout
<1>2. T({"href"}) = Sheets(s) /\ T({"schema", "location"}) = Schemas(s)
  BY SameHelpers DEF Sheets, Schemas, Leads
<1> HIDE DEF T
<1> QED BY <1>1, <1>2

\* A search takes one step after another.
LEMMA SearchStep ==
  ASSUME NEW s, XSLT!IsCheckout(s), NEW p, NEW w \in Searches(s, p), SearchInv(s, p, w)
  PROVE  XSLT!Visit(s, w) \in Searches(s, p) /\ SearchInv(s, p, XSLT!Visit(s, w))
<1> DEFINE C == Calls(s, p)
           P == {p} \cup Leads(s, XSLT!Kinds)
           c == Head(w.calls)
           u == XSLT!Visit(s, w)
<1>w. w.calls \in Seq(C) /\ w.visited \in SUBSET P /\ w.deps \in SUBSET Leads(s, XSLT!Kinds)
  BY DEF Searches
<1>1. CASE w.calls = <<>>
  <2>1. u = w
    BY <1>1 DEF XSLT!Visit
  <2> HIDE DEF u
  <2>2. u \in Searches(s, p) /\ SearchInv(s, p, u)
    BY <2>1
  <2> QED BY <2>2 DEF u
<1>2. ASSUME w.calls # <<>>
      PROVE  /\ c \in C /\ Tail(w.calls) \in Seq(C)
             /\ ToSet(w.calls) = {c} \cup ToSet(Tail(w.calls))
  <2> DEFINE q == w.calls
  <2> HIDE DEF q, C
  <2>1. q \in Seq(C) /\ q # <<>>
    BY <1>w, <1>2 DEF q
  <2>2. Head(q) \in C /\ Tail(q) \in Seq(C) /\ ToSet(q) = {Head(q)} \cup ToSet(Tail(q))
    BY <2>1, HeadAndTail
  <2> QED BY <2>2 DEF q
<1>3. CASE w.calls # <<>> /\ c.path \in w.visited
  <2>1. u = [w EXCEPT !.calls = Tail(w.calls)]
    BY <1>3 DEF XSLT!Visit
  <2>2. u.calls = Tail(w.calls) /\ u.visited = w.visited /\ u.deps = w.deps
    BY <2>1 DEF Searches
  <2>3. u \in Searches(s, p)
    <3> HIDE DEF C, u
    <3> QED BY <1>2, <1>3, <2>1 DEF Searches, C
  <2> HIDE DEF u, c, C
  <2>4. SearchInv(s, p, u)
    <3>1. ToSet(w.calls) = {c} \cup ToSet(u.calls)
      BY <1>2, <1>3, <2>2
    <3> QED BY <1>3, <2>2, <3>1 DEF SearchInv
  <2> QED BY <2>3, <2>4 DEF u
<1>4. CASE w.calls # <<>> /\ c.path \notin w.visited
  <2>1. PICK new \in Seq(C) :
          /\ u = [calls |-> new \o Tail(w.calls), visited |-> w.visited \cup {c.path},
                  deps |-> w.deps \cup {XSLT!ResolveDep(c.path, r) : r \in Fresh(s, c)}]
          /\ ToSet(new) = Asked(s, c) /\ Len(new) <= Len(XSLT!Refs(s, c.path))
    BY <1>4, VisitFresh
  <2> HIDE DEF u
  <2>2. /\ u.calls = new \o Tail(w.calls) /\ u.visited = w.visited \cup {c.path}
        /\ u.deps = w.deps \cup {XSLT!ResolveDep(c.path, r) : r \in Fresh(s, c)}
    BY <2>1
  <2>c. c \in C /\ Tail(w.calls) \in Seq(C) /\ ToSet(w.calls) = {c} \cup ToSet(Tail(w.calls))
    BY <1>2, <1>4
  <2>3. u.calls \in Seq(C) /\ ToSet(u.calls) = Asked(s, c) \cup ToSet(Tail(w.calls))
    <3> DEFINE rest == Tail(w.calls)
    <3>1. rest \in Seq(C)
      BY <2>c
    <3> HIDE DEF rest, C
    <3>2. new \o rest \in Seq(C)
      BY <3>1
    <3>3. ToSet(new \o rest) = ToSet(new) \cup ToSet(rest)
      BY <3>1, ToSetConcat
    <3> QED BY <2>1, <2>2, <3>2, <3>3 DEF rest
  <2>4. \A r \in Fresh(s, c) : r \in ToSet(XSLT!Refs(s, c.path)) /\ r.kind \in XSLT!Kinds /\ c.path \in s.files
    BY RefsAre DEF Fresh
  <2>5. u \in Searches(s, p)
    <3>1. c.path \in P
      BY <2>c DEF C, Calls
    <3>2. {XSLT!ResolveDep(c.path, r) : r \in Fresh(s, c)} \subseteq Leads(s, XSLT!Kinds)
      BY <2>4 DEF Leads
    <3> HIDE DEF c, C, P
    <3>3. u.visited \in SUBSET P /\ u.deps \in SUBSET Leads(s, XSLT!Kinds)
      BY <1>w, <2>2, <3>1, <3>2
    <3>4. u = [calls |-> u.calls, visited |-> u.visited, deps |-> u.deps]
      BY <2>1
    <3>5. u \in [calls : Seq(C), visited : SUBSET P, deps : SUBSET Leads(s, XSLT!Kinds)]
      BY <2>3, <3>3, <3>4, Zenon
    <3> QED BY <3>5 DEF Searches, C, P
  <2>6. \A d \in ToSet(u.calls) : IF d.as = "sheet" THEN d.path = p \/ d.path \in Sheets(s) ELSE d.path \in Schemas(s)
    <3> SUFFICES ASSUME NEW d \in Asked(s, c)
                 PROVE  IF d.as = "sheet" THEN d.path = p \/ d.path \in Sheets(s) ELSE d.path \in Schemas(s)
      BY <2>3, <2>c DEF SearchInv
    <3>1. PICK r \in Fresh(s, c) : XSLT!Followed(c.as, r.kind) /\ d = [path |-> XSLT!ResolveDep(c.path, r), as |-> XSLT!As(r.kind)]
      BY DEF Asked
    <3>2. r \in ToSet(XSLT!Refs(s, c.path)) /\ r.kind \in XSLT!Kinds /\ c.path \in s.files /\ r.kind # "document"
      BY <2>4, <3>1 DEF XSLT!Followed
    <3>3. CASE r.kind = "href"
      <4>1. d.as = "sheet" /\ d.path \in Sheets(s)
        BY <3>1, <3>2, <3>3 DEF XSLT!As, Sheets, Leads
      <4> QED BY <4>1
    <3>4. CASE r.kind # "href"
      <4>1. r.kind \in {"schema", "location"}
        BY <3>2, <3>4 DEF XSLT!Kinds
      <4>2. d.as = "schema" /\ d.path \in Schemas(s)
        BY <3>1, <3>2, <3>4, <4>1 DEF XSLT!As, Schemas, Leads
      <4> QED BY <4>2
    <3> QED BY <3>3, <3>4
  <2>7. ASSUME NEW v \in u.visited \cap s.files, NEW r \in ToSet(XSLT!Refs(s, v)),
               XSLT!ContainedPath(XSLT!ResolveDep(v, r)), Read(s, p, v, r)
        PROVE  /\ XSLT!ResolveDep(v, r) \in u.deps
               /\ \/ r.kind = "document" \/ XSLT!ResolveDep(v, r) \in u.visited
                  \/ \E d \in ToSet(u.calls) : d.path = XSLT!ResolveDep(v, r)
    <3>1. CASE v \in w.visited
      <4>1. /\ XSLT!ResolveDep(v, r) \in w.deps
            /\ \/ r.kind = "document" \/ XSLT!ResolveDep(v, r) \in w.visited
               \/ \E d \in ToSet(w.calls) : d.path = XSLT!ResolveDep(v, r)
        BY <2>7, <3>1 DEF SearchInv
      <4> HIDE DEF c, C
      <4> QED BY <2>2, <2>3, <2>c, <4>1
    <3>2. CASE v \notin w.visited
      <4>1. v = c.path
        BY <2>2, <3>2
      <4>2. c.as = "sheet" \/ r.kind = "location"
        <5> SUFFICES ASSUME c.as # "sheet", r.kind # "location" PROVE FALSE
          OBVIOUS
        <5>1. v \in Schemas(s) /\ (v = p \/ v \in Sheets(s))
          BY <2>7, <2>c, <4>1 DEF SearchInv, Read
        <5>2. v \notin Sheets(s)
          BY <5>1, OneKind
        <5>3. v = p /\ w.visited = {}
          BY <3>2, <5>1, <5>2 DEF SearchInv
        <5>4. c = [path |-> p, as |-> "sheet"]
          BY <5>3 DEF SearchInv
        <5> QED BY <5>4
      <4>3. r \in Fresh(s, c)
        BY <2>7, <4>1, <4>2 DEF Fresh
      <4>4. XSLT!ResolveDep(v, r) \in u.deps
        BY <2>2, <4>1, <4>3
      <4>5. ASSUME r.kind # "document" PROVE \E d \in ToSet(u.calls) : d.path = XSLT!ResolveDep(v, r)
        <5>1. XSLT!Followed(c.as, r.kind)
          BY <4>2, <4>5 DEF XSLT!Followed
        <5>2. [path |-> XSLT!ResolveDep(c.path, r), as |-> XSLT!As(r.kind)] \in Asked(s, c)
          BY <4>3, <5>1 DEF Asked
        <5> HIDE DEF c, C
        <5> QED BY <2>3, <4>1, <5>2
      <4> QED BY <4>4, <4>5
    <3> QED BY <3>1, <3>2
  <2>8. IF u.visited = {} THEN u.calls = <<[path |-> p, as |-> "sheet"]>> ELSE p \in u.visited
    <3>1. CASE w.visited = {}
      <4>1. c = [path |-> p, as |-> "sheet"]
        BY <3>1 DEF SearchInv
      <4>2. c.path = p
        BY <4>1
      <4> HIDE DEF c, C
      <4>3. p \in u.visited
        BY <2>2, <4>2
      <4> QED BY <4>3
    <3>2. CASE w.visited # {}
      BY <2>2, <3>2 DEF SearchInv
    <3> QED BY <3>1, <3>2
  <2>9. SearchInv(s, p, u)
    <3> HIDE DEF c, C
    <3> QED BY <2>6, <2>7, <2>8 DEF SearchInv
  <2> QED BY <2>5, <2>9 DEF u
<1> QED BY <1>1, <1>3, <1>4

-------------------------------------------------------------------------------
(* xslt30: the search ends *)

\* The references not looked at yet, where V has been seen.
Pending(s, V) == UNION {{f} \X DOMAIN s.refs[f] : f \in DOMAIN s.refs \ V}

\* There are finitely many of them.
LEMMA PendingFinite ==
  ASSUME NEW s, XSLT!IsCheckout(s), NEW V
  PROVE  IsFiniteSet(Pending(s, V)) /\ Cardinality(Pending(s, V)) \in Nat
<1> DEFINE D == DOMAIN s.refs \ V
           g == [f \in D |-> {f} \X DOMAIN s.refs[f]]
           W == {g[f] : f \in D}
<1>1. IsFiniteSet(D)
  <2>1. IsFiniteSet(DOMAIN s.refs)
    BY SameHelpers DEF XSLT!IsCheckout
  <2> QED BY <2>1, FS_Difference
<1>2. ASSUME NEW f \in D PROVE IsFiniteSet(g[f])
  <2> DEFINE n == Len(s.refs[f])
  <2>1. IsList(s.refs[f])
    BY SameHelpers DEF XSLT!IsCheckout
  <2>2. n \in Nat /\ DOMAIN s.refs[f] = 1..n
    BY <2>1 DEF IsList
  <2> HIDE DEF n
  <2>3. IsFiniteSet(1..n) /\ IsFiniteSet({f})
    <3>1. n \in Int /\ 1 \in Int
      BY <2>2
    <3>2. IsFiniteSet(1..n)
      BY <3>1, FS_Interval
    <3> QED BY <3>2, FS_Singleton
  <2>4. IsFiniteSet({f} \X (1..n))
    BY <2>3, FS_Product
  <2> QED BY <2>2, <2>4
<1>3. IsFiniteSet(W)
  <2> DOMAIN g = D
    OBVIOUS
  <2> HIDE DEF g, D
  <2> QED BY <1>1, FiniteRange
<1>4. IsFiniteSet(UNION W)
  <2>1. \A T \in W : IsFiniteSet(T)
    <3> HIDE DEF g
    <3> QED BY <1>2
  <2> HIDE DEF W
  <2> QED BY <1>3, <2>1, FS_UNION
<1>5. Pending(s, V) = UNION W
  BY DEF Pending
<1>6. IsFiniteSet(Pending(s, V))
  BY <1>4, <1>5
<1> QED BY <1>6, FS_CardinalityType

\* Once a file has been seen, so many fewer are left as it has references.
LEMMA PendingDrops ==
  ASSUME NEW s, XSLT!IsCheckout(s), NEW V, NEW h, h \notin V
  PROVE  Cardinality(Pending(s, V \cup {h})) + Len(XSLT!Refs(s, h)) <= Cardinality(Pending(s, V))
<1>1. Cardinality(Pending(s, V)) \in Nat /\ Cardinality(Pending(s, V \cup {h})) \in Nat
  BY PendingFinite
<1>2. CASE h \notin DOMAIN s.refs
  <2>1. Len(XSLT!Refs(s, h)) = 0
    BY <1>2, RefsAre
  <2>2. DOMAIN s.refs \ (V \cup {h}) = DOMAIN s.refs \ V
    BY <1>2
  <2>3. Pending(s, V \cup {h}) = Pending(s, V)
    BY <2>2 DEF Pending
  <2> QED BY <1>1, <2>1, <2>3
<1>3. CASE h \in DOMAIN s.refs
  <2> DEFINE n == Len(s.refs[h])
             A == Pending(s, V \cup {h})
             B == {h} \X (1..n)
  <2>1. IsList(s.refs[h])
    BY <1>3, SameHelpers DEF XSLT!IsCheckout
  <2>2. n \in Nat /\ DOMAIN s.refs[h] = 1..n
    BY <2>1 DEF IsList
  <2>3. Pending(s, V) = A \cup B
    <3>1. DOMAIN s.refs \ V = (DOMAIN s.refs \ (V \cup {h})) \cup {h}
      BY <1>3
    <3> HIDE DEF n
    <3> QED BY <2>2, <3>1 DEF Pending
  <2>4. A \cap B = {}
    <3> SUFFICES ASSUME NEW x \in A, x \in B PROVE FALSE
      OBVIOUS
    <3>1. PICK f \in DOMAIN s.refs \ (V \cup {h}) : x \in {f} \X DOMAIN s.refs[f]
      BY DEF Pending
    <3> QED BY <3>1
  <2>5. IsFiniteSet(B) /\ Cardinality(B) = n
    <3>1. IsFiniteSet(1..n) /\ Cardinality(1..n) = n
      <4> HIDE DEF n
      <4>1. n \in Int /\ 1 \in Int
        BY <2>2
      <4>2. IsFiniteSet(1..n) /\ Cardinality(1..n) = IF 1 > n THEN 0 ELSE n - 1 + 1
        BY <4>1, FS_Interval
      <4> QED BY <2>2, <4>2
    <3>2. IsFiniteSet({h}) /\ Cardinality({h}) = 1
      BY FS_Singleton
    <3> DEFINE m == Cardinality(1..n)
    <3>3. IsFiniteSet(B) /\ Cardinality(B) = 1 * m
      <4> HIDE DEF n
      <4> QED BY <3>1, <3>2, FS_Product
    <3>4. 1 * m = n
      <4> HIDE DEF n
      <4> QED BY <2>2, <3>1
    <3> QED BY <3>3, <3>4
  <2> HIDE DEF A, B, n
  <2>6. IsFiniteSet(A)
    BY PendingFinite DEF A
  <2>7. Cardinality(A \cup B) = Cardinality(A) + Cardinality(B) - Cardinality({})
    BY <2>4, <2>5, <2>6, FS_Union
  <2>8. Cardinality({}) = 0
    BY FS_EmptySet
  <2>9. Len(XSLT!Refs(s, h)) <= n
    BY <1>3, RefsAre DEF n
  <2>10. Len(XSLT!Refs(s, h)) \in Nat
    <3>1. IsList(XSLT!Refs(s, h))
      BY RefsAre
    <3> QED BY <3>1 DEF IsList
  <2>11. Cardinality(Pending(s, V)) = Cardinality(A) + n
    <3> DEFINE a == Cardinality(A)
               b == Cardinality(B)
               z == Cardinality({})
               ab == Cardinality(A \cup B)
    <3>1. a \in Nat /\ b = n /\ z = 0 /\ ab = a + b - z
      BY <1>1, <2>5, <2>7, <2>8 DEF A
    <3>2. ab = a + n
      <4> HIDE DEF a, b, z, ab
      <4> QED BY <2>2, <3>1
    <3> QED BY <2>3, <3>2
  <2> DEFINE a == Cardinality(A)
             t == Cardinality(Pending(s, V))
             k == Len(XSLT!Refs(s, h))
  <2>12. a \in Nat /\ t = a + n /\ k <= n /\ k \in Nat
    BY <1>1, <2>9, <2>10, <2>11 DEF A
  <2>13. a + k <= t
    <3> HIDE DEF a, t, k
    <3> QED BY <2>2, <2>12
  <2> QED BY <2>13 DEF A
<1> QED BY <1>2, <1>3

\* What is still to do: calls asked for, and references that may ask for one.
Todo(s, w) == Len(w.calls) + Cardinality(Pending(s, w.visited))

\* Each call leaves less to do.
LEMMA TodoShrinks ==
  ASSUME NEW s, XSLT!IsCheckout(s), NEW p, NEW w \in Searches(s, p)
  PROVE  /\ Todo(s, w) \in Nat
         /\ w.calls # <<>> => Todo(s, XSLT!Visit(s, w)) + 1 <= Todo(s, w)
         /\ Todo(s, w) = 0 => w.calls = <<>>
<1> DEFINE C == Calls(s, p)
           q == w.calls
           k == Cardinality(Pending(s, w.visited))
<1>1. q \in Seq(C)
  BY DEF Searches
<1>2. k \in Nat
  BY PendingFinite
<1> HIDE DEF C, k
<1>3. Len(q) \in Nat /\ (Len(q) = 0 => q = <<>>)
  <2> HIDE DEF q
  <2> QED BY <1>1
<1>4. Todo(s, w) = Len(q) + k
  BY DEF Todo, k
<1>5. Todo(s, w) \in Nat /\ (Todo(s, w) = 0 => Len(q) = 0)
  <2> DEFINE l == Len(q)
  <2> HIDE DEF l
  <2>1. l \in Nat
    BY <1>3 DEF l
  <2>2. l + k \in Nat /\ (l + k = 0 => l = 0)
    BY <1>2, <2>1
  <2> QED BY <1>4, <2>2 DEF l
<1>6. ASSUME q # <<>> PROVE Todo(s, XSLT!Visit(s, w)) + 1 <= Todo(s, w)
  <2> DEFINE u == XSLT!Visit(s, w)
             c == Head(q)
             l == Len(Tail(q))
  <2>1. Tail(q) \in Seq(C) /\ l + 1 = Len(q) /\ l \in Nat
    <3> HIDE DEF q
    <3> QED BY <1>1, <1>6, HeadAndTail
  <2>2. CASE c.path \in w.visited
    <3>1. u = [w EXCEPT !.calls = Tail(w.calls)]
      BY <1>6, <2>2 DEF XSLT!Visit
    <3>2. u.calls = Tail(q) /\ u.visited = w.visited
      BY <3>1 DEF Searches
    <3>3. Todo(s, u) = l + k
      <4> HIDE DEF u
      <4> QED BY <3>2 DEF Todo, k
    <3> HIDE DEF u, l
    <3>4. l + k + 1 <= l + 1 + k
      BY <1>2, <2>1
    <3>5. Todo(s, u) + 1 <= Todo(s, w)
      BY <1>4, <2>1, <3>3, <3>4
    <3> QED BY <3>5 DEF u
  <2>3. CASE c.path \notin w.visited
    <3>1. PICK new \in Seq(C) :
          /\ u = [calls |-> new \o Tail(w.calls), visited |-> w.visited \cup {c.path},
                  deps |-> w.deps \cup {XSLT!ResolveDep(c.path, r) : r \in Fresh(s, c)}]
          /\ ToSet(new) = Asked(s, c) /\ Len(new) <= Len(XSLT!Refs(s, c.path))
      BY <1>6, <2>3, VisitFresh DEF C
    <3>2. u.calls = new \o Tail(q) /\ u.visited = w.visited \cup {c.path}
      <4> HIDE DEF u
      <4> QED BY <3>1
    <3> DEFINE k2 == Cardinality(Pending(s, w.visited \cup {c.path}))
               m == Len(XSLT!Refs(s, c.path))
               n == Len(new)
    <3>3. Todo(s, u) = n + l + k2
      <4>1. Len(new \o Tail(q)) = n + l
        <5> DEFINE rest == Tail(q)
        <5>1. rest \in Seq(C)
          BY <2>1
        <5> HIDE DEF rest
        <5>2. Len(new \o rest) = Len(new) + Len(rest)
          BY <5>1, ConcatAt
        <5> QED BY <5>2 DEF rest
      <4> HIDE DEF u
      <4> QED BY <3>2, <4>1 DEF Todo
    <3>4. k2 + m <= k
      BY <2>3, PendingDrops DEF k
    <3>5. k2 \in Nat
      BY PendingFinite
    <3>6. m \in Nat /\ n \in Nat /\ n <= m
      <4>1. IsList(XSLT!Refs(s, c.path))
        BY RefsAre
      <4>2. m \in Nat
        BY <4>1 DEF IsList
      <4>3. n \in Nat
        <5> HIDE DEF q
        <5> QED OBVIOUS
      <4> QED BY <3>1, <4>2, <4>3
    <3> HIDE DEF k2, m, n, l, u
    <3>7. n + l + k2 + 1 <= l + 1 + k
      BY <1>2, <2>1, <3>4, <3>5, <3>6
    <3>8. Todo(s, u) + 1 <= Todo(s, w)
      BY <1>4, <2>1, <3>3, <3>7
    <3> QED BY <3>8 DEF u
  <2> QED BY <2>2, <2>3
<1> HIDE DEF q
<1> QED BY <1>3, <1>5, <1>6 DEF q

\* The search for what p depends on ends: what it has seen is closed.
LEMMA DepsClosed ==
  ASSUME NEW s, XSLT!IsCheckout(s), NEW p
  PROVE  \E V :
           /\ p \in V
           /\ \A v \in V \cap s.files : \A r \in ToSet(XSLT!Refs(s, v)) :
                XSLT!ContainedPath(XSLT!ResolveDep(v, r)) /\ Read(s, p, v, r) =>
                  /\ XSLT!ResolveDep(v, r) \in XSLT!CollectTransitiveDeps(s, p)
                  /\ r.kind = "document" \/ XSLT!ResolveDep(v, r) \in V
<1> DEFINE W == Searches(s, p)
           w0 == [calls |-> <<[path |-> p, as |-> "sheet"]>>, visited |-> {}, deps |-> {}]
           S == {w \in W : SearchInv(s, p, w)}
           step == [n \in Nat |-> [w \in S |-> XSLT!Visit(s, w)]]
           Rec(a) == [n \in Nat |-> IF n = 0 THEN w0 ELSE XSLT!Visit(s, a[n - 1])]
           after == CHOOSE a : a = Rec(a)
           bound == 1 + XSLT!Cardinality(UNION {{f} \X DOMAIN s.refs[f] : f \in DOMAIN s.refs})
<1>1. w0 \in S
  <2> DEFINE c0 == [path |-> p, as |-> "sheet"]
  <2>1. c0 \in Calls(s, p)
    BY DEF Calls
  <2>2. <<c0>> \in Seq(Calls(s, p)) /\ ToSet(<<c0>>) = {c0}
    <3> HIDE DEF c0
    <3>1. <<c0>> \in Seq(Calls(s, p)) /\ DOMAIN <<c0>> = {1} /\ <<c0>>[1] = c0
      BY <2>1
    <3> QED BY <3>1 DEF ToSet
  <2>3. w0 \in W
    BY <2>2 DEF Searches
  <2>4. SearchInv(s, p, w0)
    BY <2>2 DEF SearchInv
  <2> HIDE DEF w0, W
  <2> QED BY <2>3, <2>4
<1>2. \A w \in S : XSLT!Visit(s, w) \in S
  BY SearchStep
<1>3. PICK f \in [Nat -> S] : f[0] = w0 /\ \A n \in Nat : f[n + 1] = step[n][f[n]]
  <2>1. step \in [Nat -> [S -> S]]
    <3> HIDE DEF S
    <3> QED BY <1>2
  <2> HIDE DEF step, S, w0
  <2>2. PICK f : Runs(f, S, w0, step)
    BY <1>1, <2>1, Iterate
  <2> QED BY <2>2 DEF Runs
<1>4. \A n \in Nat : f[n + 1] = XSLT!Visit(s, f[n])
  <2> HIDE DEF S, w0
  <2> QED BY <1>3
<1>5. f = Rec(f)
  <2>1. ASSUME NEW n \in Nat PROVE f[n] = Rec(f)[n]
    <3> HIDE DEF w0
    <3>1. CASE n = 0
      BY <1>3, <3>1
    <3>2. CASE n # 0
      <4>1. n - 1 \in Nat /\ n - 1 + 1 = n
        BY <3>2
      <4>2. f[n - 1 + 1] = XSLT!Visit(s, f[n - 1])
        BY <1>4, <4>1
      <4> QED BY <3>2, <4>1, <4>2
    <3> QED BY <3>1, <3>2
  <2> HIDE DEF w0, S
  <2> QED BY <1>3, <2>1
<1> HIDE DEF W, S, step, w0
<1>6. after = Rec(after)
  <2> HIDE DEF Rec
  <2> QED BY <1>5
<1>7. after[0] = w0
  BY <1>6
<1>8. ASSUME NEW n \in Nat PROVE after[n + 1] = XSLT!Visit(s, after[n])
  <2> HIDE DEF after
  <2>1. n + 1 \in Nat /\ n + 1 # 0 /\ n + 1 - 1 = n
    OBVIOUS
  <2>2. Rec(after)[n + 1] = XSLT!Visit(s, after[n + 1 - 1])
    BY <2>1
  <2> QED BY <1>6, <2>1, <2>2
<1>9. XSLT!CollectTransitiveDeps(s, p) = after[bound].deps
  BY DEF XSLT!CollectTransitiveDeps, w0
<1>10. bound \in Nat /\ bound = Todo(s, w0)
  <2> DEFINE k == Cardinality(Pending(s, {}))
  <2>1. Pending(s, {}) = UNION {{x} \X DOMAIN s.refs[x] : x \in DOMAIN s.refs}
    <3>1. DOMAIN s.refs \ {} = DOMAIN s.refs
      OBVIOUS
    <3> QED BY <3>1 DEF Pending
  <2>2. bound = 1 + k
    BY <2>1, SameHelpers
  <2>3. k \in Nat
    BY PendingFinite
  <2>4. Todo(s, w0) = 1 + k
    <3>1. Len(<<[path |-> p, as |-> "sheet"]>>) = 1
      OBVIOUS
    <3> QED BY <3>1 DEF Todo, w0
  <2> HIDE DEF k, bound
  <2> QED BY <2>2, <2>3, <2>4
<1> HIDE DEF after, bound, Rec
<1> DEFINE Done(n) == /\ after[n] \in S
                      /\ after[n].calls = <<>> \/ Todo(s, after[n]) + n <= bound
           Q == {n \in Nat : Done(n)}
<1>11. 0 \in Q
  BY <1>1, <1>7, <1>10
<1>12. ASSUME NEW n \in Q PROVE n + 1 \in Q
  <2> DEFINE a == after[n]
             b == after[n + 1]
  <2>0. n \in Nat
    OBVIOUS
  <2>1. a \in S /\ (a.calls = <<>> \/ Todo(s, a) + n <= bound) /\ b = XSLT!Visit(s, a)
    BY <1>8, <2>0
  <2> HIDE DEF a, b
  <2>2. b \in S
    BY <1>2, <2>1
  <2>3. b.calls = <<>> \/ Todo(s, b) + (n + 1) <= bound
    <3>1. CASE a.calls = <<>>
      BY <2>1, <3>1 DEF XSLT!Visit
    <3>2. CASE a.calls # <<>>
      <4>1. a \in Searches(s, p) /\ b \in Searches(s, p)
        BY <2>1, <2>2 DEF S, W
      <4> DEFINE ta == Todo(s, a)
                 tb == Todo(s, b)
      <4>2. ta \in Nat /\ tb \in Nat /\ tb + 1 <= ta /\ ta + n <= bound
        BY <2>1, <3>2, <4>1, TodoShrinks
      <4> HIDE DEF ta, tb
      <4>3. tb + (n + 1) <= bound
        BY <1>10, <2>0, <4>2
      <4> QED BY <4>3 DEF tb
    <3> QED BY <3>1, <3>2
  <2> QED BY <2>0, <2>2, <2>3 DEF b
<1>13. Q = Nat
  <2> HIDE DEF Q
  <2>1. Q \in SUBSET Nat
    BY DEF Q
  <2> QED BY <1>11, <1>12, <2>1, NatInd
<1> DEFINE e == after[bound]
<1>14. e \in S /\ (e.calls = <<>> \/ Todo(s, e) + bound <= bound)
  BY <1>10, <1>13
<1> HIDE DEF e
<1>15. e \in Searches(s, p) /\ SearchInv(s, p, e)
  BY <1>14 DEF S, W
<1>16. e.calls = <<>>
  <2> SUFFICES ASSUME e.calls # <<>> PROVE FALSE
    OBVIOUS
  <2> DEFINE t == Todo(s, e)
  <2>1. t \in Nat /\ t + bound <= bound /\ t # 0
    BY <1>14, <1>15, TodoShrinks
  <2> HIDE DEF t
  <2> QED BY <1>10, <2>1
<1>17. ToSet(e.calls) = {}
  BY <1>16 DEF ToSet
<1>18. p \in e.visited
  BY <1>15, <1>16 DEF SearchInv
<1>19. ASSUME NEW v \in e.visited \cap s.files, NEW r \in ToSet(XSLT!Refs(s, v)),
              XSLT!ContainedPath(XSLT!ResolveDep(v, r)), Read(s, p, v, r)
       PROVE  XSLT!ResolveDep(v, r) \in e.deps /\ (r.kind = "document" \/ XSLT!ResolveDep(v, r) \in e.visited)
  BY <1>15, <1>17, <1>19 DEF SearchInv
<1>20. e.deps = XSLT!CollectTransitiveDeps(s, p)
  BY <1>9 DEF e
<1> QED BY <1>18, <1>19, <1>20

-------------------------------------------------------------------------------
(* xslt30: rows and what their cases open *)

\* One list after another is a list.
LEMMA ListConcat ==
  ASSUME NEW q, NEW r, IsList(q), IsList(r)
  PROVE  IsList(q \o r) /\ ToSet(q \o r) = ToSet(q) \cup ToSet(r)
<1> DEFINE T == ToSet(q) \cup ToSet(r)
<1>1. q \in Seq(T) /\ r \in Seq(T)
  BY DEF IsList
<1> HIDE DEF T
<1>2. ToSet(q \o r) = ToSet(q) \cup ToSet(r)
  BY <1>1, ToSetConcat
<1>3. q \o r \in Seq(T)
  BY <1>1
<1> QED BY <1>2, <1>3 DEF IsList, T

\* The paths of some references are those of each that is safe.
LEMMA PathsOfRefs ==
  ASSUME NEW dir, NEW refs, IsList(refs)
  PROVE  LET path(r) == XSLT!Join(dir, XSLT!NormalizeAssetPath(r.file)) IN
         ToSet(XSLT!CatalogRelPaths(dir, refs)) =
           {path(r) : r \in {t \in ToSet(refs) : t.file # "" /\ XSLT!ContainedPath(path(t))}}
<1> DEFINE path(r) == XSLT!Join(dir, XSLT!NormalizeAssetPath(r.file))
           good == {t \in ToSet(refs) : t.file # "" /\ XSLT!ContainedPath(path(t))}
           safe == Among(refs, good)
<1>1. XSLT!CatalogRelPaths(dir, refs) = [i \in DOMAIN safe |-> path(safe[i])]
  BY SameHelpers DEF XSLT!CatalogRelPaths
<1>2. ToSet(safe) = good
  <2>1. ToSet(refs) \cap good = good
    OBVIOUS
  <2> HIDE DEF good
  <2> QED BY <2>1, AmongIs
<1>3. good = {safe[i] : i \in DOMAIN safe}
  BY <1>2 DEF ToSet
<1>4. ToSet(XSLT!CatalogRelPaths(dir, refs)) = {path(safe[i]) : i \in DOMAIN safe}
  <2> HIDE DEF safe, path
  <2> QED BY <1>1 DEF ToSet
<1>5. ToSet(XSLT!CatalogRelPaths(dir, refs)) = {path(r) : r \in good}
  <2> HIDE DEF safe, path, good
  <2> QED BY <1>3, <1>4
<1> QED BY <1>5

\* A row of xslt30 is that of a case of the catalog, whose files are all wanted.
LEMMA XSLTRowIs ==
  ASSUME NEW s, XSLT!IsCheckout(s), XSLT!CollectTests(s).ok, NEW row \in ToSet(XSLT!CollectTests(s).rows)
  PROVE  \E ts \in ToSet(s.sets) : \E tc \in ToSet(ts.cases) :
           /\ \E gated : row = XSLT!Row(XSLT!GeneratedTest(ts, tc, gated))
           /\ XSLT!CaseFiles(s, ts, tc) \subseteq XSLT!CollectTests(s).files
<1> DEFINE sets == XSLT!Walked(s)
           cases == XSLT!CasesOf(sets)
           RowAt(i) == XSLT!Row(XSLT!GeneratedTest(cases[i].set, cases[i].tc, XSLT!GatedSkip(cases, i, DOMAIN cases)))
           all == [i \in DOMAIN cases |-> RowAt(i)]
           kept == {r \in XSLT!ToSet(all) : ~XSLT!IsExcludedTestCase(r.name)}
           forSets == UNION {XSLT!SetFiles(s, ts) : ts \in XSLT!ToSet(sets)}
           forCases == UNION {XSLT!CaseFiles(s, c.set, c.tc) : c \in XSLT!ToSet(cases)}
           top == {<<".", "catalog.xml">>}
           OfSet(ts) == [j \in DOMAIN ts.cases |-> [set |-> ts, tc |-> ts.cases[j]]]
           parts == [i \in DOMAIN sets |-> OfSet(sets[i])]
           T == UNION {{[set |-> ts, tc |-> tc] : tc \in ToSet(ts.cases)} : ts \in ToSet(s.sets)}
<1>1. XSLT!CollectTests(s) = IF XSLT!WalkFails(s) THEN [ok |-> FALSE, rows |-> <<>>, files |-> {}]
                             ELSE [ok |-> TRUE, rows |-> XSLT!Among(all, kept), files |-> top \cup forSets \cup forCases]
  BY DEF XSLT!CollectTests
<1>2. XSLT!CollectTests(s).rows = Among(all, kept) /\ forCases \subseteq XSLT!CollectTests(s).files
  <2> HIDE DEF all, kept, forSets, forCases, top
  <2>1. XSLT!Among(all, kept) = Among(all, kept)
    BY SameHelpers
  <2>2. XSLT!CollectTests(s) = [ok |-> TRUE, rows |-> XSLT!Among(all, kept), files |-> top \cup forSets \cup forCases]
    BY <1>1
  <2> QED BY <2>1, <2>2
<1>3. sets \in Seq(ToSet(sets)) /\ ToSet(sets) \subseteq ToSet(s.sets)
  <2>1. IsList(s.sets)
    BY SameHelpers DEF XSLT!IsCheckout
  <2> DEFINE W == {ts \in ToSet(s.sets) : ts.name # "catalog" /\ XSLT!ContainedPath(ts.path)}
  <2>2. sets = Among(s.sets, W)
    BY SameHelpers DEF XSLT!Walked
  <2> HIDE DEF W, sets
  <2>3. sets \in Seq(ToSet(s.sets) \cap W) /\ ToSet(sets) = ToSet(s.sets) \cap W
    BY <2>1, <2>2, AmongIs
  <2> QED BY <2>3
<1>4. ASSUME NEW ts \in ToSet(s.sets) PROVE OfSet(ts) \in Seq(T)
  <2> DEFINE cs == ts.cases
  <2>1. IsList(cs)
    BY SameHelpers DEF XSLT!IsCheckout
  <2> HIDE DEF cs
  <2>2. Len(cs) \in Nat /\ DOMAIN cs = 1..Len(cs) /\ \A j \in DOMAIN cs : cs[j] \in ToSet(cs)
    BY <2>1 DEF IsList
  <2>3. \A tc \in ToSet(cs) : [set |-> ts, tc |-> tc] \in T
    BY DEF cs
  <2>4. OfSet(ts) \in [1..Len(cs) -> T]
    <3>1. OfSet(ts) = [j \in DOMAIN cs |-> [set |-> ts, tc |-> cs[j]]]
      BY DEF cs
    <3> HIDE DEF T, OfSet
    <3> QED BY <2>2, <2>3, <3>1
  <2> HIDE DEF T, OfSet
  <2> QED BY <2>2, <2>4, ListOf
<1>5. cases \in Seq(T)
  <2>1. Len(sets) \in Nat /\ DOMAIN sets = 1..Len(sets) /\ \A i \in DOMAIN sets : sets[i] \in ToSet(s.sets)
    <3> HIDE DEF sets
    <3> QED BY <1>3
  <2>2. parts \in [1..Len(sets) -> Seq(T)]
    <3> HIDE DEF sets, T, OfSet
    <3> QED BY <1>4, <2>1
  <2>3. cases = FlattenSeq(parts)
    BY SameHelpers DEF XSLT!CasesOf
  <2> HIDE DEF parts, sets, T, cases
  <2>4. parts \in Seq(Seq(T))
    BY <2>1, <2>2, ListOf
  <2> QED BY <2>3, <2>4, FlattenIs
<1>6. Len(cases) \in Nat /\ DOMAIN cases = 1..Len(cases) /\ \A i \in DOMAIN cases : cases[i] \in T
  <2> HIDE DEF cases, T
  <2> QED BY <1>5
<1>7. IsList(all)
  <2> DEFINE R == ToSet(all)
  <2>1. all \in [1..Len(cases) -> R]
    <3> HIDE DEF cases, RowAt
    <3> QED BY <1>6 DEF ToSet
  <2> HIDE DEF all, cases, R
  <2>2. all \in Seq(R)
    BY <1>6, <2>1, ListOf
  <2> QED BY <2>2 DEF IsList, R
<1>8. row \in ToSet(all)
  <2> HIDE DEF all, kept
  <2>1. ToSet(Among(all, kept)) = ToSet(all) \cap kept
    BY <1>7, AmongIs
  <2>2. row \in ToSet(Among(all, kept))
    BY <1>2
  <2> QED BY <2>1, <2>2
<1>9. PICK i \in DOMAIN cases : row = RowAt(i)
  <2> HIDE DEF cases, RowAt
  <2> QED BY <1>8 DEF ToSet
<1>10. XSLT!CaseFiles(s, cases[i].set, cases[i].tc) \subseteq forCases
  <2>1. cases[i] \in XSLT!ToSet(cases)
    <3> HIDE DEF cases
    <3> QED BY SameHelpers DEF ToSet
  <2> HIDE DEF cases
  <2> QED BY <2>1
<1>11. cases[i].set \in ToSet(s.sets) /\ cases[i].tc \in ToSet(cases[i].set.cases)
  <2> HIDE DEF cases
  <2>1. cases[i] \in T
    BY <1>6
  <2>2. PICK ts \in ToSet(s.sets) : cases[i] \in {[set |-> ts, tc |-> tc] : tc \in ToSet(ts.cases)}
    BY <2>1
  <2> QED BY <2>2
<1> HIDE DEF cases, forCases
<1> QED BY <1>2, <1>9, <1>10, <1>11

\* The environment of a case lists its documents.
LEMMA XSLTEnvIs ==
  ASSUME NEW s, XSLT!IsCheckout(s), NEW ts \in ToSet(s.sets), NEW tc \in ToSet(ts.cases)
  PROVE  LET e == XSLT!ResolveEnvironment(tc, ts.envs) IN
         IsList(e.sources) /\ IsList(e.schemas) /\ IsList(e.collections)
<1> DEFINE Envs == {u.env : u \in XSLT!ToSet(ts.cases)} \cup XSLT!Range(ts.envs)
           e == XSLT!ResolveEnvironment(tc, ts.envs)
<1>1. \A d \in Envs : IsList(d.sources) /\ IsList(d.schemas) /\ IsList(d.collections)
  BY SameHelpers DEF XSLT!IsCheckout
<1>2. e \in Envs \/ e = XSLT!EmptyEnv
  BY SameHelpers DEF XSLT!ResolveEnvironment, XSLT!Range
<1>3. IsList(XSLT!EmptyEnv.sources) /\ IsList(XSLT!EmptyEnv.schemas) /\ IsList(XSLT!EmptyEnv.collections)
  <2>1. XSLT!EmptyEnv.sources = <<>> /\ XSLT!EmptyEnv.schemas = <<>> /\ XSLT!EmptyEnv.collections = <<>>
    BY DEF XSLT!EmptyEnv
  <2>2. IsList(<<>>)
    BY DEF IsList
  <2> QED BY <2>1, <2>2
<1> HIDE DEF Envs, e
<1>4. IsList(e.sources) /\ IsList(e.schemas) /\ IsList(e.collections)
  BY <1>1, <1>2, <1>3
<1> QED BY <1>4 DEF e

\* The documents a row names are those of its environment.
LEMMA XSLTDocsWanted ==
  ASSUME NEW dir, NEW env, IsList(env.sources), IsList(env.schemas), IsList(env.collections)
  PROVE  XSLT!SourceDocPath(dir, env) \cup XSLT!ToSet(XSLT!CatalogRelPaths(dir, env.collections \o env.schemas))
           \subseteq XSLT!EnvDocs(dir, env)
<1> DEFINE path(r) == XSLT!Join(dir, XSLT!NormalizeAssetPath(r.file))
           Paths(R) == {path(r) : r \in {t \in R : t.file # "" /\ XSLT!ContainedPath(path(t))}}
           a == env.sources
           b == env.schemas
           c == env.collections
           own == {r \in ToSet(a) : r.role \in {"."}}
           role == Among(a, own)
<1>1. \A refs : IsList(refs) => ToSet(XSLT!CatalogRelPaths(dir, refs)) = Paths(ToSet(refs))
  <2> SUFFICES ASSUME NEW refs, IsList(refs) PROVE ToSet(XSLT!CatalogRelPaths(dir, refs)) = Paths(ToSet(refs))
    OBVIOUS
  <2> QED BY PathsOfRefs
<1>2. \A R, Q : R \subseteq Q => Paths(R) \subseteq Paths(Q)
  OBVIOUS
<1>3. XSLT!Role(a, {"."}) = role
  BY SameHelpers DEF XSLT!Role
<1>4. IsList(role) /\ ToSet(role) \subseteq ToSet(a)
  <2> HIDE DEF own, role, a
  <2>0. IsList(a)
    BY DEF a
  <2>1. role \in Seq(ToSet(a) \cap own) /\ ToSet(role) = ToSet(a) \cap own
    BY <2>0, AmongIs DEF role
  <2> QED BY <2>1 DEF IsList
<1>5. IsList(a \o b \o c) /\ ToSet(a \o b \o c) = ToSet(a) \cup ToSet(b) \cup ToSet(c)
  <2>0. IsList(a) /\ IsList(b) /\ IsList(c)
    OBVIOUS
  <2> HIDE DEF a, b, c
  <2> DEFINE ab == a \o b
  <2>1. IsList(ab) /\ ToSet(ab) = ToSet(a) \cup ToSet(b)
    BY <2>0, ListConcat
  <2> HIDE DEF ab
  <2>2. IsList(ab \o c) /\ ToSet(ab \o c) = ToSet(ab) \cup ToSet(c)
    BY <2>0, <2>1, ListConcat
  <2> QED BY <2>1, <2>2 DEF ab
<1>6. IsList(c \o b) /\ ToSet(c \o b) = ToSet(c) \cup ToSet(b)
  <2>0. IsList(b) /\ IsList(c)
    OBVIOUS
  <2> HIDE DEF b, c
  <2> QED BY <2>0, ListConcat
<1>7. XSLT!EnvDocs(dir, env) = ToSet(XSLT!CatalogRelPaths(dir, a \o b \o c))
  BY SameHelpers DEF XSLT!EnvDocs
<1>8. XSLT!SourceDocPath(dir, env) \subseteq ToSet(XSLT!CatalogRelPaths(dir, role))
  BY <1>3 DEF XSLT!SourceDocPath, XSLT!Final, ToSet
<1> HIDE DEF Paths, a, b, c, role, own
<1>9. Paths(ToSet(role)) \subseteq Paths(ToSet(a \o b \o c)) /\ Paths(ToSet(c \o b)) \subseteq Paths(ToSet(a \o b \o c))
  BY <1>2, <1>4, <1>5, <1>6
<1>10. XSLT!ToSet(XSLT!CatalogRelPaths(dir, c \o b)) = ToSet(XSLT!CatalogRelPaths(dir, c \o b))
  BY SameHelpers
<1>11. XSLT!SourceDocPath(dir, env) \cup XSLT!ToSet(XSLT!CatalogRelPaths(dir, c \o b)) \subseteq XSLT!EnvDocs(dir, env)
  BY <1>1, <1>4, <1>5, <1>6, <1>7, <1>8, <1>9, <1>10
<1> QED BY <1>11 DEF b, c

\* A record set over finite sets is finite.
LEMMA RequestsFinite ==
  ASSUME NEW P, IsFiniteSet(P)
  PROVE  IsFiniteSet([path : P, as : {"sheet", "schema", "data"}])
<1> DEFINE A == {"sheet", "schema", "data"}
           g == [z \in P \X A |-> [path |-> z[1], as |-> z[2]]]
           R == [path : P, as : A]
           I == {g[z] : z \in DOMAIN g}
<1>1. IsFiniteSet(A)
  <2>1. A = {"sheet"} \cup ({"schema"} \cup {"data"})
    OBVIOUS
  <2>2. IsFiniteSet({"schema"} \cup {"data"})
    BY FS_Singleton, FS_Union
  <2>3. IsFiniteSet({"sheet"} \cup ({"schema"} \cup {"data"}))
    BY <2>2, FS_Singleton, FS_Union
  <2> QED BY <2>1, <2>3
<1>2. IsFiniteSet(P \X A)
  <2> HIDE DEF A
  <2> QED BY <1>1, FS_Product
<1>3. IsFiniteSet(I)
  <2>1. DOMAIN g = P \X A
    OBVIOUS
  <2> HIDE DEF g, A
  <2> QED BY <1>2, <2>1, FiniteRange
<1>4. R \subseteq I
  <2> SUFFICES ASSUME NEW x \in R PROVE x \in I
    OBVIOUS
  <2>1. <<x.path, x.as>> \in P \X A
    OBVIOUS
  <2>2. g[<<x.path, x.as>>] = x
    BY <2>1
  <2>3. <<x.path, x.as>> \in DOMAIN g
    BY <2>1
  <2> HIDE DEF g
  <2> QED BY <2>2, <2>3
<1> HIDE DEF I, R
<1>5. IsFiniteSet(R)
  BY <1>3, <1>4, FS_Subset
<1> QED BY <1>5 DEF R

\* Where a reference leads without its fragment: to what the search records, or to
\* what is copied for that; either both are in the suite or neither is.
LEMMA WithoutFragment ==
  ASSUME NEW p, NEW r
  PROVE  LET q == XSLT!ResolveDep(p, r)
             y == Join(p[1], XSLT!NormalizeAssetPath(r.to)) IN
         /\ y = q \/ (r.to \in DOMAIN XSLT!Bare /\ y \in XSLT!Assets({q}))
         /\ XSLT!ContainedPath(y) => XSLT!ContainedPath(q)
<1> DEFINE q == XSLT!ResolveDep(p, r)
           y == Join(p[1], XSLT!NormalizeAssetPath(r.to))
<1>1. DOMAIN XSLT!Bare = {"a#f"} /\ XSLT!Bare["a#f"] = "a" /\ DOMAIN Up = {"../a"} /\ DOMAIN XSLT!Up = {"../a"}
  BY DEF XSLT!Bare, Up, XSLT!Up
<1>2. \A d, f : XSLT!Join(d, f) = Join(d, f)
  BY DEF XSLT!Join, Join, XSLT!Up, Up
<1>3. CASE r.to \notin DOMAIN XSLT!Bare \/ r.kind = "document"
  <2>1. y = q
    BY <1>2, <1>3 DEF XSLT!ResolveDep, XSLT!NormalizeAssetPath
  <2> HIDE DEF y, q
  <2>2. (y = q \/ (r.to \in DOMAIN XSLT!Bare /\ y \in XSLT!Assets({q}))) /\ (XSLT!ContainedPath(y) => XSLT!ContainedPath(q))
    BY <2>1
  <2> QED BY <2>2 DEF y, q
<1>4. CASE r.to \in DOMAIN XSLT!Bare /\ r.kind # "document"
  <2>1. r.to = "a#f" /\ XSLT!NormalizeAssetPath(r.to) = "a"
    BY <1>1, <1>4 DEF XSLT!NormalizeAssetPath
  <2>2. y = <<p[1], "a">>
    BY <1>1, <2>1 DEF Join
  <2>3. q = <<p[1], "a#f">>
    BY <1>1, <1>2, <1>4, <2>1 DEF XSLT!ResolveDep, Join
  <2> HIDE DEF y, q
  <2>4. y = <<q[1], XSLT!NormalizeAssetPath(q[2])>>
    BY <2>1, <2>2, <2>3
  <2>5. y \in XSLT!Assets({q})
    BY <2>4 DEF XSLT!Assets
  <2>6. XSLT!ContainedPath(y) => XSLT!ContainedPath(q)
    BY <2>2, <2>3 DEF XSLT!ContainedPath
  <2> QED BY <1>4, <2>5, <2>6 DEF y, q
<1> QED BY <1>3, <1>4

\* What a case of xslt30 opens and the checkout has is a stylesheet of its row, a
\* file one of them depends on, perhaps with a fragment, or a document.
LEMMA XSLTOpensDeps ==
  ASSUME XSLT!IsCheckout(src), IsFiniteSet(Copyable), src.files \subseteq Copyable, NEW row
  PROVE  LET deps == XSLT!WithDeps(src, row.sheets) IN
         XSLTOpens(row) \cap src.files \subseteq deps \cup XSLT!Assets(deps) \cup row.docs
<1> DEFINE read(x) == {r \in ToSet(XSLT!Refs(src, x.path)) : x.as = "sheet" \/ (x.as = "schema" /\ r.kind = "location")}
           Request(x, r) == [path |-> Join(x.path[1], XSLT!NormalizeAssetPath(r.to)),
                             as |-> IF r.kind = "document" \/ r.to \in DOMAIN XSLT!Bare THEN "data" ELSE XSLT!As(r.kind)]
           step(x) == {Request(x, r) : r \in read(x)}
           D == [path : Copyable, as : {"sheet", "schema", "data"}]
           next == [x \in D |-> step(x)]
           start == {[path |-> p, as |-> "sheet"] : p \in row.sheets}
           Closed(V, p) ==
             /\ p \in V
             /\ \A v \in V \cap src.files : \A r \in ToSet(XSLT!Refs(src, v)) :
                  XSLT!ContainedPath(XSLT!ResolveDep(v, r)) /\ Read(src, p, v, r) =>
                    /\ XSLT!ResolveDep(v, r) \in XSLT!CollectTransitiveDeps(src, p)
                    /\ r.kind = "document" \/ XSLT!ResolveDep(v, r) \in V
           Seen(p) == CHOOSE V : Closed(V, p)
           Found(x, p) == /\ \/ x.path = p \/ x.path \in XSLT!CollectTransitiveDeps(src, p)
                             \/ x.path \in XSLT!Assets(XSLT!CollectTransitiveDeps(src, p))
                          /\ x.as # "data" => x.path \in Seen(p)
                          /\ x.as = "sheet" => x.path = p \/ x.path \in Sheets(src)
           U == start \cup UNION {step(x) : x \in D}
           S == {x \in U : x.path \in src.files => \E p \in row.sheets : Found(x, p)}
<1>1. XSLTOpens(row) = {x.path : x \in Reached(start, next)} \cup row.docs
  BY DEF XSLTOpens
<1>2. \A p : Closed(Seen(p), p)
  <2> SUFFICES ASSUME NEW p PROVE \E V : Closed(V, p)
    OBVIOUS
  <2> QED BY DepsClosed
<1> HIDE DEF Seen
<1>3. start \subseteq S
  <2> SUFFICES ASSUME NEW p \in row.sheets PROVE [path |-> p, as |-> "sheet"] \in S
    OBVIOUS
  <2> DEFINE x == [path |-> p, as |-> "sheet"]
  <2>1. x.path = p /\ x.as = "sheet" /\ p \in Seen(p)
    BY <1>2
  <2>2. Found(x, p)
    BY <2>1
  <2>3. x \in U
    OBVIOUS
  <2> HIDE DEF x, U, Found
  <2>4. x \in S
    BY <2>2, <2>3
  <2> QED BY <2>4 DEF x
<1>4. ASSUME NEW x \in S \cap D, NEW r \in read(x) PROVE Request(x, r) \in S
  <2> DEFINE y == Request(x, r)
             q == XSLT!ResolveDep(x.path, r)
  <2>1. /\ y.path = q \/ (r.to \in DOMAIN XSLT!Bare /\ y.path \in XSLT!Assets({q}))
        /\ XSLT!ContainedPath(y.path) => XSLT!ContainedPath(q)
        /\ y.as = IF r.kind = "document" \/ r.to \in DOMAIN XSLT!Bare THEN "data" ELSE XSLT!As(r.kind)
    BY WithoutFragment
  <2>2. r \in ToSet(XSLT!Refs(src, x.path)) /\ x.path \in src.files /\ r.kind \in XSLT!Kinds
    BY RefsAre
  <2>3. y \in U
    <3>1. y \in step(x)
      OBVIOUS
    <3> HIDE DEF y, step
    <3> QED BY <3>1
  <2>4. ASSUME y.path \in src.files PROVE \E p \in row.sheets : Found(y, p)
    <3>1. PICK p \in row.sheets : Found(x, p)
      BY <2>2
    <3>2. x.as # "data" /\ (x.as = "sheet" \/ r.kind = "location")
      OBVIOUS
    <3>3. x.path \in Seen(p) /\ Read(src, p, x.path, r)
      BY <3>1, <3>2 DEF Read
    <3>c. XSLT!ContainedPath(q)
      <4> HIDE DEF y, q
      <4> QED BY <2>1, <2>4, OneKind
    <3>4. q \in XSLT!CollectTransitiveDeps(src, p) /\ (r.kind = "document" \/ q \in Seen(p))
      BY <1>2, <2>2, <3>c, <3>3
    <3>5. y.as # "data" => r.kind # "document" /\ y.path = q
      <4> HIDE DEF y, q
      <4> QED BY <2>1
    <3>6. y.as = "sheet" => q \in Sheets(src)
      <4> SUFFICES ASSUME y.as = "sheet" PROVE q \in Sheets(src)
        OBVIOUS
      <4>1. r.kind = "href"
        <5> HIDE DEF y, q
        <5> QED BY <2>1 DEF XSLT!As
      <4> QED BY <2>2, <4>1 DEF Sheets, Leads
    <3> HIDE DEF y, q
    <3>7. XSLT!Assets({q}) \subseteq XSLT!Assets(XSLT!CollectTransitiveDeps(src, p))
      BY <3>4 DEF XSLT!Assets
    <3>8. Found(y, p)
      BY <2>1, <3>4, <3>5, <3>6, <3>7
    <3> QED BY <3>8
  <2> HIDE DEF y, q, U, Found
  <2>5. y \in S
    BY <2>3, <2>4
  <2> QED BY <2>5 DEF y
<1>5. \A x \in S \cap DOMAIN next : next[x] \subseteq S
  <2> HIDE DEF S, Request, read, D
  <2> QED BY <1>4
<1>6. Reached(start, next) \subseteq S
  <2>1. DOMAIN next = D
    OBVIOUS
  <2>2. IsFiniteSet(D)
    BY RequestsFinite
  <2> HIDE DEF S, next, D, start
  <2> QED BY <1>3, <1>5, <2>1, <2>2, ReachedWithin
<1> DEFINE deps == XSLT!WithDeps(src, row.sheets)
<1>7. ASSUME NEW x \in S, x.path \in src.files PROVE x.path \in deps \cup XSLT!Assets(deps)
  <2>1. PICK p \in row.sheets : Found(x, p)
    BY <1>7
  <2>2. {p} \cup XSLT!CollectTransitiveDeps(src, p) \subseteq deps
    BY DEF XSLT!WithDeps
  <2>3. XSLT!Assets(XSLT!CollectTransitiveDeps(src, p)) \subseteq XSLT!Assets(deps)
    BY <2>2 DEF XSLT!Assets
  <2> HIDE DEF deps
  <2> QED BY <2>1, <2>2, <2>3
<1> HIDE DEF S, start, next
<1> QED BY <1>1, <1>6, <1>7

\* A fetched tree of xslt30 has what its cases open.
LEMMA XSLTFinds ==
  ASSUME CopiedInv, SourceInv, IsXSLT, cmd = "fetch", pc = "done", NEW row \in ToSet(rows)
  PROVE  XSLTOpens(row) \cap Copyable \subseteq testdata
<1>1. /\ XSLT!IsCheckout(src) /\ IsFiniteSet(src.files) /\ IsFiniteSet(Overlay)
      /\ CollectTests = XSLT!CollectTests(src)
  BY TheCheckout
<1>2. Rebuilt /\ ~IsQT3 /\ Copyable = src.files \cup Overlay
  BY DEF Rebuilt, Copyable, IsQT3, IsXSLT
<1>3. IsFiniteSet(Copyable)
  BY <1>1, <1>2, FS_Union
<1>4. /\ rows = XSLT!CollectTests(src).rows /\ files = XSLT!CollectTests(src).files /\ XSLT!CollectTests(src).ok
      /\ There \subseteq testdata /\ Overlay \subseteq testdata
  BY <1>1, <1>2 DEF CopiedInv
<1>5. \E ts \in ToSet(src.sets) : \E tc \in ToSet(ts.cases) :
        /\ \E gated : row = XSLT!Row(XSLT!GeneratedTest(ts, tc, gated))
        /\ XSLT!CaseFiles(src, ts, tc) \subseteq XSLT!CollectTests(src).files
  BY <1>1, <1>4, XSLTRowIs
<1>6. PICK ts \in ToSet(src.sets) : \E tc \in ToSet(ts.cases) :
        /\ \E gated : row = XSLT!Row(XSLT!GeneratedTest(ts, tc, gated))
        /\ XSLT!CaseFiles(src, ts, tc) \subseteq XSLT!CollectTests(src).files
  BY <1>5
<1>7. PICK tc \in ToSet(ts.cases) :
        /\ \E gated : row = XSLT!Row(XSLT!GeneratedTest(ts, tc, gated))
        /\ XSLT!CaseFiles(src, ts, tc) \subseteq XSLT!CollectTests(src).files
  BY <1>6
<1>8. PICK gated : row = XSLT!Row(XSLT!GeneratedTest(ts, tc, gated))
  BY <1>7
<1> DEFINE dir == ts.path[1]
           env == XSLT!ResolveEnvironment(tc, ts.envs)
           sheets == XSLT!StylesheetPath(dir, tc.test, env) \cup XSLT!SecondaryStylesheets(dir, tc.test, env)
                       \cup XSLT!PackageDeps(dir, tc.test, env)
           more == XSLT!ToSet(XSLT!CatalogRelPaths(dir, tc.test.packages))
           docs == XSLT!SourceDocPath(dir, env) \cup XSLT!ToSet(XSLT!CatalogRelPaths(dir, env.collections \o env.schemas))
<1>9. row.sheets = sheets /\ row.docs = docs
  BY <1>8 DEF XSLT!Row, XSLT!GeneratedTest
<1>10. XSLT!WithDeps(src, sheets \cup more) \cup XSLT!EnvDocs(dir, env) \subseteq XSLT!CaseFiles(src, ts, tc)
  BY DEF XSLT!CaseFiles
<1>11. docs \subseteq XSLT!EnvDocs(dir, env)
  <2>1. IsList(env.sources) /\ IsList(env.schemas) /\ IsList(env.collections)
    BY <1>1, XSLTEnvIs
  <2> HIDE DEF env, dir
  <2> QED BY <2>1, XSLTDocsWanted
<1>12. XSLT!WithDeps(src, sheets) \subseteq XSLT!WithDeps(src, sheets \cup more)
  <2> HIDE DEF sheets, more
  <2> QED BY DEF XSLT!WithDeps
<1> DEFINE deps == XSLT!WithDeps(src, row.sheets)
<1>13. XSLTOpens(row) \cap src.files \subseteq deps \cup XSLT!Assets(deps) \cup row.docs
  BY <1>1, <1>2, <1>3, XSLTOpensDeps
<1> HIDE DEF sheets, more, docs, env, dir
<1>14. XSLTOpens(row) \cap src.files \subseteq files \cup Wanted
  <2>1. deps \cup row.docs \subseteq files
    BY <1>4, <1>7, <1>9, <1>10, <1>11, <1>12
  <2>2. XSLT!Assets(deps) \subseteq Wanted
    BY <1>2, <2>1 DEF XSLT!Assets, Wanted
  <2> HIDE DEF deps
  <2> QED BY <1>13, <2>1, <2>2
<1>15. (files \cup Wanted) \cap src.files \subseteq There
  <2> SUFFICES ASSUME NEW q \in (files \cup Wanted) \cap src.files PROVE q \in There
    OBVIOUS
  <2>1. XSLT!Available(src, q)
    BY <1>1 DEF XSLT!IsCheckout
  <2>2. q \in Wanted
    <3>1. ASSUME q \in files PROVE <<q[1], XSLT!NormalizeAssetPath(q[2])>> = q
      <4>1. XSLT!NormalizeAssetPath(q[2]) = q[2]
        BY <1>1, OneKind DEF XSLT!NormalizeAssetPath
      <4>2. q = <<q[1], q[2]>>
        BY <1>1 DEF XSLT!IsCheckout
      <4> QED BY <4>1, <4>2
    <3> QED BY <1>2, <3>1 DEF Wanted, XSLT!Assets
  <2> QED BY <1>2, <2>1, <2>2 DEF There
<1> QED BY <1>2, <1>4, <1>14, <1>15

-------------------------------------------------------------------------------
(* All four *)

\* What a fetch has copied is enough for the cases of its suite.
LEMMA CopiedSuffices == CopiedInv /\ SourceInv => RunnableCasesFindFiles
<1> SUFFICES ASSUME CopiedInv, SourceInv, cmd = "fetch", pc = "done", NEW row \in Runnable
             PROVE  Opens(row) \cap Copyable \subseteq testdata
  BY DEF RunnableCasesFindFiles
<1>1. row \in ToSet(rows) \/ (IsXSTS /\ row \in ToSet(XSTS!BuildXSD10Cases(src, src.files)))
  BY DEF Runnable
<1>2. IsQT3 => ~IsXSLT /\ ~IsXSTS /\ ~IsXML
  BY DEF IsQT3, IsXSLT, IsXSTS, IsXML
<1>3. IsXSLT => ~IsQT3 /\ ~IsXSTS /\ ~IsXML
  BY DEF IsQT3, IsXSLT, IsXSTS, IsXML
<1>4. IsXSTS => ~IsQT3 /\ ~IsXSLT /\ ~IsXML
  BY DEF IsQT3, IsXSLT, IsXSTS, IsXML
<1>5. IsXML => ~IsQT3 /\ ~IsXSLT /\ ~IsXSTS
  BY DEF IsQT3, IsXSLT, IsXSTS, IsXML
<1>6. IsQT3 \/ IsXSLT \/ IsXSTS \/ IsXML
  BY CheckoutAssumption DEF SourceInv, IsQT3, IsXSLT, IsXSTS, IsXML
<1>7. CASE IsQT3
  <2>1. Opens(row) = QT3Opens(row)
    BY <1>2, <1>7 DEF Opens
  <2> QED BY <1>1, <1>2, <1>7, <2>1, QT3Finds
<1>8. CASE IsXSLT
  <2>1. Opens(row) = XSLTOpens(row)
    BY <1>3, <1>8 DEF Opens
  <2> QED BY <1>1, <1>3, <1>8, <2>1, XSLTFinds
<1>9. CASE IsXSTS
  <2>1. Opens(row) = XSTS!Opens(src, row)
    BY <1>4, <1>9 DEF Opens
  <2>2. Copyable = src.files
    BY <1>4, <1>9 DEF Copyable, Rebuilt
  <2> QED BY <1>1, <1>9, <2>1, <2>2, XSTSFinds
<1>10. CASE IsXML
  <2>1. Opens(row) = XML!Opens(src, row)
    BY <1>5, <1>10 DEF Opens
  <2>2. Copyable = src.files
    BY <1>5, <1>10 DEF Copyable, Rebuilt
  <2> QED BY <1>1, <1>5, <1>10, <2>1, <2>2, XMLFinds
<1> QED BY <1>6, <1>7, <1>8, <1>9, <1>10

\* A tree fetched to its end holds what its cases open, for every checkout of
\* each of the four suites: the walk that makes the rows, the one that collects
\* files, and the searches through schemas, stylesheets and entities agree with
\* what the harnesses and helium open (collectTests of qt3 and xslt30,
\* readCases and PopulateFixtures of xsd11 and xml).  Of a file that an import, an
\* include or a schema location of xslt30 names with a fragment, it is the file
\* itself that is there, not what that refers to.
THEOREM RunnableCasesAlwaysFindFiles == Spec => []RunnableCasesFindFiles
<1>1. CopiedInv /\ SourceInv /\ [Next]_vars => CopiedInv' /\ SourceInv'
  BY CopiedStep
<1> QED BY <1>1, CopiedInit, CopiedSuffices, PTL DEF Spec

-------------------------------------------------------------------------------
(* What an assertion of qt3 is worth *)

QT3Children == [a \in QT3Assertion |-> a.children]

\* Assertions are trees.
LEMMA QT3Trees ==
  /\ IsTree(QT3Assertion, QT3Children)
  /\ \A a \in QT3Assertion : a.children \subseteq QT3Assertion /\ QT3Children[a] = a.children
<1>1. IsTree(QT3Assertion, QT3Children)
  BY AssertionAssumption DEF QT3Children
<1> QED BY <1>1 DEF IsTree, QT3Children

\* One step of AssertionIsReal, given what it says of the children.
RealOf(f, a) ==
  LET real == {c \in a.children : f[c]} IN
  CASE a.type \in QT3!Unchecked -> FALSE
    [] a.type = "all-of" -> real # {}
    [] a.type = "any-of" -> /\ \E c \in a.children : ~QT3!IsError(c)
                            /\ \A c \in a.children : QT3!IsError(c) \/ c \in real
    [] OTHER -> TRUE

\* Whether an assertion is real follows from whether its children are.
LEMMA QT3Real == \A a \in QT3Assertion : QT3!AssertionIsReal[a] = RealOf(QT3!AssertionIsReal, a)
<1> DEFINE A == QT3Assertion
           F == [g \in [A -> BOOLEAN] |-> [a \in A |-> RealOf(g, a)]]
           Rec(f) == [a \in A |-> RealOf(f, a)]
<1>1. ASSUME NEW g, NEW a PROVE RealOf(g, a) \in BOOLEAN
  BY DEF RealOf
<1>2. F \in [[A -> BOOLEAN] -> [A -> BOOLEAN]]
  <2> HIDE DEF A
  <2> QED BY <1>1
<1>3. ASSUME NEW g \in [A -> BOOLEAN], NEW h \in [A -> BOOLEAN], NEW a \in A,
             \A c \in QT3Children[a] : g[c] = h[c]
      PROVE  F[g][a] = F[h][a]
  <2>1. \A c \in a.children : g[c] = h[c]
    BY <1>3, QT3Trees
  <2>2. RealOf(g, a) = RealOf(h, a)
    BY <2>1 DEF RealOf
  <2> QED BY <2>2
<1>4. PICK f \in [A -> BOOLEAN] : f = F[f]
  <2> HIDE DEF F
  <2>1. \A g, h \in [A -> BOOLEAN] : \A a \in A :
          (\A c \in QT3Children[a] : g[c] = h[c]) => F[g][a] = F[h][a]
    BY <1>3
  <2>2. FromChildren(A, QT3Children, BOOLEAN, F)
    BY <1>2, <2>1, QT3Trees DEF FromChildren
  <2> QED BY <2>2, TreeRec
<1>5. QT3!AssertionIsReal = CHOOSE g : g = Rec(g)
  BY DEF QT3!AssertionIsReal, RealOf
<1>6. f = Rec(f)
  BY <1>4
<1> HIDE DEF Rec
<1>7. QT3!AssertionIsReal = Rec(QT3!AssertionIsReal)
  BY <1>5, <1>6
<1> QED BY <1>7 DEF Rec

\* One step of EmitAssertion.
EmitOf(f, a) ==
  LET all == UNION {f[c] : c \in a.children} IN
  CASE QT3!IsError(a) -> {}
    [] a.type \in QT3!Unchecked -> {QT3!Skip}
    [] a.type = "all-of" -> all
    [] a.type = "any-of" -> QT3!EmitAnyOf(a)
    [] OTHER -> {QT3!Check("is", a.what, {})}

\* What is emitted for an assertion follows from what is emitted for its children.
LEMMA QT3Emit == \A a \in QT3Assertion : QT3!EmitAssertion[a] = EmitOf(QT3!EmitAssertion, a)
<1> DEFINE A == QT3Assertion
           C == {QT3!Skip} \cup {QT3!Check("is", a.what, {}) : a \in A} \cup UNION {QT3!EmitAnyOf(a) : a \in A}
           V == SUBSET C
           F == [g \in [A -> V] |-> [a \in A |-> EmitOf(g, a)]]
           Rec(f) == [a \in A |-> EmitOf(f, a)]
<1>1. ASSUME NEW g \in [A -> V], NEW a \in A PROVE EmitOf(g, a) \in V
  <2>1. \A c \in a.children : g[c] \subseteq C
    BY QT3Trees
  <2>2. /\ QT3!Skip \in C /\ QT3!Check("is", a.what, {}) \in C /\ QT3!EmitAnyOf(a) \subseteq C
    OBVIOUS
  <2> HIDE DEF C
  <2> QED BY <2>1, <2>2 DEF EmitOf
<1> HIDE DEF V
<1>2. F \in [[A -> V] -> [A -> V]]
  <2> HIDE DEF A
  <2> QED BY <1>1
<1>3. ASSUME NEW g \in [A -> V], NEW h \in [A -> V], NEW a \in A,
             \A c \in QT3Children[a] : g[c] = h[c]
      PROVE  F[g][a] = F[h][a]
  <2>1. \A c \in a.children : g[c] = h[c]
    BY <1>3, QT3Trees
  <2>3. UNION {g[c] : c \in a.children} = UNION {h[c] : c \in a.children}
    BY <2>1
  <2>2. EmitOf(g, a) = EmitOf(h, a)
    BY <2>3 DEF EmitOf
  <2> QED BY <2>2
<1>4. PICK f \in [A -> V] : f = F[f]
  <2> HIDE DEF F
  <2>1. \A g, h \in [A -> V] : \A a \in A :
          (\A c \in QT3Children[a] : g[c] = h[c]) => F[g][a] = F[h][a]
    BY <1>3
  <2>2. FromChildren(A, QT3Children, V, F)
    BY <1>2, <2>1, QT3Trees DEF FromChildren, V
  <2> QED BY <2>2, TreeRec
<1>5. QT3!EmitAssertion = CHOOSE g : g = Rec(g)
  BY DEF QT3!EmitAssertion, EmitOf
<1>6. f = Rec(f)
  BY <1>4
<1> HIDE DEF Rec
<1>7. QT3!EmitAssertion = Rec(QT3!EmitAssertion)
  BY <1>5, <1>6
<1> QED BY <1>7 DEF Rec

\* What is within an assertion is itself and what is within its children.
LEMMA QT3Within ==
  \A a \in QT3Assertion : QT3!Within[a] = {a} \cup UNION {QT3!Within[c] : c \in a.children}
<1> DEFINE A == QT3Assertion
           V == SUBSET A
           W(f, a) == {a} \cup UNION {f[c] : c \in a.children}
           F == [g \in [A -> V] |-> [a \in A |-> W(g, a)]]
           Rec(f) == [a \in A |-> {a} \cup UNION {f[c] : c \in a.children}]
<1>1. ASSUME NEW g \in [A -> V], NEW a \in A PROVE W(g, a) \in V
  <2>1. \A c \in a.children : g[c] \subseteq A
    BY QT3Trees
  <2> QED BY <2>1
<1>2. F \in [[A -> V] -> [A -> V]]
  <2> HIDE DEF A, V, W
  <2> QED BY <1>1
<1>3. ASSUME NEW g \in [A -> V], NEW h \in [A -> V], NEW a \in A,
             \A c \in QT3Children[a] : g[c] = h[c]
      PROVE  F[g][a] = F[h][a]
  <2>1. \A c \in a.children : g[c] = h[c]
    BY <1>3, QT3Trees
  <2>2. W(g, a) = W(h, a)
    BY <2>1
  <2> HIDE DEF W
  <2> QED BY <2>2
<1>4. PICK f \in [A -> V] : f = F[f]
  <2> HIDE DEF F, V
  <2>1. \A g, h \in [A -> V] : \A a \in A :
          (\A c \in QT3Children[a] : g[c] = h[c]) => F[g][a] = F[h][a]
    BY <1>3
  <2>2. FromChildren(A, QT3Children, V, F)
    BY <1>2, <2>1, QT3Trees DEF FromChildren, V
  <2> QED BY <2>2, TreeRec
<1>5. QT3!Within = CHOOSE g : g = Rec(g)
  BY DEF QT3!Within
<1>6. f = Rec(f)
  BY <1>4
<1> HIDE DEF Rec
<1>7. QT3!Within = Rec(QT3!Within)
  BY <1>5, <1>6
<1> QED BY <1>7 DEF Rec

\* One step of Accepts.
AcceptsOf(f, a, o) ==
  LET accepted == {c \in a.children : f[c]} IN
  CASE QT3!IsError(a) -> o.error # ""
    [] a.type = "all-of" -> accepted = a.children
    [] a.type = "any-of" -> accepted # {}
    [] OTHER -> o.error = "" /\ a.what \in o.holds

\* Whether an assertion accepts an outcome follows from whether its children do.
LEMMA QT3Accepts ==
  ASSUME NEW o
  PROVE  \E f \in [QT3Assertion -> BOOLEAN] :
           \A a \in QT3Assertion : f[a] = AcceptsOf(f, a, o) /\ QT3!Accepts({a}, o) = f[a]
<1> DEFINE A == QT3Assertion
           F == [g \in [A -> BOOLEAN] |-> [a \in A |-> AcceptsOf(g, a, o)]]
           Rec(f) == [a \in A |-> AcceptsOf(f, a, o)]
           accepts == CHOOSE g : g = Rec(g)
<1>1. ASSUME NEW g, NEW a PROVE AcceptsOf(g, a, o) \in BOOLEAN
  BY DEF AcceptsOf
<1>2. F \in [[A -> BOOLEAN] -> [A -> BOOLEAN]]
  <2> HIDE DEF A
  <2> QED BY <1>1
<1>3. ASSUME NEW g \in [A -> BOOLEAN], NEW h \in [A -> BOOLEAN], NEW a \in A,
             \A c \in QT3Children[a] : g[c] = h[c]
      PROVE  F[g][a] = F[h][a]
  <2>1. \A c \in a.children : g[c] = h[c]
    BY <1>3, QT3Trees
  <2>2. AcceptsOf(g, a, o) = AcceptsOf(h, a, o)
    BY <2>1 DEF AcceptsOf
  <2> QED BY <2>2
<1>4. PICK f \in [A -> BOOLEAN] : f = F[f]
  <2> HIDE DEF F
  <2>1. \A g, h \in [A -> BOOLEAN] : \A a \in A :
          (\A c \in QT3Children[a] : g[c] = h[c]) => F[g][a] = F[h][a]
    BY <1>3
  <2>2. FromChildren(A, QT3Children, BOOLEAN, F)
    BY <1>2, <2>1, QT3Trees DEF FromChildren
  <2> QED BY <2>2, TreeRec
<1>5. \A as : QT3!Accepts(as, o) = \A a \in as : accepts[a]
  BY DEF QT3!Accepts, AcceptsOf
<1>6. f = Rec(f)
  BY <1>4
<1> HIDE DEF Rec
<1>7. accepts = Rec(accepts)
  BY <1>6
<1>8. accepts \in [A -> BOOLEAN]
  <2> HIDE DEF accepts
  <2> QED BY <1>1, <1>7 DEF Rec
<1> HIDE DEF accepts
<1>9. ASSUME NEW a \in A PROVE QT3!Accepts({a}, o) = accepts[a]
  <2>1. QT3!Accepts({a}, o) = \A b \in {a} : accepts[b]
    BY <1>5, Zenon
  <2>2. accepts[a] \in BOOLEAN
    BY <1>8
  <2>3. (\A b \in {a} : accepts[b]) = accepts[a]
    BY <2>2
  <2> QED BY <2>1, <2>3
<1> QED BY <1>7, <1>8, <1>9 DEF Rec

-------------------------------------------------------------------------------
(* False-pass risks of qt3 *)

\* Below an any-of, only what is composite or unchecked is not real, and that is
\* emitted as a check which cannot fail.
LEMMA UnrealHolds ==
  ASSUME NEW o
  PROVE  \A a \in QT3Assertion : ~QT3!AssertionIsReal[a] => \A k \in QT3!EmitAssertion[a] : QT3!Holds(k, o)
<1> DEFINE P == {a \in QT3Assertion : ~QT3!AssertionIsReal[a] => \A k \in QT3!EmitAssertion[a] : QT3!Holds(k, o)}
<1>1. ASSUME NEW a \in QT3Assertion, QT3Children[a] \subseteq P, ~QT3!AssertionIsReal[a],
             NEW k \in QT3!EmitAssertion[a]
      PROVE  QT3!Holds(k, o)
  <2>0. a.children \subseteq QT3Assertion /\ a.children \subseteq P
    BY <1>1, QT3Trees
  <2>1. ~RealOf(QT3!AssertionIsReal, a) /\ k \in EmitOf(QT3!EmitAssertion, a)
    BY <1>1, QT3Real, QT3Emit
  <2>2. CASE a.type \in QT3!Unchecked
    <3>1. ~QT3!IsError(a)
      BY <2>2 DEF QT3!Unchecked, QT3!IsError
    <3>2. k = QT3!Skip
      BY <2>1, <2>2, <3>1 DEF EmitOf, QT3!Unchecked
    <3> QED BY <3>2 DEF QT3!Holds, QT3!Skip, QT3!Check
  <2>3. CASE a.type = "all-of"
    <3>1. \A c \in a.children : ~QT3!AssertionIsReal[c]
      BY <2>1, <2>3 DEF RealOf, QT3!Unchecked
    <3>2. PICK c \in a.children : k \in QT3!EmitAssertion[c]
      BY <2>1, <2>3 DEF EmitOf, QT3!Unchecked, QT3!IsError
    <3> QED BY <2>0, <3>1, <3>2
  <2>4. CASE a.type = "any-of"
    <3>1. k \in QT3!EmitAnyOf(a)
      BY <2>1, <2>4 DEF EmitOf, QT3!Unchecked, QT3!IsError
    <3> DEFINE checks == {QT3!EmitCheck(c) : c \in {d \in a.children : ~QT3!IsError(d)}}
    <3>2. k = QT3!Check("anyOf", "", checks) /\ checks # {}
      BY <3>1 DEF QT3!EmitAnyOf
    <3>3. PICK c \in a.children : ~QT3!IsError(c) /\ ~QT3!AssertionIsReal[c]
      BY <2>1, <2>4, <3>2 DEF RealOf, QT3!Unchecked
    <3>4. c.type \in QT3!Composite \cup QT3!Unchecked
      <4>1. ~RealOf(QT3!AssertionIsReal, c)
        BY <2>0, <3>3, QT3Real
      <4> QED BY <4>1 DEF RealOf, QT3!Composite
    <3>5. QT3!EmitCheck(c) = QT3!Skip
      BY <3>4 DEF QT3!EmitCheck
    <3>6. QT3!Skip \in checks
      BY <3>3, <3>5
    <3>7. k.kind = "anyOf" /\ k.checks = checks /\ QT3!Skip.kind = "skip"
      BY <3>2 DEF QT3!Check, QT3!Skip
    <3> HIDE DEF checks
    <3> QED BY <3>6, <3>7 DEF QT3!Holds
  <2>5. CASE a.type \notin QT3!Unchecked /\ a.type # "all-of" /\ a.type # "any-of"
    BY <2>1, <2>5 DEF RealOf
  <2> QED BY <2>2, <2>3, <2>4, <2>5
<1>2. \A a \in QT3Assertion : QT3Children[a] \subseteq P => a \in P
  BY <1>1
<1>3. QT3Assertion \subseteq P
  <2> HIDE DEF P
  <2> QED BY <1>2, QT3Trees, TreeInd
<1> QED BY <1>3

-------------------------------------------------------------------------------
(* Verdicts *)

\* The tables are empty or those of the checkout, and what is judged last is one of
\* their rows, by what the harness of its suite makes of it.
JudgedQT3 ==
  LET row == rows[verdict.row] IN
  /\ verdict.setUp \in {"ready", "fatal", "skip"}
  /\ "xfail" \in verdict.listed => row.skip = "" /\ "skip" \notin verdict.listed
  /\ verdict.status = QT3!RunCase(row, verdict.listed, verdict.setUp, verdict.outcome)
JudgedXSLT ==
  LET row == rows[verdict.row] IN
  /\ row.skip = "" /\ verdict.listed = {} /\ verdict.setUp = "ready"
  /\ verdict.status = IF XSLT!Passes(row, verdict.outcome) THEN "pass" ELSE "fail"
JudgedInv ==
  /\ rows \in {<<>>, CollectTests.rows}
  /\ verdict = NoVerdict
     \/ /\ pc = "done" /\ verdict.row \in DOMAIN rows /\ verdict.outcome \in Outcomes
        /\ (IsQT3 /\ JudgedQT3) \/ (IsXSLT /\ JudgedXSLT)

\* A verdict is what a harness makes of a row and of what the suite accepts.
LEMMA JudgedRow ==
  ASSUME Judge
  PROVE  /\ verdict'.row \in DOMAIN rows' /\ verdict'.outcome \in Outcomes
         /\ (IsQT3' /\ JudgedQT3') \/ (IsXSLT' /\ JudgedXSLT')
<1>0. UNCHANGED <<src, rows>>
  BY DEF Judge
<1>1. CASE JudgeXSLT
  <2> DEFINE status(i, o) == IF XSLT!Passes(rows[i], o) THEN "pass" ELSE "fail"
  <2>1. PICK i \in DOMAIN rows, o \in Outcomes :
          /\ rows[i].skip = ""
          /\ verdict' = [row |-> i, outcome |-> o, listed |-> {}, setUp |-> "ready", status |-> status(i, o)]
    BY <1>1 DEF JudgeXSLT
  <2>2. /\ verdict'.row = i /\ verdict'.outcome = o /\ verdict'.listed = {} /\ verdict'.setUp = "ready"
        /\ verdict'.status = status(i, o)
    <3> HIDE DEF status
    <3> QED BY <2>1
  <2>3. IsXSLT'
    BY <1>0, <1>1 DEF JudgeXSLT, IsXSLT
  <2> QED BY <1>0, <2>1, <2>2, <2>3 DEF JudgedXSLT
<1>2. CASE JudgeQT3
  <2> DEFINE listed(i, e) == {l \in {"skip", "xfail"} : rows[i].name \in e[l]}
  <2>1. PICK e \in Listings, i \in DOMAIN rows, o \in Outcomes : \E u \in QT3!SetUps(rows[i]) :
          verdict' = [row |-> i, outcome |-> o, listed |-> listed(i, e), setUp |-> u,
                      status |-> QT3!RunCase(rows[i], listed(i, e), u, o)]
    BY <1>2 DEF JudgeQT3
  <2>2. PICK u \in {"ready", "fatal", "skip"} :
          verdict' = [row |-> i, outcome |-> o, listed |-> listed(i, e), setUp |-> u,
                      status |-> QT3!RunCase(rows[i], listed(i, e), u, o)]
    BY <2>1 DEF QT3!SetUps
  <2>3. /\ verdict'.row = i /\ verdict'.outcome = o /\ verdict'.listed = listed(i, e) /\ verdict'.setUp = u
        /\ verdict'.status = QT3!RunCase(rows[i], listed(i, e), u, o)
    <3> HIDE DEF listed
    <3> QED BY <2>2
  <2>4. ASSUME "xfail" \in listed(i, e) PROVE rows[i].skip = "" /\ "skip" \notin listed(i, e)
    <3>1. QT3!ValidExpectations(e, rows)
      BY DEF Listings
    <3>2. rows[i].name \in e.xfail
      BY <2>4
    <3>3. rows[i] \in QT3!Named(rows, rows[i].name)
      BY DEF QT3!Named, QT3!ToSet
    <3> QED BY <3>1, <3>2, <3>3 DEF QT3!ValidExpectations
  <2>5. IsQT3'
    BY <1>0, <1>2 DEF JudgeQT3, IsQT3
  <2> HIDE DEF listed
  <2> QED BY <1>0, <2>2, <2>3, <2>4, <2>5 DEF JudgedQT3
<1> QED BY <1>1, <1>2 DEF Judge

\* Nothing is judged at the start ...
LEMMA JudgedInit == Init => JudgedInv
BY DEF Init, JudgedInv

\* ... and only what is in the tables later.
LEMMA JudgedStep == ASSUME JudgedInv, JudgedLast, [Next]_vars PROVE JudgedInv' /\ JudgedLast'
<1>1. src' = src
  BY DEF Next, vars, RemoveAll, WriteManifest, Tabulate, Collect, CopyFiles, PopulateFixtures, CopyOverlay, Judge
<1>2. CollectTests' = CollectTests
  BY <1>1 DEF CollectTests, IsQT3, IsXSLT, IsXSTS, IsXML
<1>3. CASE Judge
  <2>1. UNCHANGED <<src, pc, rows>> /\ pc = "done"
    BY <1>3 DEF Judge
  <2> QED BY <1>2, <1>3, <2>1, JudgedRow DEF JudgedInv, JudgedLast
<1>4. CASE RemoveAll \/ WriteManifest \/ Tabulate \/ Collect \/ CopyFiles \/ PopulateFixtures \/ CopyOverlay
  <2>1. pc # "done" /\ verdict' = verdict /\ rows' \in {rows, CollectTests.rows}
    BY <1>4 DEF RemoveAll, WriteManifest, Tabulate, Collect, CopyFiles, PopulateFixtures, CopyOverlay
  <2>2. verdict = NoVerdict
    BY <2>1 DEF JudgedLast
  <2> QED BY <1>2, <2>1, <2>2 DEF JudgedInv, JudgedLast
<1>5. CASE UNCHANGED vars
  <2>1. UNCHANGED <<src, pc, rows, verdict>>
    BY <1>5 DEF vars
  <2> QED BY <1>2, <2>1 DEF JudgedInv, JudgedLast, JudgedQT3, JudgedXSLT, IsQT3, IsXSLT
<1> QED BY <1>3, <1>4, <1>5 DEF Next

\* The case of qt3 a verdict is about.
LEMMA QT3Judged ==
  ASSUME SourceInv, JudgedInv, IsQT3, verdict # NoVerdict
  PROVE  \E ts, tc : /\ tc.result \subseteq QT3Assertion
                     /\ rows[verdict.row] = QT3!Row(QT3!GeneratedTest(src, ts, tc))
<1>1. QT3!IsCheckout(src) /\ CollectTests = QT3!CollectTests(src)
  BY TheCheckout
<1> DEFINE row == rows[verdict.row]
<1>2. verdict.row \in DOMAIN rows /\ row \in ToSet(rows)
  BY DEF JudgedInv, ToSet
<1>3. rows # <<>>
  BY <1>2
<1>4. rows = QT3!CollectTests(src).rows
  BY <1>1, <1>3 DEF JudgedInv
<1>5. QT3!CollectTests(src).ok
  BY <1>3, <1>4 DEF QT3!CollectTests
<1> HIDE DEF row
<1>6. PICK ts \in ToSet(src.sets) : \E tc \in ToSet(ts.cases) : row = QT3!Row(QT3!GeneratedTest(src, ts, tc))
  BY <1>1, <1>2, <1>4, <1>5, QT3RowIs
<1>7. PICK tc \in ToSet(ts.cases) : row = QT3!Row(QT3!GeneratedTest(src, ts, tc))
  BY <1>6
<1>8. tc.result \subseteq QT3Assertion
  BY <1>1, SameHelpers DEF QT3!IsCheckout
<1> QED BY <1>7, <1>8 DEF row

\* The case of a row that is marked.
LEMMA MarkedCase ==
  ASSUME SourceInv, JudgedInv, IsQT3, verdict # NoVerdict, rows[verdict.row].falsePassRisk
  PROVE  LET row == rows[verdict.row] IN
         /\ row.skip = "" /\ ~row.expectError
         /\ \E as \in SUBSET QT3Assertion : row.checks = QT3!EmitAssertions(as) /\ ~QT3!HasRealAssertion(as)
<1> DEFINE row == rows[verdict.row]
<1>1. PICK ts, tc : tc.result \subseteq QT3Assertion /\ row = QT3!Row(QT3!GeneratedTest(src, ts, tc))
  BY QT3Judged
<1> HIDE DEF row
<1> DEFINE gt == QT3!GeneratedTest(src, ts, tc)
           as == tc.result
<1>2. gt.assertions = as /\ gt.falsePassRisk = QT3!IsFalsePassRisk(gt.skip, as)
  BY DEF QT3!GeneratedTest
<1> HIDE DEF gt, as
<1>3. row = QT3!Row(gt)
  BY <1>1 DEF gt
<1>4. /\ row.skip = gt.skip /\ row.falsePassRisk = gt.falsePassRisk
      /\ row.expectError = QT3!AssertionsExpectError(gt.assertions)
      /\ row.checks = IF QT3!AssertionsExpectError(gt.assertions) THEN {} ELSE QT3!EmitAssertions(gt.assertions)
  BY <1>3 DEF QT3!Row
<1>5. QT3!IsFalsePassRisk(gt.skip, as)
  BY <1>2, <1>4 DEF row
<1>6. gt.skip = "" /\ ~QT3!AssertionsExpectError(as) /\ ~QT3!HasRealAssertion(as)
  BY <1>5 DEF QT3!IsFalsePassRisk
<1>7. row.checks = QT3!EmitAssertions(as)
  BY <1>2, <1>4, <1>6
<1>8. as \subseteq QT3Assertion
  BY <1>1 DEF as
<1>9. row.skip = "" /\ ~row.expectError
  BY <1>2, <1>4, <1>6
<1> QED BY <1>6, <1>7, <1>8, <1>9 DEF row

\* A case with a mark passes.
LEMMA MarkedPasses == ASSUME SourceInv, JudgedInv PROVE RiskMeansCannotFail
<1> DEFINE row == rows[verdict.row]
           o == verdict.outcome
<1>1. ASSUME IsQT3, verdict.setUp = "ready", verdict.listed = {}, o.error = "", row.falsePassRisk
      PROVE  verdict.status = "pass"
  <2>0. NoVerdict.setUp = "none"
    BY DEF NoVerdict
  <2>1. verdict # NoVerdict
    BY <1>1, <2>0
  <2>2. verdict.status = QT3!RunCase(row, {}, "ready", o)
    BY <1>1, <2>1 DEF JudgedInv, JudgedQT3, IsQT3, IsXSLT
  <2>3. /\ row.skip = "" /\ ~row.expectError
        /\ \E as \in SUBSET QT3Assertion : row.checks = QT3!EmitAssertions(as) /\ ~QT3!HasRealAssertion(as)
    BY <1>1, <2>1, MarkedCase
  <2> HIDE DEF row, o
  <2>4. PICK as \in SUBSET QT3Assertion : row.checks = QT3!EmitAssertions(as) /\ ~QT3!HasRealAssertion(as)
    BY <2>3
  <2>5. ASSUME NEW k \in row.checks PROVE QT3!Holds(k, o)
    <3>1. k \in QT3!EmitAssertions(as)
      BY <2>4, <2>5
    <3>2. \E a \in as : k \in QT3!EmitAssertion[a]
      BY <3>1 DEF QT3!EmitAssertions
    <3>3. PICK a \in as : k \in QT3!EmitAssertion[a]
      BY <3>2
    <3>4. a \in QT3Assertion /\ ~QT3!AssertionIsReal[a]
      BY <2>4 DEF QT3!HasRealAssertion
    <3> QED BY <3>3, <3>4, UnrealHolds
  <2>6. QT3!Passes(row, o)
    BY <1>1, <2>3, <2>5 DEF QT3!Passes
  <2> QED BY <2>2, <2>3, <2>6 DEF QT3!RunCase
<1> QED BY <1>1 DEF RiskMeansCannotFail

\* The mark of a false-pass risk is never a false alarm: a case of qt3 that has it
\* passes whatever result it gets, in whatever depth its assertions are nested.
THEOREM RisksCannotFail == Spec => []RiskMeansCannotFail
<1>1. Init => SourceInv /\ JudgedInv /\ JudgedLast
  BY JudgedInit, CopiedInit, InitialTypes DEF IInv
<1>2. SourceInv /\ JudgedInv /\ JudgedLast /\ [Next]_vars => (SourceInv /\ JudgedInv /\ JudgedLast)'
  <2>1. SourceInv /\ [Next]_vars => SourceInv'
    BY DEF SourceInv, Next, vars, RemoveAll, WriteManifest, Tabulate, Collect, CopyFiles, PopulateFixtures, CopyOverlay, Judge
  <2> QED BY <2>1, JudgedStep
<1>3. SourceInv /\ JudgedInv /\ JudgedLast => RiskMeansCannotFail
  BY MarkedPasses
<1> QED BY <1>1, <1>2, <1>3, PTL DEF Spec

-------------------------------------------------------------------------------
(* A row of qt3 follows its catalog *)

\* Induction over assertions of qt3.
LEMMA QT3Ind ==
  ASSUME NEW P, \A a \in QT3Assertion : QT3Children[a] \subseteq P => a \in P
  PROVE  QT3Assertion \subseteq P
BY QT3Trees, TreeInd

\* Something within an assertion is within what holds it.
LEMMA QT3Inside ==
  ASSUME NEW a \in QT3Assertion
  PROVE  /\ a \in QT3!Within[a]
         /\ \A c \in a.children : c \in QT3!Within[a] /\ QT3!Within[c] \subseteq QT3!Within[a]
<1>1. QT3!Within[a] = {a} \cup UNION {QT3!Within[c] : c \in a.children}
  BY QT3Within
<1>2. ASSUME NEW c \in a.children PROVE c \in QT3!Within[c]
  <2>1. c \in QT3Assertion
    BY QT3Trees
  <2>2. QT3!Within[c] = {c} \cup UNION {QT3!Within[d] : d \in c.children}
    BY <2>1, QT3Within
  <2> QED BY <2>2
<1> QED BY <1>1, <1>2

\* f says of each assertion whether it accepts o.
QT3Reads(f, o) == \A a \in QT3Assertion : f[a] = AcceptsOf(f, a, o)

\* An error is accepted only where the result names one, if no all-of is empty.
LEMMA QT3ErrorNamed ==
  ASSUME NEW o, o.error # "", NEW f, QT3Reads(f, o)
  PROVE  \A a \in QT3Assertion :
           (\A b \in QT3!Within[a] : b.type = "all-of" => b.children # {}) /\ f[a]
             => \E b \in QT3!Within[a] : QT3!IsError(b)
<1> DEFINE Full(a) == \A b \in QT3!Within[a] : b.type = "all-of" => b.children # {}
           Named(a) == \E b \in QT3!Within[a] : QT3!IsError(b)
           P == {a \in QT3Assertion : Full(a) /\ f[a] => Named(a)}
<1>1. ASSUME NEW a \in QT3Assertion, QT3Children[a] \subseteq P, Full(a), f[a]
      PROVE  Named(a)
  <2>0. a.children \subseteq QT3Assertion /\ a.children \subseteq P /\ AcceptsOf(f, a, o)
    BY <1>1, QT3Trees DEF QT3Reads
  <2>1. /\ a \in QT3!Within[a]
        /\ \A c \in a.children : c \in QT3!Within[a] /\ QT3!Within[c] \subseteq QT3!Within[a]
    BY QT3Inside
  <2>2. ASSUME NEW c \in a.children, f[c] PROVE Named(a)
    <3>1. Full(c)
      BY <1>1, <2>1, <2>2
    <3>2. Named(c)
      BY <2>0, <2>2, <3>1
    <3> QED BY <2>1, <2>2, <3>2
  <2>3. CASE QT3!IsError(a)
    BY <2>1, <2>3
  <2>4. CASE a.type = "all-of"
    <3>1. a.children # {}
      BY <1>1, <2>1, <2>4
    <3>2. \A c \in a.children : f[c]
      BY <2>0, <2>4 DEF AcceptsOf, QT3!IsError
    <3> HIDE DEF Named
    <3> QED BY <2>2, <3>1, <3>2
  <2>5. CASE a.type = "any-of"
    <3>1. \E c \in a.children : f[c]
      BY <2>0, <2>5 DEF AcceptsOf, QT3!IsError
    <3> HIDE DEF Named
    <3> QED BY <2>2, <3>1
  <2>6. CASE ~QT3!IsError(a) /\ a.type # "all-of" /\ a.type # "any-of"
    BY <2>0, <2>6 DEF AcceptsOf
  <2> QED BY <2>3, <2>4, <2>5, <2>6
<1>2. \A a \in QT3Assertion : QT3Children[a] \subseteq P => a \in P
  <2> HIDE DEF Full, Named
  <2> QED BY <1>1
<1>3. QT3Assertion \subseteq P
  <2> HIDE DEF P
  <2> QED BY <1>2, QT3Ind
<1> QED BY <1>3

\* What is emitted for an assertion holds of every result it accepts.
LEMMA QT3ChecksFair ==
  ASSUME NEW o, o.error = "", NEW f, QT3Reads(f, o)
  PROVE  \A a \in QT3Assertion : f[a] => \A k \in QT3!EmitAssertion[a] : QT3!Holds(k, o)
<1> DEFINE P == {a \in QT3Assertion : f[a] => \A k \in QT3!EmitAssertion[a] : QT3!Holds(k, o)}
<1>1. ASSUME NEW a \in QT3Assertion, QT3Children[a] \subseteq P, f[a], NEW k \in QT3!EmitAssertion[a]
      PROVE  QT3!Holds(k, o)
  <2>0. a.children \subseteq QT3Assertion /\ a.children \subseteq P
    BY <1>1, QT3Trees
  <2>1. AcceptsOf(f, a, o) /\ k \in EmitOf(QT3!EmitAssertion, a)
    BY <1>1, QT3Emit DEF QT3Reads
  <2>2. CASE QT3!IsError(a)
    BY <2>1, <2>2 DEF AcceptsOf, QT3!IsError
  <2>3. CASE a.type \in QT3!Unchecked
    <3>1. ~QT3!IsError(a)
      BY <2>3 DEF QT3!Unchecked, QT3!IsError
    <3>2. k = QT3!Skip
      BY <2>1, <2>3, <3>1 DEF EmitOf, QT3!Unchecked
    <3> QED BY <3>2 DEF QT3!Holds, QT3!Skip, QT3!Check
  <2>4. CASE a.type = "all-of"
    <3>1. \A c \in a.children : f[c]
      BY <2>1, <2>4 DEF AcceptsOf, QT3!IsError
    <3>2. PICK c \in a.children : k \in QT3!EmitAssertion[c]
      BY <2>1, <2>4 DEF EmitOf, QT3!Unchecked, QT3!IsError
    <3> QED BY <2>0, <3>1, <3>2
  <2>5. CASE a.type = "any-of"
    <3>1. k \in QT3!EmitAnyOf(a)
      BY <2>1, <2>5 DEF EmitOf, QT3!Unchecked, QT3!IsError
    <3> DEFINE checks == {QT3!EmitCheck(c) : c \in {d \in a.children : ~QT3!IsError(d)}}
    <3>2. k = QT3!Check("anyOf", "", checks)
      BY <3>1 DEF QT3!EmitAnyOf
    <3>3. PICK c \in a.children : f[c]
      BY <2>1, <2>5 DEF AcceptsOf, QT3!IsError
    <3>4. AcceptsOf(f, c, o)
      BY <2>0, <3>3 DEF QT3Reads
    <3>5. ~QT3!IsError(c)
      BY <3>4 DEF AcceptsOf, QT3!IsError
    <3>6. QT3!EmitCheck(c) \in checks
      BY <3>3, <3>5
    <3>7. QT3!EmitCheck(c).kind = "skip" \/ QT3!EmitCheck(c).what \in o.holds
      <4>1. CASE c.type \in QT3!Composite \cup QT3!Unchecked
        BY <4>1 DEF QT3!EmitCheck, QT3!Skip, QT3!Check
      <4>2. CASE c.type \notin QT3!Composite \cup QT3!Unchecked
        <5>1. c.what \in o.holds
          BY <3>4, <3>5, <4>2 DEF AcceptsOf, QT3!Composite
        <5> QED BY <4>2, <5>1 DEF QT3!EmitCheck, QT3!Check
      <4> QED BY <4>1, <4>2
    <3>8. k.kind = "anyOf" /\ k.checks = checks
      BY <3>2 DEF QT3!Check
    <3> HIDE DEF checks
    <3> QED BY <3>6, <3>7, <3>8 DEF QT3!Holds
  <2>6. CASE ~QT3!IsError(a) /\ a.type \notin QT3!Unchecked /\ a.type # "all-of" /\ a.type # "any-of"
    <3>1. k = QT3!Check("is", a.what, {}) /\ a.what \in o.holds
      BY <2>1, <2>6 DEF EmitOf, AcceptsOf
    <3> QED BY <3>1 DEF QT3!Holds, QT3!Check
  <2> QED BY <2>2, <2>3, <2>4, <2>5, <2>6
<1>2. \A a \in QT3Assertion : QT3Children[a] \subseteq P => a \in P
  BY <1>1
<1>3. QT3Assertion \subseteq P
  <2> HIDE DEF P
  <2> QED BY <1>2, QT3Ind
<1> QED BY <1>3

\* The shapes StrictOn of qt3 names.
QT3Strict(b) ==
  /\ b.type \notin QT3!Unchecked
  /\ b.type \in QT3!Composite => b.children # {}
  /\ b.type = "all-of" => QT3!Errors(b) = {}
  /\ b.type = "any-of" => \A c \in b.children : c.type \notin QT3!Composite \cup QT3!Unchecked
OnlyErrors(a) == QT3!IsError(a) \/ (a.type = "any-of" /\ \A c \in a.children : QT3!IsError(c))

\* In these shapes a result for which every check holds is accepted, unless
\* there is nothing to be accepted but errors.
LEMMA QT3ChecksStrict ==
  ASSUME NEW o, o.error = "", NEW f, QT3Reads(f, o)
  PROVE  \A a \in QT3Assertion :
           /\ \A b \in QT3!Within[a] : QT3Strict(b)
           /\ ~OnlyErrors(a)
           /\ \A k \in QT3!EmitAssertion[a] : QT3!Holds(k, o)
           => f[a]
<1> DEFINE Strict(a) == \A b \in QT3!Within[a] : QT3Strict(b)
           Hold(a) == \A k \in QT3!EmitAssertion[a] : QT3!Holds(k, o)
           P == {a \in QT3Assertion : Strict(a) /\ ~OnlyErrors(a) /\ Hold(a) => f[a]}
<1>1. ASSUME NEW a \in QT3Assertion, QT3Children[a] \subseteq P, Strict(a), ~OnlyErrors(a), Hold(a)
      PROVE  f[a]
  <2>0. a.children \subseteq QT3Assertion /\ a.children \subseteq P /\ f[a] = AcceptsOf(f, a, o)
        /\ QT3!EmitAssertion[a] = EmitOf(QT3!EmitAssertion, a)
    BY <1>1, QT3Trees, QT3Emit DEF QT3Reads
  <2>1. /\ a \in QT3!Within[a]
        /\ \A c \in a.children : c \in QT3!Within[a] /\ QT3!Within[c] \subseteq QT3!Within[a]
    BY QT3Inside
  <2>2. QT3Strict(a) /\ ~QT3!IsError(a)
    BY <1>1, <2>1 DEF OnlyErrors
  <2>3. CASE a.type = "all-of"
    <3>1. \A b \in QT3!Within[a] : ~QT3!IsError(b)
      BY <2>2, <2>3 DEF QT3Strict, QT3!Errors
    <3>2. ASSUME NEW c \in a.children PROVE f[c]
      <4>1. Strict(c)
        BY <1>1, <2>1
      <4>2. ~OnlyErrors(c)
        <5>1. ~QT3!IsError(c)
          BY <2>1, <3>1
        <5>2. ASSUME c.type = "any-of" PROVE \E d \in c.children : ~QT3!IsError(d)
          <6>1. QT3Strict(c)
            BY <1>1, <2>1
          <6>2. PICK d \in c.children : TRUE
            BY <5>2, <6>1 DEF QT3Strict, QT3!Composite
          <6>3. d \in QT3!Within[c]
            BY <2>0, QT3Inside
          <6> QED BY <2>1, <3>1, <6>3
        <5> QED BY <5>1, <5>2 DEF OnlyErrors
      <4>3. Hold(c)
        <5>1. QT3!EmitAssertion[a] = UNION {QT3!EmitAssertion[d] : d \in a.children}
          BY <2>0, <2>3 DEF EmitOf, QT3!IsError, QT3!Unchecked
        <5> QED BY <1>1, <5>1
      <4> HIDE DEF Strict, Hold
      <4> QED BY <2>0, <4>1, <4>2, <4>3
    <3> QED BY <2>0, <2>3, <3>2 DEF AcceptsOf, QT3!IsError
  <2>4. CASE a.type = "any-of"
    <3> DEFINE checks == {QT3!EmitCheck(c) : c \in {d \in a.children : ~QT3!IsError(d)}}
               k == QT3!Check("anyOf", "", checks)
    <3>1. checks # {}
      BY <1>1, <2>4 DEF OnlyErrors
    <3>2. k \in QT3!EmitAssertion[a]
      <4>1. k \in QT3!EmitAnyOf(a)
        BY <3>1 DEF QT3!EmitAnyOf
      <4> QED BY <2>0, <2>4, <4>1 DEF EmitOf, QT3!IsError, QT3!Unchecked
    <3>3. QT3!Holds(k, o)
      <4> HIDE DEF k
      <4> QED BY <1>1, <3>2
    <3>4. \E e \in checks : e.kind = "skip" \/ e.what \in o.holds
      <4>1. k.kind = "anyOf" /\ k.checks = checks
        BY DEF QT3!Check
      <4> HIDE DEF k, checks
      <4> QED BY <3>3, <4>1 DEF QT3!Holds
    <3>5. PICK c \in {d \in a.children : ~QT3!IsError(d)} :
            QT3!EmitCheck(c).kind = "skip" \/ QT3!EmitCheck(c).what \in o.holds
      BY <3>4
    <3>6. c.type \notin QT3!Composite \cup QT3!Unchecked
      BY <2>2, <2>4 DEF QT3Strict
    <3>7. c.what \in o.holds
      BY <3>5, <3>6 DEF QT3!EmitCheck, QT3!Check
    <3>8. f[c]
      <4>1. f[c] = AcceptsOf(f, c, o)
        BY <2>0, <3>5 DEF QT3Reads
      <4> QED BY <3>5, <3>6, <3>7, <4>1 DEF AcceptsOf, QT3!Composite
    <3> QED BY <2>0, <2>4, <3>5, <3>8 DEF AcceptsOf, QT3!IsError
  <2>5. CASE a.type # "all-of" /\ a.type # "any-of"
    <3> DEFINE k == QT3!Check("is", a.what, {})
    <3>1. k \in QT3!EmitAssertion[a]
      BY <2>0, <2>2, <2>5 DEF EmitOf, QT3Strict
    <3>2. QT3!Holds(k, o)
      <4> HIDE DEF k
      <4> QED BY <1>1, <3>1
    <3>3. a.what \in o.holds
      BY <3>2 DEF QT3!Holds, QT3!Check
    <3> QED BY <2>0, <2>2, <2>5, <3>3 DEF AcceptsOf
  <2> QED BY <2>3, <2>4, <2>5
<1>2. \A a \in QT3Assertion : QT3Children[a] \subseteq P => a \in P
  <2> HIDE DEF Strict, Hold
  <2> QED BY <1>1
<1>3. QT3Assertion \subseteq P
  <2> HIDE DEF P
  <2> QED BY <1>2, QT3Ind
<1> QED BY <1>3

\* A row of qt3 follows its catalog.
LEMMA QT3Follows ==
  ASSUME NEW as \in SUBSET QT3Assertion, NEW row, NEW o,
         row.assertions = as,
         row.expectError = QT3!AssertionsExpectError(as),
         row.acceptError = (~row.expectError /\ QT3!AssertionsAcceptError(as)),
         row.checks = IF row.expectError THEN {} ELSE QT3!EmitAssertions(as)
  PROVE  /\ QT3!Passes(row, o) \/ QT3!FairTo(row, o)
         /\ QT3!Passes(row, o) => QT3!StrictOn(row, o)
<1>1. PICK f \in [QT3Assertion -> BOOLEAN] :
           \A a \in QT3Assertion : f[a] = AcceptsOf(f, a, o) /\ QT3!Accepts({a}, o) = f[a]
  BY QT3Accepts
<1>r. QT3Reads(f, o)
  BY <1>1 DEF QT3Reads
<1>2. ASSUME NEW a \in as, as = {a}
      PROVE  /\ a \in QT3Assertion /\ a.children \subseteq QT3Assertion
             /\ row.expectError = OnlyErrors(a)
             /\ ~row.expectError => row.checks = QT3!EmitAssertion[a]
             /\ row.acceptError = (/\ ~row.expectError /\ a.type = "any-of"
                                   /\ \E c \in a.children : QT3!IsError(c))
  <2>1. a \in QT3Assertion /\ a.children \subseteq QT3Assertion
    BY QT3Trees
  <2>2. row.expectError = OnlyErrors(a)
    BY <1>2 DEF QT3!AssertionsExpectError, OnlyErrors
  <2>3. ~row.expectError => row.checks = QT3!EmitAssertion[a]
    BY <1>2 DEF QT3!EmitAssertions
  <2>4. QT3!AssertionsAcceptError(as) =
          (/\ a.type = "any-of" /\ \E c \in a.children : QT3!IsError(c)
           /\ \E c \in a.children : ~QT3!IsError(c))
    BY <1>2 DEF QT3!AssertionsAcceptError
  <2> QED BY <2>1, <2>2, <2>3, <2>4 DEF OnlyErrors
<1>3. ASSUME NEW a \in as, as = {a}, f[a],
             \A b \in QT3!Within[a] :
               /\ b.type = "all-of" => b.children # {}
               /\ QT3!IsError(b) => b = a \/ (a.type = "any-of" /\ b \in a.children)
      PROVE  QT3!Passes(row, o)
  <2>1. CASE o.error # ""
    <3>1. PICK b \in QT3!Within[a] : QT3!IsError(b)
      BY <1>r, <1>2, <1>3, <2>1, QT3ErrorNamed
    <3>2. OnlyErrors(a) \/ (a.type = "any-of" /\ \E c \in a.children : QT3!IsError(c))
      BY <1>3, <3>1 DEF OnlyErrors
    <3> QED BY <1>2, <1>3, <2>1, <3>2 DEF QT3!Passes
  <2>2. CASE o.error = ""
    <3>1. AcceptsOf(f, a, o)
      BY <1>1, <1>2, <1>3
    <3>2. ~OnlyErrors(a)
      <4>1. ~QT3!IsError(a)
        BY <2>2, <3>1 DEF AcceptsOf, QT3!IsError
      <4>2. ASSUME a.type = "any-of" PROVE \E c \in a.children : ~QT3!IsError(c)
        <5>1. PICK c \in a.children : f[c]
          BY <3>1, <4>1, <4>2 DEF AcceptsOf
        <5>2. AcceptsOf(f, c, o)
          BY <1>1, <1>2, <1>3, <5>1
        <5> QED BY <2>2, <5>2 DEF AcceptsOf, QT3!IsError
      <4> QED BY <4>1, <4>2 DEF OnlyErrors
    <3>3. \A k \in QT3!EmitAssertion[a] : QT3!Holds(k, o)
      BY <1>r, <1>2, <1>3, <2>2, QT3ChecksFair
    <3> QED BY <1>2, <1>3, <2>2, <3>2, <3>3 DEF QT3!Passes
  <2> QED BY <2>1, <2>2
<1>4. ASSUME NEW a \in as, as = {a}, QT3!Passes(row, o), \A b \in QT3!Within[a] : QT3Strict(b)
      PROVE  f[a]
  <2>1. a \in QT3!Within[a]
    BY <1>2, <1>4, QT3Inside
  <2>2. f[a] = AcceptsOf(f, a, o) /\ \A c \in a.children : f[c] = AcceptsOf(f, c, o)
    BY <1>1, <1>2, <1>4
  <2>3. CASE o.error # ""
    <3>1. row.expectError \/ row.acceptError
      BY <1>4, <2>3 DEF QT3!Passes
    <3>2. CASE QT3!IsError(a)
      BY <2>2, <2>3, <3>2 DEF AcceptsOf, QT3!IsError
    <3>3. CASE ~QT3!IsError(a)
      <4>1. a.type = "any-of" /\ \E c \in a.children : QT3!IsError(c)
        <5>1. a.type = "any-of" => a.children # {}
          BY <1>4, <2>1 DEF QT3Strict, QT3!Composite
        <5> QED BY <1>2, <1>4, <3>1, <3>3, <5>1 DEF OnlyErrors
      <4>2. PICK c \in a.children : QT3!IsError(c)
        BY <4>1
      <4>3. f[c]
        BY <2>2, <2>3, <4>2 DEF AcceptsOf, QT3!IsError
      <4> QED BY <2>2, <3>3, <4>1, <4>2, <4>3 DEF AcceptsOf
    <3> QED BY <3>2, <3>3
  <2>4. CASE o.error = ""
    <3>1. ~row.expectError /\ \A k \in row.checks : QT3!Holds(k, o)
      BY <1>4, <2>4 DEF QT3!Passes
    <3> QED BY <1>r, <1>2, <1>4, <2>4, <3>1, QT3ChecksStrict
  <2> QED BY <2>3, <2>4
<1>5. ASSUME ~QT3!FairTo(row, o) PROVE QT3!Passes(row, o)
  <2>1. PICK a \in as :
          /\ \A b \in QT3!Within[a] :
               /\ b.type = "all-of" => b.children # {}
               /\ QT3!IsError(b) => b = a \/ (a.type = "any-of" /\ b \in a.children)
          /\ QT3!Accepts({a}, o) /\ as = {a}
    BY <1>5 DEF QT3!FairTo
  <2>2. f[a]
    BY <1>1, <2>1
  <2> QED BY <1>3, <2>1, <2>2
<1>6. ASSUME QT3!Passes(row, o) PROVE QT3!StrictOn(row, o)
  <2>1. ASSUME NEW a \in as, as = {a}, \A b \in QT3!Within[a] : QT3Strict(b)
        PROVE  QT3!Accepts({a}, o)
    BY <1>1, <1>4, <1>6, <2>1
  <2> QED BY <2>1 DEF QT3!StrictOn, QT3Strict
<1> QED BY <1>5, <1>6

-------------------------------------------------------------------------------
(* What an assertion of xslt30 is emitted as *)

XSLTChildren == [a \in XSLTAssertion |-> ToSet(a.children)]

\* Assertions are trees, and list their children.
LEMMA XSLTTrees ==
  /\ IsTree(XSLTAssertion, XSLTChildren)
  /\ \A a \in XSLTAssertion : /\ IsList(a.children) /\ ToSet(a.children) \subseteq XSLTAssertion
                              /\ XSLTChildren[a] = ToSet(a.children)
<1>1. IsTree(XSLTAssertion, XSLTChildren)
  BY AssertionAssumption DEF XSLTChildren
<1> QED BY <1>1, AssertionAssumption DEF IsTree, XSLTChildren

\* Induction over assertions of xslt30.
LEMMA XSLTInd ==
  ASSUME NEW P, \A a \in XSLTAssertion : ToSet(a.children) \subseteq P => a \in P
  PROVE  XSLTAssertion \subseteq P
<1>1. \A a \in XSLTAssertion : XSLTChildren[a] \subseteq P => a \in P
  BY XSLTTrees
<1> QED BY <1>1, XSLTTrees, TreeInd

\* The places of a list and what is in it.
LEMMA Places ==
  ASSUME NEW s, IsList(s)
  PROVE  /\ Len(s) \in Nat /\ DOMAIN s = 1..Len(s) /\ \A i \in DOMAIN s : s[i] \in ToSet(s)
         /\ \A x \in ToSet(s) : \E i \in DOMAIN s : s[i] = x
         /\ s = <<>> <=> ToSet(s) = {}
<1>1. Len(s) \in Nat /\ DOMAIN s = 1..Len(s) /\ (s = <<>> <=> Len(s) = 0)
  <2> DEFINE T == ToSet(s)
  <2>1. s \in Seq(T)
    BY DEF IsList
  <2> HIDE DEF T
  <2> QED BY <2>1
<1>2. ToSet(s) = {s[i] : i \in DOMAIN s}
  BY DEF ToSet
<1>3. DOMAIN s = {} <=> Len(s) = 0
  BY <1>1
<1> QED BY <1>1, <1>2, <1>3

Mapped(f, s) == [i \in DOMAIN s |-> f[s[i]]]

\* A list mapped through f.
LEMMA MapOf ==
  ASSUME NEW s, IsList(s), NEW f, NEW T, \A x \in ToSet(s) : f[x] \in T
  PROVE  /\ Mapped(f, s) \in Seq(T) /\ IsList(Mapped(f, s))
         /\ ToSet(Mapped(f, s)) = {f[x] : x \in ToSet(s)}
         /\ Mapped(f, s) = <<>> <=> s = <<>>
<1> DEFINE m == [i \in DOMAIN s |-> f[s[i]]]
<1>1. /\ Len(s) \in Nat /\ DOMAIN s = 1..Len(s) /\ \A i \in DOMAIN s : s[i] \in ToSet(s)
      /\ \A x \in ToSet(s) : \E i \in DOMAIN s : s[i] = x
      /\ s = <<>> <=> ToSet(s) = {}
  BY Places
<1>2. ToSet(m) = {f[x] : x \in ToSet(s)}
  <2>1. ToSet(m) = {f[s[i]] : i \in DOMAIN s}
    BY DEF ToSet
  <2> QED BY <1>1, <2>1
<1>3. m \in [1..Len(s) -> T] /\ m \in [1..Len(s) -> ToSet(m)]
  <2>1. \A i \in DOMAIN s : m[i] \in ToSet(m)
    BY DEF ToSet
  <2>2. m \in [1..Len(s) -> T]
    BY <1>1
  <2>3. DOMAIN m = 1..Len(s)
    BY <1>1
  <2> HIDE DEF m
  <2> QED BY <1>1, <2>1, <2>2, <2>3
<1> HIDE DEF m
<1>4. m \in Seq(T) /\ m \in Seq(ToSet(m))
  BY <1>1, <1>3, ListOf
<1>5. IsList(m)
  BY <1>4 DEF IsList
<1>6. m = <<>> <=> ToSet(m) = {}
  BY <1>5, Places
<1>7. m = <<>> <=> s = <<>>
  <2>1. ToSet(m) = {} <=> ToSet(s) = {}
    BY <1>2
  <2> QED BY <1>1, <1>6, <2>1
<1>8. Mapped(f, s) = m
  BY DEF Mapped, m
<1> QED BY <1>2, <1>4, <1>5, <1>7, <1>8

\* One step of EmitCheck.
CheckOf(f, a) ==
  LET checks == [i \in DOMAIN a.children |-> f[a.children[i]]] IN
  CASE XSLT!IsError(a) -> XSLT!Check("error", a.what, <<>>)
    [] a.type \in XSLT!Texts \cup XSLT!Raw -> XSLT!Check(a.type, a.what, <<>>)
    [] a.type \in {"all-of", "any-of"} -> XSLT!Check(a.type, "", checks)
    [] a.type \in {"assert-message", "not"} /\ checks # <<>> -> XSLT!Check(a.type, "", checks)
    [] OTHER -> XSLT!Skip

\* What a check is follows from what those of the children are.
LEMMA CheckFromChildren ==
  ASSUME NEW a \in XSLTAssertion, NEW f, NEW g, \A c \in ToSet(a.children) : f[c] = g[c]
  PROVE  CheckOf(f, a) = CheckOf(g, a)
<1>1. \A i \in DOMAIN a.children : f[a.children[i]] = g[a.children[i]]
  BY XSLTTrees, Places
<1>2. [i \in DOMAIN a.children |-> f[a.children[i]]] = [i \in DOMAIN a.children |-> g[a.children[i]]]
  BY <1>1
<1> QED BY <1>2 DEF CheckOf

\* Checks are as deep as assertions, so no set has them all: the function is put
\* together rank by rank.
LEMMA XSLTCheck == \A a \in XSLTAssertion : XSLT!EmitCheck[a] = CheckOf(XSLT!EmitCheck, a)
<1> DEFINE A == XSLTAssertion
           Rec(f) == [a \in A |-> CheckOf(f, a)]
<1>1. PICK rank \in [A -> Nat] :
           /\ \A a \in A : \A c \in XSLTChildren[a] : rank[c] < rank[a]
           /\ \E n \in Nat : \A a \in A : rank[a] < n
  BY XSLTTrees, TreeRank
<1>2. PICK top \in Nat : \A a \in A : rank[a] < top
  BY <1>1
<1> DEFINE Upto(n) == {a \in A : rank[a] < n}
           Done(g, n) == g = [a \in Upto(n) |-> CheckOf(g, a)]
           Able == {n \in Nat : \E g : Done(g, n)}
<1>3. 0 \in Able
  <2>1. Upto(0) = {}
    OBVIOUS
  <2> HIDE DEF Upto
  <2>2. Done([a \in {} |-> 0], 0)
    BY <2>1
  <2> QED BY <2>2
<1>4. ASSUME NEW n \in Able PROVE n + 1 \in Able
  <2>0. n \in Nat
    OBVIOUS
  <2>1. PICK g : Done(g, n)
    OBVIOUS
  <2> DEFINE h == [a \in Upto(n + 1) |-> CheckOf(g, a)]
  <2>2. \A a \in Upto(n) : a \in Upto(n + 1) /\ h[a] = g[a]
    <3>1. \A a \in Upto(n) : a \in Upto(n + 1)
      BY <2>0
    <3>2. \A a \in Upto(n) : g[a] = CheckOf(g, a)
      <4> HIDE DEF Upto
      <4> QED BY <2>1
    <3> HIDE DEF Upto
    <3> QED BY <3>1, <3>2
  <2>3. ASSUME NEW a \in Upto(n + 1) PROVE h[a] = CheckOf(h, a)
    <3>1. ASSUME NEW c \in ToSet(a.children) PROVE c \in Upto(n)
      <4>1. a \in A /\ c \in A /\ rank[c] < rank[a] /\ rank[a] < n + 1
        BY <1>1, <3>1, XSLTTrees
      <4>2. rank[c] \in Nat /\ rank[a] \in Nat
        BY <4>1
      <4>3. rank[c] < n
        BY <2>0, <4>1, <4>2
      <4> QED BY <4>1, <4>3
    <3>2. \A c \in ToSet(a.children) : g[c] = h[c]
      <4> HIDE DEF Upto, h
      <4> QED BY <2>2, <3>1
    <3>3. a \in A /\ h[a] = CheckOf(g, a)
      OBVIOUS
    <3> HIDE DEF h
    <3> QED BY <3>2, <3>3, CheckFromChildren
  <2>4. h = [a \in Upto(n + 1) |-> h[a]]
    OBVIOUS
  <2> HIDE DEF h, Upto
  <2>5. Done(h, n + 1)
    BY <2>3, <2>4
  <2> QED BY <2>0, <2>5
<1>5. Able = Nat
  <2> HIDE DEF Able
  <2>1. Able \in SUBSET Nat
    BY DEF Able
  <2> QED BY <1>3, <1>4, <2>1, NatInd
<1>6. PICK f : Done(f, top)
  BY <1>5
<1>7. Upto(top) = A
  BY <1>2
<1> HIDE DEF Upto
<1>8. f = Rec(f)
  BY <1>6, <1>7
<1>9. XSLT!EmitCheck = CHOOSE g : g = Rec(g)
  BY DEF XSLT!EmitCheck, CheckOf
<1> HIDE DEF Rec
<1>10. XSLT!EmitCheck = Rec(XSLT!EmitCheck)
  BY <1>8, <1>9
<1> QED BY <1>10 DEF Rec

\* What kind of check an assertion becomes where it is nested.
Nests == {"all-of", "any-of", "assert-message", "not"}
KindOf(a) ==
  CASE XSLT!IsError(a) -> "error"
    [] a.type \in XSLT!Texts \cup XSLT!Raw \cup {"all-of", "any-of"} -> a.type
    [] a.type \in {"assert-message", "not"} /\ a.children # <<>> -> a.type
    [] OTHER -> "skip"

\* The parts of a check.
LEMMA CheckIs ==
  ASSUME NEW a \in XSLTAssertion
  PROVE  LET c == XSLT!EmitCheck[a] IN
         /\ c.kind = KindOf(a)
         /\ a.type \in XSLT!Texts \cup XSLT!Raw => c.what = a.what
         /\ KindOf(a) \in Nests => ToSet(c.checks) = {XSLT!EmitCheck[b] : b \in ToSet(a.children)}
         /\ KindOf(a) \notin Nests => ToSet(c.checks) = {}
<1> DEFINE checks == [i \in DOMAIN a.children |-> XSLT!EmitCheck[a.children[i]]]
           c == XSLT!EmitCheck[a]
           E == {XSLT!EmitCheck[b] : b \in ToSet(a.children)}
<1>1. ToSet(checks) = E /\ (checks = <<>> <=> a.children = <<>>)
  <2>1. \A b \in ToSet(a.children) : XSLT!EmitCheck[b] \in E
    OBVIOUS
  <2> HIDE DEF E
  <2>2. IsList(a.children)
    BY XSLTTrees
  <2>3. checks = Mapped(XSLT!EmitCheck, a.children)
    BY DEF Mapped
  <2> HIDE DEF checks
  <2>4. ToSet(checks) = {XSLT!EmitCheck[x] : x \in ToSet(a.children)} /\ (checks = <<>> <=> a.children = <<>>)
    BY <2>1, <2>2, <2>3, MapOf
  <2> QED BY <2>4 DEF E
<1>2. c = CheckOf(XSLT!EmitCheck, a)
  BY XSLTCheck
<1> HIDE DEF checks, c, E
<1>3. c = CASE XSLT!IsError(a) -> XSLT!Check("error", a.what, <<>>)
            [] a.type \in XSLT!Texts \cup XSLT!Raw -> XSLT!Check(a.type, a.what, <<>>)
            [] a.type \in {"all-of", "any-of"} -> XSLT!Check(a.type, "", checks)
            [] a.type \in {"assert-message", "not"} /\ checks # <<>> -> XSLT!Check(a.type, "", checks)
            [] OTHER -> XSLT!Skip
  BY <1>2 DEF CheckOf, checks
<1>4. ToSet(<<>>) = {}
  BY DEF ToSet
<1>5. XSLT!Skip = XSLT!Check("skip", "", <<>>)
  BY DEF XSLT!Skip
<1>6. \A k, w, s : /\ XSLT!Check(k, w, s).kind = k /\ XSLT!Check(k, w, s).what = w
                   /\ XSLT!Check(k, w, s).checks = s
  BY DEF XSLT!Check
<1> DEFINE Good == /\ c.kind = KindOf(a)
                   /\ (a.type \in XSLT!Texts \cup XSLT!Raw => c.what = a.what)
                   /\ (KindOf(a) \in Nests => ToSet(c.checks) = E)
                   /\ (KindOf(a) \notin Nests => ToSet(c.checks) = {})
<1>7. ASSUME XSLT!IsError(a) PROVE Good
  <2>1. a.type \notin XSLT!Texts \cup XSLT!Raw \cup {"all-of", "any-of", "assert-message", "not"}
    BY <1>7 DEF XSLT!IsError, XSLT!Texts, XSLT!Raw, XSLT!Typed
  <2>2. c = XSLT!Check("error", a.what, <<>>) /\ KindOf(a) = "error"
    BY <1>3, <1>7, <2>1 DEF KindOf
  <2> QED BY <1>4, <1>6, <2>1, <2>2 DEF Nests
<1>8. ASSUME a.type \in XSLT!Texts \cup XSLT!Raw PROVE Good
  <2>1. a.type \notin {"all-of", "any-of", "assert-message", "not"} /\ ~XSLT!IsError(a)
    BY <1>8 DEF XSLT!IsError, XSLT!Texts, XSLT!Raw, XSLT!Typed
  <2>2. c = XSLT!Check(a.type, a.what, <<>>) /\ KindOf(a) = a.type
    BY <1>3, <1>8, <2>1 DEF KindOf
  <2> QED BY <1>4, <1>6, <2>1, <2>2 DEF Nests
<1>9. ASSUME a.type \in {"all-of", "any-of"} \/ (a.type \in {"assert-message", "not"} /\ a.children # <<>>)
      PROVE  Good
  <2>1. a.type \notin XSLT!Texts \cup XSLT!Raw /\ ~XSLT!IsError(a)
    BY <1>9 DEF XSLT!IsError, XSLT!Texts, XSLT!Raw, XSLT!Typed
  <2>2. c = XSLT!Check(a.type, "", checks) /\ KindOf(a) = a.type
    <3>1. CASE a.type \in {"all-of", "any-of"}
      BY <1>3, <2>1, <3>1 DEF KindOf
    <3>2. CASE a.type \in {"assert-message", "not"} /\ a.children # <<>>
      BY <1>1, <1>3, <2>1, <3>2 DEF KindOf
    <3> QED BY <1>9, <3>1, <3>2
  <2>3. KindOf(a) \in Nests
    BY <1>9, <2>2 DEF Nests
  <2>4. c.kind = KindOf(a) /\ ToSet(c.checks) = E
    <3>1. c.kind = a.type /\ c.checks = checks
      BY <2>2 DEF XSLT!Check
    <3> QED BY <1>1, <2>2, <3>1
  <2> QED BY <2>1, <2>3, <2>4
<1>10. ASSUME ~XSLT!IsError(a), a.type \notin XSLT!Texts \cup XSLT!Raw \cup {"all-of", "any-of"},
              ~(a.type \in {"assert-message", "not"} /\ a.children # <<>>)
       PROVE  Good
  <2>1. c = XSLT!Check("skip", "", <<>>) /\ KindOf(a) = "skip"
    BY <1>1, <1>3, <1>5, <1>10 DEF KindOf
  <2>2. c.kind = KindOf(a) /\ ToSet(c.checks) = {} /\ KindOf(a) \notin Nests
    <3>1. c.kind = "skip" /\ c.checks = <<>>
      BY <2>1 DEF XSLT!Check
    <3> QED BY <1>4, <2>1, <3>1 DEF Nests
  <2> QED BY <1>10, <2>2
<1>11. Good
  <2> HIDE DEF Good
  <2> QED BY <1>7, <1>8, <1>9, <1>10
<1> QED BY <1>11 DEF c, E

\* What is within an assertion is itself and what is within its children.
LEMMA XSLTWithin ==
  \A a \in XSLTAssertion : XSLT!Within[a] = {a} \cup UNION {XSLT!Within[c] : c \in ToSet(a.children)}
<1> DEFINE A == XSLTAssertion
           V == SUBSET A
           W(f, a) == {a} \cup UNION {f[c] : c \in ToSet(a.children)}
           F == [g \in [A -> V] |-> [a \in A |-> W(g, a)]]
           Rec(f) == [a \in A |-> {a} \cup UNION {f[c] : c \in ToSet(a.children)}]
<1>1. ASSUME NEW g \in [A -> V], NEW a \in A PROVE W(g, a) \in V
  <2>1. \A c \in ToSet(a.children) : g[c] \subseteq A
    BY XSLTTrees
  <2> QED BY <2>1
<1>2. F \in [[A -> V] -> [A -> V]]
  <2> HIDE DEF A, V, W
  <2> QED BY <1>1
<1>3. ASSUME NEW g \in [A -> V], NEW h \in [A -> V], NEW a \in A,
             \A c \in XSLTChildren[a] : g[c] = h[c]
      PROVE  F[g][a] = F[h][a]
  <2>1. \A c \in ToSet(a.children) : g[c] = h[c]
    BY <1>3, XSLTTrees
  <2>2. W(g, a) = W(h, a)
    BY <2>1
  <2> HIDE DEF W
  <2> QED BY <2>2
<1>4. PICK f \in [A -> V] : f = F[f]
  <2> HIDE DEF F, V
  <2>1. \A g, h \in [A -> V] : \A a \in A :
          (\A c \in XSLTChildren[a] : g[c] = h[c]) => F[g][a] = F[h][a]
    BY <1>3
  <2>2. FromChildren(A, XSLTChildren, V, F)
    BY <1>2, <2>1, XSLTTrees DEF FromChildren, V
  <2> QED BY <2>2, TreeRec
<1>5. XSLT!Within = CHOOSE g : g = Rec(g)
  BY DEF XSLT!Within, XSLT!ToSet, ToSet
<1>6. f = Rec(f)
  BY <1>4
<1> HIDE DEF Rec
<1>7. XSLT!Within = Rec(XSLT!Within)
  BY <1>5, <1>6
<1> QED BY <1>7 DEF Rec

\* Something within an assertion is within what holds it.
LEMMA XSLTInside ==
  ASSUME NEW a \in XSLTAssertion
  PROVE  /\ a \in XSLT!Within[a]
         /\ \A c \in ToSet(a.children) : c \in XSLT!Within[a] /\ XSLT!Within[c] \subseteq XSLT!Within[a]
<1>1. XSLT!Within[a] = {a} \cup UNION {XSLT!Within[c] : c \in ToSet(a.children)}
  BY XSLTWithin
<1>2. ASSUME NEW c \in ToSet(a.children) PROVE c \in XSLT!Within[c]
  <2>1. c \in XSLTAssertion
    BY XSLTTrees
  <2>2. XSLT!Within[c] = {c} \cup UNION {XSLT!Within[d] : d \in ToSet(c.children)}
    BY <2>1, XSLTWithin
  <2> QED BY <2>2
<1> QED BY <1>1, <1>2

\* The parts of an all-of are those of its children, another assertion is its
\* own part.
LEMMA XSLTParts ==
  \A a \in XSLTAssertion :
    XSLT!Parts[a] = IF a.type = "all-of" THEN UNION {XSLT!Parts[c] : c \in ToSet(a.children)} ELSE {a}
<1> DEFINE A == XSLTAssertion
           V == SUBSET A
           W(f, a) == IF a.type = "all-of" THEN UNION {f[c] : c \in ToSet(a.children)} ELSE {a}
           F == [g \in [A -> V] |-> [a \in A |-> W(g, a)]]
           Rec(f) == [a \in A |-> IF a.type = "all-of" THEN UNION {f[c] : c \in ToSet(a.children)} ELSE {a}]
<1>1. ASSUME NEW g \in [A -> V], NEW a \in A PROVE W(g, a) \in V
  <2>1. \A c \in ToSet(a.children) : g[c] \subseteq A
    BY XSLTTrees
  <2> QED BY <2>1
<1>2. F \in [[A -> V] -> [A -> V]]
  <2> HIDE DEF A, V, W
  <2> QED BY <1>1
<1>3. ASSUME NEW g \in [A -> V], NEW h \in [A -> V], NEW a \in A,
             \A c \in XSLTChildren[a] : g[c] = h[c]
      PROVE  F[g][a] = F[h][a]
  <2>1. \A c \in ToSet(a.children) : g[c] = h[c]
    BY <1>3, XSLTTrees
  <2>2. W(g, a) = W(h, a)
    BY <2>1
  <2> HIDE DEF W
  <2> QED BY <2>2
<1>4. PICK f \in [A -> V] : f = F[f]
  <2> HIDE DEF F, V
  <2>1. \A g, h \in [A -> V] : \A a \in A :
          (\A c \in XSLTChildren[a] : g[c] = h[c]) => F[g][a] = F[h][a]
    BY <1>3
  <2>2. FromChildren(A, XSLTChildren, V, F)
    BY <1>2, <2>1, XSLTTrees DEF FromChildren, V
  <2> QED BY <2>2, TreeRec
<1>5. XSLT!Parts = CHOOSE g : g = Rec(g)
  BY DEF XSLT!Parts, XSLT!ToSet, ToSet
<1>6. f = Rec(f)
  BY <1>4
<1> HIDE DEF Rec
<1>7. XSLT!Parts = Rec(XSLT!Parts)
  BY <1>5, <1>6
<1> QED BY <1>7 DEF Rec

\* A part is within the assertion with all that is in it, and is no all-of.
LEMMA PartsWithin ==
  \A a \in XSLTAssertion : \A b \in XSLT!Parts[a] :
    b \in XSLTAssertion /\ b \in XSLT!Within[a] /\ XSLT!Within[b] \subseteq XSLT!Within[a] /\ b.type # "all-of"
<1> DEFINE Good(b, a) ==
      b \in XSLTAssertion /\ b \in XSLT!Within[a] /\ XSLT!Within[b] \subseteq XSLT!Within[a] /\ b.type # "all-of"
           P == {a \in XSLTAssertion : \A b \in XSLT!Parts[a] : Good(b, a)}
<1>1. ASSUME NEW a \in XSLTAssertion, ToSet(a.children) \subseteq P PROVE a \in P
  <2>1. XSLT!Parts[a] = IF a.type = "all-of" THEN UNION {XSLT!Parts[c] : c \in ToSet(a.children)} ELSE {a}
    BY XSLTParts
  <2>2. /\ a \in XSLT!Within[a]
        /\ \A c \in ToSet(a.children) : c \in XSLT!Within[a] /\ XSLT!Within[c] \subseteq XSLT!Within[a]
    BY XSLTInside
  <2>3. ASSUME a.type = "all-of", NEW b \in XSLT!Parts[a] PROVE Good(b, a)
    <3>1. PICK c \in ToSet(a.children) : b \in XSLT!Parts[c]
      BY <2>1, <2>3
    <3>2. Good(b, c)
      BY <1>1, <3>1
    <3> QED BY <2>2, <3>2
  <2>4. CASE a.type # "all-of"
    BY <2>1, <2>2, <2>4
  <2> HIDE DEF Good
  <2> QED BY <2>3, <2>4
<1>2. XSLTAssertion \subseteq P
  <2> HIDE DEF P
  <2> QED BY <1>1, XSLTInd
<1> QED BY <1>2

-------------------------------------------------------------------------------
(* What is emitted for it at the top *)

\* A list of lists that a list is mapped to, one after the other.
LEMMA FlatOf ==
  ASSUME NEW s, IsList(s), NEW f, NEW T, \A x \in ToSet(s) : f[x] \in Seq(T)
  PROVE  /\ FlattenSeq(Mapped(f, s)) \in Seq(T)
         /\ ToSet(FlattenSeq(Mapped(f, s))) = UNION {ToSet(f[x]) : x \in ToSet(s)}
<1> DEFINE m == Mapped(f, s)
           TT == Seq(T)
<1>1. m \in Seq(TT) /\ IsList(m) /\ ToSet(m) = {f[x] : x \in ToSet(s)}
  <2> HIDE DEF TT
  <2>1. \A x \in ToSet(s) : f[x] \in TT
    BY DEF TT
  <2> QED BY <2>1, MapOf
<1> HIDE DEF m
<1>2. FlattenSeq(m) \in Seq(T) /\ ToSet(FlattenSeq(m)) = UNION {ToSet(m[i]) : i \in DOMAIN m}
  BY <1>1, FlattenIs
<1>3. {m[i] : i \in DOMAIN m} = {f[x] : x \in ToSet(s)}
  BY <1>1 DEF ToSet
<1>4. UNION {ToSet(m[i]) : i \in DOMAIN m} = UNION {ToSet(f[x]) : x \in ToSet(s)}
  <2>1. \A i \in DOMAIN m : \E x \in ToSet(s) : m[i] = f[x]
    BY <1>3
  <2>2. \A x \in ToSet(s) : \E i \in DOMAIN m : m[i] = f[x]
    BY <1>3
  <2> QED BY <2>1, <2>2
<1> QED BY <1>2, <1>4 DEF m

\* Dropping skips leaves all other checks, and skips only if there are no others.
LEMMA DropSkipsIs ==
  ASSUME NEW T, NEW s \in Seq(T)
  PROVE  /\ XSLT!DropSkips(s) \in Seq(T)
         /\ ToSet(XSLT!DropSkips(s)) =
              IF ToSet(s) \subseteq {XSLT!Skip} THEN ToSet(s) ELSE ToSet(s) \ {XSLT!Skip}
<1> DEFINE S == ToSet(s) \ {XSLT!Skip}
           real == Among(s, S)
<1>1. IsList(s) /\ ToSet(s) \subseteq T
  <2>1. Len(s) \in Nat /\ DOMAIN s = 1..Len(s) /\ \A i \in 1..Len(s) : s[i] \in T
    OBVIOUS
  <2>2. \A i \in 1..Len(s) : s[i] \in ToSet(s)
    BY <2>1 DEF ToSet
  <2>3. ToSet(s) \subseteq T
    BY <2>1 DEF ToSet
  <2>4. s \in [1..Len(s) -> ToSet(s)]
    BY <2>1, <2>2
  <2>5. s \in Seq(ToSet(s))
    <3> DEFINE U == ToSet(s)
               n == Len(s)
    <3>1. n \in Nat /\ s \in [1..n -> U]
      BY <2>1, <2>4
    <3> HIDE DEF U, n
    <3>2. s \in Seq(U)
      BY <3>1, ListOf
    <3> QED BY <3>2 DEF U
  <2> QED BY <2>3, <2>5 DEF IsList
<1>2. XSLT!DropSkips(s) = IF real = <<>> THEN s ELSE real
  BY SameHelpers DEF XSLT!DropSkips
<1> HIDE DEF real
<1>3. real \in Seq(ToSet(s) \cap S) /\ ToSet(real) = S
  <2> HIDE DEF S
  <2>1. real \in Seq(ToSet(s) \cap S) /\ ToSet(real) = ToSet(s) \cap S
    BY <1>1, AmongIs DEF real
  <2>2. ToSet(s) \cap S = S
    BY DEF S
  <2> QED BY <2>1, <2>2
<1> HIDE DEF S
<1>4. real \in Seq(T)
  <2> DEFINE U == ToSet(s) \cap S
  <2>1. U \subseteq T /\ real \in Seq(U)
    BY <1>1, <1>3
  <2> HIDE DEF U
  <2> QED BY <2>1
<1>5. real = <<>> <=> S = {}
  <2>1. IsList(real)
    <3> DEFINE U == ToSet(s) \cap S
    <3>1. U = S /\ real \in Seq(U)
      BY <1>3 DEF S
    <3> HIDE DEF U
    <3> QED BY <1>3, <3>1 DEF IsList
  <2> QED BY <1>3, <2>1, Places
<1>6. CASE S = {}
  <2>1. XSLT!DropSkips(s) = s /\ ToSet(s) \subseteq {XSLT!Skip}
    BY <1>2, <1>5, <1>6 DEF S
  <2> QED BY <2>1
<1>7. CASE S # {}
  <2>1. XSLT!DropSkips(s) = real /\ ~(ToSet(s) \subseteq {XSLT!Skip})
    BY <1>2, <1>5, <1>7 DEF S
  <2> QED BY <1>3, <1>4, <2>1 DEF S
<1> QED BY <1>6, <1>7

\* One step of EmitAssertion.
EmittedOf(f, a) ==
  CASE XSLT!IsError(a) -> <<>>
    [] a.type \in XSLT!Texts \cup XSLT!Raw -> <<XSLT!Check(a.type, a.what, <<>>)>>
    [] a.type = "all-of" -> XSLT!DropSkips(FlattenSeq(Mapped(f, a.children)))
    [] a.type = "any-of" -> XSLT!EmitAnyOf(a)
    [] a.type = "assert-message" /\ a.children = <<>> -> <<>>
    [] a.type \in {"assert-message", "not", "assert-result-document"} /\ a.children # <<>> ->
         <<XSLT!Check(a.type, "", XSLT!EmitChecks(a.children))>>
    [] OTHER -> <<XSLT!Skip>>

\* What is emitted for an assertion follows from what is emitted for its children.
LEMMA XSLTEmit ==
  /\ \A a \in XSLTAssertion : XSLT!EmitAssertion[a] = EmittedOf(XSLT!EmitAssertion, a)
  /\ \E C : \A a \in XSLTAssertion : XSLT!EmitAssertion[a] \in Seq(C)
<1> DEFINE A == XSLTAssertion
           C == {XSLT!Skip} \cup {XSLT!Check(a.type, a.what, <<>>) : a \in A}
                  \cup {XSLT!Check(a.type, "", XSLT!EmitChecks(a.children)) : a \in A}
                  \cup UNION {ToSet(XSLT!EmitAnyOf(a)) : a \in A}
           V == Seq(C)
           F == [g \in [A -> V] |-> [a \in A |-> EmittedOf(g, a)]]
           Rec(f) == [a \in A |-> EmittedOf(f, a)]
<1>a. ASSUME NEW a \in A PROVE XSLT!EmitAnyOf(a) \in V
  <2> DEFINE e == XSLT!EmitAnyOf(a)
  <2>1. e = <<>> \/ \E k : e = <<k>>
    BY DEF XSLT!EmitAnyOf
  <2>2. ToSet(e) \subseteq C
    OBVIOUS
  <2> HIDE DEF e, C
  <2>3. ASSUME NEW k, e = <<k>> PROVE k \in C
    <3>1. DOMAIN e = {1} /\ e[1] = k
      BY <2>3
    <3> QED BY <2>2, <3>1 DEF ToSet
  <2>4. e \in V
    <3>1. CASE e = <<>>
      BY <3>1
    <3>2. CASE \E k : e = <<k>>
      BY <2>3, <3>2
    <3> QED BY <2>1, <3>1, <3>2
  <2> QED BY <2>4 DEF e
<1>1. ASSUME NEW g \in [A -> V], NEW a \in A PROVE EmittedOf(g, a) \in V
  <2>1. \A c \in ToSet(a.children) : g[c] \in Seq(C)
    BY XSLTTrees
  <2>2. XSLT!DropSkips(FlattenSeq(Mapped(g, a.children))) \in Seq(C)
    <3> DEFINE all == FlattenSeq(Mapped(g, a.children))
    <3> HIDE DEF C
    <3>1. all \in Seq(C)
      BY <2>1, XSLTTrees, FlatOf
    <3> HIDE DEF all
    <3>2. XSLT!DropSkips(all) \in Seq(C)
      BY <3>1, DropSkipsIs
    <3> QED BY <3>2 DEF all
  <2>3. /\ XSLT!Skip \in C /\ XSLT!Check(a.type, a.what, <<>>) \in C
        /\ XSLT!Check(a.type, "", XSLT!EmitChecks(a.children)) \in C
    OBVIOUS
  <2>4. XSLT!EmitAnyOf(a) \in Seq(C)
    BY <1>a
  <2> HIDE DEF C
  <2>5. \A x \in C : <<x>> \in Seq(C)
    OBVIOUS
  <2>6. <<>> \in Seq(C)
    OBVIOUS
  <2> QED BY <2>2, <2>3, <2>4, <2>5, <2>6 DEF EmittedOf
<1> HIDE DEF V
<1>2. F \in [[A -> V] -> [A -> V]]
  <2> HIDE DEF A, C
  <2> QED BY <1>1
<1>3. ASSUME NEW g \in [A -> V], NEW h \in [A -> V], NEW a \in A,
             \A c \in XSLTChildren[a] : g[c] = h[c]
      PROVE  F[g][a] = F[h][a]
  <2>1. \A c \in ToSet(a.children) : g[c] = h[c]
    BY <1>3, XSLTTrees
  <2>2. \A i \in DOMAIN a.children : g[a.children[i]] = h[a.children[i]]
    BY <2>1, XSLTTrees, Places
  <2>3. Mapped(g, a.children) = Mapped(h, a.children)
    BY <2>2 DEF Mapped
  <2>4. EmittedOf(g, a) = EmittedOf(h, a)
    BY <2>3 DEF EmittedOf
  <2> QED BY <2>4
<1>4. PICK f \in [A -> V] : f = F[f]
  <2> HIDE DEF F
  <2>1. \A g, h \in [A -> V] : \A a \in A :
          (\A c \in XSLTChildren[a] : g[c] = h[c]) => F[g][a] = F[h][a]
    BY <1>3
  <2>2. V # {}
    <3> HIDE DEF C
    <3>1. <<>> \in V
      BY DEF V
    <3> QED BY <3>1
  <2>3. FromChildren(A, XSLTChildren, V, F)
    BY <1>2, <2>1, <2>2, XSLTTrees DEF FromChildren
  <2> QED BY <2>3, TreeRec
<1>5. XSLT!EmitAssertion = CHOOSE g : g = Rec(g)
  <2>1. \A s : XSLT!FlattenSeq(s) = FlattenSeq(s)
    BY SameHelpers
  <2> QED BY <2>1 DEF XSLT!EmitAssertion, EmittedOf, Mapped
<1>6. f = Rec(f)
  BY <1>4
<1> HIDE DEF Rec
<1>7. XSLT!EmitAssertion = Rec(XSLT!EmitAssertion)
  BY <1>5, <1>6
<1>8. \A a \in A : XSLT!EmitAssertion[a] = EmittedOf(XSLT!EmitAssertion, a)
  BY <1>7 DEF Rec
<1> DEFINE e == XSLT!EmitAssertion
<1>9. e \in [A -> V]
  <2>1. XSLTAssertion \subseteq {a \in A : e[a] \in V}
    <3> DEFINE P == {a \in A : e[a] \in V}
    <3>1. ASSUME NEW a \in A, ToSet(a.children) \subseteq P PROVE a \in P
      <4> DEFINE g == [c \in A |-> IF c \in P THEN e[c] ELSE <<>>]
      <4>0. <<>> \in V
        <5> HIDE DEF C
        <5> QED BY DEF V
      <4>1. g \in [A -> V] /\ \A c \in ToSet(a.children) : g[c] = e[c]
        <5> HIDE DEF C, e
        <5> QED BY <3>1, <4>0
      <4> HIDE DEF g, P, C, e
      <4>2. \A i \in DOMAIN a.children : g[a.children[i]] = e[a.children[i]]
        BY <3>1, <4>1, XSLTTrees, Places
      <4>3. Mapped(g, a.children) = Mapped(e, a.children)
        BY <4>2 DEF Mapped
      <4>4. EmittedOf(g, a) = EmittedOf(e, a)
        BY <4>3 DEF EmittedOf
      <4>5. e[a] \in V
        BY <1>1, <1>8, <3>1, <4>1, <4>4 DEF e
      <4> QED BY <3>1, <4>5 DEF P
    <3> HIDE DEF P
    <3> QED BY <3>1, XSLTInd DEF P
  <2>2. e = [a \in A |-> e[a]]
    BY <1>7 DEF Rec
  <2> HIDE DEF e, C
  <2> QED BY <2>1, <2>2
<1>10. \A a \in XSLTAssertion : XSLT!EmitAssertion[a] \in Seq(C)
  <2> HIDE DEF C
  <2> QED BY <1>9 DEF V, e
<1> HIDE DEF C
<1> QED BY <1>8, <1>10

\* What there is among the checks emitted for an assertion: none, one of the
\* kind of the assertion for it or for its children, or what there is for those.
LEMMA EmitSets ==
  ASSUME NEW a \in XSLTAssertion
  PROVE  LET S == ToSet(XSLT!EmitAssertion[a])
             U == UNION {ToSet(XSLT!EmitAssertion[c]) : c \in ToSet(a.children)}
             for(kids) == {XSLT!EmitCheck[c] : c \in kids}
             free == {c \in ToSet(a.children) : ~XSLT!IsError(c)}
         IN /\ XSLT!IsError(a) => S = {}
            /\ a.type \in XSLT!Texts \cup XSLT!Raw =>
                 \E k : S = {k} /\ k.kind = a.type /\ k.what = a.what
            /\ a.type = "all-of" => S = IF U \subseteq {XSLT!Skip} THEN U ELSE U \ {XSLT!Skip}
            /\ a.type = "any-of" /\ free = {} => S = {}
            /\ a.type = "any-of" /\ free # {} =>
                 \E k : S = {k} /\ k.kind = a.type /\ ToSet(k.checks) = for(free)
            /\ a.type \in {"assert-message", "not", "assert-result-document"} /\ a.children # <<>> =>
                 \E k : S = {k} /\ k.kind = a.type /\ ToSet(k.checks) = for(ToSet(a.children))
            /\ a.type \notin XSLT!Texts \cup XSLT!Raw \cup XSLT!Groups /\ ~XSLT!IsError(a) => S = {XSLT!Skip}
<1> DEFINE e == XSLT!EmitAssertion[a]
           U == UNION {ToSet(XSLT!EmitAssertion[c]) : c \in ToSet(a.children)}
           free == {c \in ToSet(a.children) : ~XSLT!IsError(c)}
           For(kids) == {XSLT!EmitCheck[c] : c \in kids}
<1>1. e = EmittedOf(XSLT!EmitAssertion, a)
  BY XSLTEmit
<1>2. \A k : ToSet(<<k>>) = {k}
  BY DEF ToSet
<1>3. ToSet(<<>>) = {}
  BY DEF ToSet
<1>l. IsList(a.children)
  BY XSLTTrees
<1>4. ASSUME NEW s, IsList(s) PROVE /\ ToSet(XSLT!EmitChecks(s)) = For(ToSet(s))
                                    /\ (XSLT!EmitChecks(s) = <<>> <=> s = <<>>)
  <2>1. XSLT!EmitChecks(s) = Mapped(XSLT!EmitCheck, s)
    BY DEF XSLT!EmitChecks, Mapped
  <2> DEFINE T == For(ToSet(s))
  <2>2. \A x \in ToSet(s) : XSLT!EmitCheck[x] \in T
    OBVIOUS
  <2> HIDE DEF T
  <2>3. /\ ToSet(Mapped(XSLT!EmitCheck, s)) = {XSLT!EmitCheck[x] : x \in ToSet(s)}
        /\ (Mapped(XSLT!EmitCheck, s) = <<>> <=> s = <<>>)
    BY <1>4, <2>2, MapOf
  <2> QED BY <2>1, <2>3
<1> HIDE DEF e, U, free, For
<1>t. /\ {"error", "assert-serialization-error"} \cap (XSLT!Texts \cup XSLT!Raw \cup XSLT!Groups) = {}
      /\ (XSLT!Texts \cup XSLT!Raw) \cap XSLT!Groups = {}
      /\ "all-of" \in XSLT!Groups /\ "any-of" \in XSLT!Groups
      /\ {"assert-message", "not", "assert-result-document"} \subseteq XSLT!Groups
  BY DEF XSLT!Texts, XSLT!Raw, XSLT!Typed, XSLT!Groups
<1>e. XSLT!IsError(a) <=> a.type \in {"error", "assert-serialization-error"}
  BY DEF XSLT!IsError
<1>5. ASSUME XSLT!IsError(a) PROVE ToSet(e) = {}
  BY <1>1, <1>3, <1>5, <1>t, <1>e DEF EmittedOf
<1>6. ASSUME a.type \in XSLT!Texts \cup XSLT!Raw
      PROVE  \E k : ToSet(e) = {k} /\ k.kind = a.type /\ k.what = a.what
  <2> DEFINE k == XSLT!Check(a.type, a.what, <<>>)
  <2>1. e = <<k>>
    BY <1>1, <1>6, <1>t, <1>e DEF EmittedOf
  <2>2. k.kind = a.type /\ k.what = a.what
    BY DEF XSLT!Check
  <2> HIDE DEF k
  <2> QED BY <1>2, <2>1, <2>2
<1>7. ASSUME a.type = "all-of"
      PROVE  ToSet(e) = IF U \subseteq {XSLT!Skip} THEN U ELSE U \ {XSLT!Skip}
  <2> DEFINE all == FlattenSeq(Mapped(XSLT!EmitAssertion, a.children))
  <2>1. e = XSLT!DropSkips(all)
    BY <1>1, <1>7, <1>t, <1>e DEF EmittedOf
  <2>2. PICK C : \A c \in XSLTAssertion : XSLT!EmitAssertion[c] \in Seq(C)
    BY XSLTEmit
  <2>3. \A c \in ToSet(a.children) : XSLT!EmitAssertion[c] \in Seq(C)
    BY <2>2, XSLTTrees
  <2>4. all \in Seq(C) /\ ToSet(all) = U
    BY <1>l, <2>3, FlatOf DEF U
  <2> HIDE DEF all
  <2> QED BY <2>1, <2>4, DropSkipsIs
<1>8. ASSUME a.type = "any-of"
      PROVE  /\ free = {} => ToSet(e) = {}
             /\ free # {} => \E k : ToSet(e) = {k} /\ k.kind = a.type /\ ToSet(k.checks) = For(free)
  <2>1. e = XSLT!EmitAnyOf(a)
    BY <1>1, <1>8, <1>t, <1>e DEF EmittedOf
  <2> DEFINE kept == Among(a.children, free)
             checks == XSLT!EmitChecks(kept)
             k == XSLT!Check("any-of", "", checks)
  <2>2. e = IF checks = <<>> THEN <<>> ELSE <<k>>
    BY <2>1, SameHelpers DEF XSLT!EmitAnyOf, free
  <2> HIDE DEF kept
  <2>3. kept \in Seq(ToSet(a.children) \cap free) /\ ToSet(kept) = ToSet(a.children) \cap free
    BY <1>l, AmongIs DEF kept
  <2>4. ToSet(a.children) \cap free = free
    BY DEF free
  <2>5. IsList(kept) /\ ToSet(kept) = free
    <3>1. kept \in Seq(free) /\ ToSet(kept) = free
      BY <2>3, <2>4
    <3> QED BY <3>1 DEF IsList
  <2>6. ToSet(checks) = For(free) /\ (checks = <<>> <=> free = {})
    <3>1. kept = <<>> <=> free = {}
      BY <2>5, Places
    <3> QED BY <1>4, <2>5, <3>1
  <2>7. k.kind = "any-of" /\ k.checks = checks
    BY DEF XSLT!Check
  <2> HIDE DEF k, checks
  <2>8. CASE free = {}
    BY <1>3, <2>2, <2>6, <2>8
  <2>9. ASSUME free # {} PROVE ToSet(e) = {k} /\ k.kind = a.type /\ ToSet(k.checks) = For(free)
    <3>1. e = <<k>>
      BY <2>2, <2>6, <2>9
    <3>2. k.kind = a.type /\ ToSet(k.checks) = For(free)
      BY <1>8, <2>6, <2>7
    <3> QED BY <1>2, <3>1, <3>2
  <2> QED BY <2>8, <2>9
<1>9. ASSUME a.type \in {"assert-message", "not", "assert-result-document"}, a.children # <<>>
      PROVE  \E k : ToSet(e) = {k} /\ k.kind = a.type /\ ToSet(k.checks) = For(ToSet(a.children))
  <2> DEFINE checks == XSLT!EmitChecks(a.children)
             k == XSLT!Check(a.type, "", checks)
  <2>1. e = <<k>>
    BY <1>1, <1>9, <1>t, <1>e DEF EmittedOf
  <2>2. k.kind = a.type /\ k.checks = checks
    BY DEF XSLT!Check
  <2>3. ToSet(checks) = For(ToSet(a.children))
    BY <1>4, <1>l
  <2> HIDE DEF k, checks
  <2>4. ToSet(k.checks) = For(ToSet(a.children))
    BY <2>2, <2>3
  <2> QED BY <1>2, <2>1, <2>2, <2>4
<1>10. ASSUME a.type \notin XSLT!Texts \cup XSLT!Raw \cup XSLT!Groups, ~XSLT!IsError(a)
       PROVE  ToSet(e) = {XSLT!Skip}
  <2>1. e = <<XSLT!Skip>>
    BY <1>1, <1>10, <1>t DEF EmittedOf
  <2> QED BY <1>2, <2>1
<1> QED BY <1>5, <1>6, <1>7, <1>8, <1>9, <1>10 DEF e, U, free, For

-------------------------------------------------------------------------------
(* What the harness makes of checks that were emitted *)

\* Checks can be numbered, those in a check below it: each by the lowest of the
\* assertions that become it.
LEMMA CheckRank ==
  \E rank \in [XSLT!Emitted -> Nat] :
    \A c \in XSLT!Emitted : \A d \in ToSet(c.checks) : d \in XSLT!Emitted /\ rank[d] < rank[c]
<1> DEFINE A == XSLTAssertion
           E == XSLT!EmitCheck
<1>1. PICK low \in [A -> Nat] : \A a \in A : \A b \in ToSet(a.children) : low[b] < low[a]
  <2>1. PICK low \in [A -> Nat] : \A a \in A : \A c \in XSLTChildren[a] : low[c] < low[a]
    BY XSLTTrees, TreeRank
  <2> QED BY <2>1, XSLTTrees
<1>2. XSLT!Emitted = {E[a] : a \in A}
  BY DEF XSLT!Emitted
<1> DEFINE Of(c) == {low[a] : a \in {b \in A : E[b] = c}}
           Least(c) == CHOOSE n \in Of(c) : \A m \in Of(c) : n <= m
           rank == [c \in XSLT!Emitted |-> Least(c)]
<1>3. ASSUME NEW c \in XSLT!Emitted
      PROVE  Least(c) \in Of(c) /\ \A m \in Of(c) : Least(c) <= m
  <2>1. Of(c) \in SUBSET Nat /\ Of(c) # {}
    BY <1>1, <1>2
  <2> HIDE DEF Of
  <2>2. \E n \in Of(c) : \A m \in Of(c) : n <= m
    BY <2>1, LeastNat
  <2> QED BY <2>2
<1>4. \A c \in XSLT!Emitted : \E a \in A : E[a] = c /\ Least(c) = low[a]
  <2> HIDE DEF Least
  <2> QED BY <1>3
<1>5. \A a \in A : E[a] \in XSLT!Emitted /\ Least(E[a]) <= low[a]
  <2>1. \A a \in A : E[a] \in XSLT!Emitted /\ low[a] \in Of(E[a])
    BY <1>2
  <2> HIDE DEF Least, Of
  <2> QED BY <1>3, <2>1
<1> HIDE DEF Least
<1>6. rank \in [XSLT!Emitted -> Nat]
  BY <1>1, <1>4
<1>7. ASSUME NEW c \in XSLT!Emitted, NEW d \in ToSet(c.checks)
      PROVE  d \in XSLT!Emitted /\ rank[d] < rank[c]
  <2>1. PICK a \in A : E[a] = c /\ Least(c) = low[a]
    BY <1>4
  <2>2. ToSet(c.checks) = {E[b] : b \in ToSet(a.children)}
    BY <1>7, <2>1, CheckIs
  <2>3. PICK b \in ToSet(a.children) : E[b] = d
    BY <2>2
  <2>4. b \in A /\ low[b] < low[a]
    BY <1>1, XSLTTrees
  <2>5. d \in XSLT!Emitted /\ Least(d) <= low[b]
    BY <1>5, <2>3, <2>4
  <2>6. low[b] \in Nat /\ low[a] \in Nat /\ rank[d] = Least(d) /\ rank[c] = low[a] /\ rank[d] \in Nat
    BY <1>1, <1>6, <2>1, <2>4, <2>5
  <2> QED BY <2>4, <2>5, <2>6
<1> HIDE DEF rank
<1> QED BY <1>6, <1>7

\* What F makes of a check is made of the values at those in it.
FromChecks(V, F) ==
  /\ V # {} /\ F \in [[XSLT!Emitted -> V] -> [XSLT!Emitted -> V]]
  /\ \A g, h \in [XSLT!Emitted -> V] : \A c \in XSLT!Emitted :
       (\A d \in ToSet(c.checks) : g[d] = h[d]) => F[g][c] = F[h][c]

\* A value for each check may be defined from those of the checks in it.
LEMMA CheckRec ==
  ASSUME NEW V, NEW F, FromChecks(V, F)
  PROVE  \E f \in [XSLT!Emitted -> V] : f = F[f]
<1> DEFINE A == XSLT!Emitted
<1>1. PICK rank \in [A -> Nat] :
        \A c \in A : \A d \in ToSet(c.checks) : d \in A /\ rank[d] < rank[c]
  BY CheckRank
<1>2. ASSUME NEW g \in [A -> V], NEW h \in [A -> V], NEW c \in A,
             \A d \in A : rank[d] < rank[c] => g[d] = h[d]
      PROVE  F[g][c] = F[h][c]
  <2>1. \A d \in ToSet(c.checks) : g[d] = h[d]
    BY <1>1, <1>2
  <2> QED BY <2>1 DEF FromChecks
<1>3. \A g, h \in [A -> V] : \A c \in A :
        (\A d \in A : rank[d] < rank[c] => g[d] = h[d]) => F[g][c] = F[h][c]
  BY <1>2, Zenon
<1>4. FromBelow(A, V, rank, F)
  BY <1>1, <1>3 DEF FromBelow, FromChecks
<1> HIDE DEF A
<1>5. \E f \in [A -> V] : f = F[f]
  BY <1>4, RankRec
<1> QED BY <1>5 DEF A

\* Which checks have a RawCheck follows from which of those in them have one.
LEMMA RawFnIs ==
  \A c \in XSLT!Emitted :
    XSLT!HasRawFn[c] = (\/ c.kind \in XSLT!Raw
                        \/ c.kind \in {"all-of", "any-of"} /\ \E d \in ToSet(c.checks) : XSLT!HasRawFn[d])
<1> DEFINE A == XSLT!Emitted
           V == BOOLEAN
           W(f, c) == \/ c.kind \in XSLT!Raw
                      \/ c.kind \in {"all-of", "any-of"} /\ \E d \in ToSet(c.checks) : f[d]
           F == [g \in [A -> V] |-> [c \in A |-> W(g, c)]]
           Rec(f) == [c \in A |-> \/ c.kind \in XSLT!Raw
                                  \/ c.kind \in {"all-of", "any-of"} /\ \E d \in ToSet(c.checks) : f[d]]
<1>1. \A g, c : W(g, c) \in V
  OBVIOUS
<1>2. F \in [[A -> V] -> [A -> V]]
  <2> HIDE DEF A, V, W
  <2> QED BY <1>1
<1>3. ASSUME NEW g \in [A -> V], NEW h \in [A -> V], NEW c \in A,
             \A d \in ToSet(c.checks) : g[d] = h[d]
      PROVE  F[g][c] = F[h][c]
  <2>1. W(g, c) = W(h, c)
    BY <1>3
  <2> HIDE DEF W, A, V
  <2> QED BY <2>1
<1>4. PICK f \in [A -> V] : f = F[f]
  <2> HIDE DEF F
  <2>1. \A g, h \in [A -> V] : \A c \in A :
          (\A d \in ToSet(c.checks) : g[d] = h[d]) => F[g][c] = F[h][c]
    BY <1>3
  <2>2. FromChecks(V, F)
    BY <1>2, <2>1 DEF FromChecks
  <2> QED BY <2>2, CheckRec
<1>5. XSLT!HasRawFn = CHOOSE g : g = Rec(g)
  BY DEF XSLT!HasRawFn, XSLT!ToSet, ToSet
<1>6. f = Rec(f)
  BY <1>4
<1> HIDE DEF Rec
<1>7. XSLT!HasRawFn = Rec(XSLT!HasRawFn)
  BY <1>5, <1>6
<1> QED BY <1>7 DEF Rec

\* Which checks read the document follows from which of those in them do.
LEMMA DocFnIs ==
  \A c \in XSLT!Emitted :
    XSLT!HasDocFn[c] = (c.kind = "assert" \/ (c.kind = "all-of" /\ \E d \in ToSet(c.checks) : XSLT!HasDocFn[d]))
<1> DEFINE A == XSLT!Emitted
           V == BOOLEAN
           W(f, c) == c.kind = "assert" \/ (c.kind = "all-of" /\ \E d \in ToSet(c.checks) : f[d])
           F == [g \in [A -> V] |-> [c \in A |-> W(g, c)]]
           Rec(f) == [c \in A |-> c.kind = "assert" \/ (c.kind = "all-of" /\ \E d \in ToSet(c.checks) : f[d])]
<1>1. \A g, c : W(g, c) \in V
  OBVIOUS
<1>2. F \in [[A -> V] -> [A -> V]]
  <2> HIDE DEF A, V, W
  <2> QED BY <1>1
<1>3. ASSUME NEW g \in [A -> V], NEW h \in [A -> V], NEW c \in A,
             \A d \in ToSet(c.checks) : g[d] = h[d]
      PROVE  F[g][c] = F[h][c]
  <2>1. W(g, c) = W(h, c)
    BY <1>3
  <2> HIDE DEF W, A, V
  <2> QED BY <2>1
<1>4. PICK f \in [A -> V] : f = F[f]
  <2> HIDE DEF F
  <2>1. \A g, h \in [A -> V] : \A c \in A :
          (\A d \in ToSet(c.checks) : g[d] = h[d]) => F[g][c] = F[h][c]
    BY <1>3
  <2>2. FromChecks(V, F)
    BY <1>2, <2>1 DEF FromChecks
  <2> QED BY <2>2, CheckRec
<1>5. XSLT!HasDocFn = CHOOSE g : g = Rec(g)
  BY DEF XSLT!HasDocFn, XSLT!ToSet, ToSet
<1>6. f = Rec(f)
  BY <1>4
<1> HIDE DEF Rec
<1>7. XSLT!HasDocFn = Rec(XSLT!HasDocFn)
  BY <1>5, <1>6
<1> QED BY <1>7 DEF Rec

\* One step of Meets.
Met(f, c) == [d \in ToSet(c.checks) |-> f[d]]
MeetsOf(met, c, o) ==
  LET every(v) == \A d \in DOMAIN met : met[d][v]
      some(v) == \E d \in DOMAIN met : met[d][v]
      rawFn == CASE c.kind = "all-of" -> \A d \in DOMAIN met : XSLT!HasRawFn[d] => met[d]["raw"]
                 [] c.kind = "any-of" -> \E d \in DOMAIN met : met[d][IF XSLT!HasRawFn[d] THEN "raw" ELSE "nothing"]
                 [] OTHER -> c.what \in o.holds
      message(v) == \A d \in DOMAIN met :
        IF XSLT!HasRawFn[d] THEN v = "text" /\ met[d]["raw"] ELSE met[d][IF v = "text" THEN "text" ELSE "nothing"]
      fn(v) == CASE c.kind = "skip" -> TRUE
                 [] c.kind = "error" \/ c.kind \in XSLT!Typed -> FALSE
                 [] c.kind = "all-of" -> every(v)
                 [] c.kind = "any-of" -> some(v)
                 [] c.kind = "not" -> ~some(v)
                 [] c.kind = "assert-message" -> message(v)
                 [] OTHER -> v # "nothing" /\ c.what \in o.holds
  IN [v \in XSLT!Views |-> IF v = "raw" THEN XSLT!HasRawFn[c] /\ rawFn ELSE fn(v)]

\* What a check says of an outcome follows from what those in it say.
LEMMA XSLTMeets ==
  ASSUME NEW o
  PROVE  \A c \in XSLT!Emitted : XSLT!Meets(o)[c] = MeetsOf(Met(XSLT!Meets(o), c), c, o)
<1> DEFINE A == XSLT!Emitted
           V == [XSLT!Views -> BOOLEAN]
           F == [g \in [A -> V] |-> [c \in A |-> MeetsOf(Met(g, c), c, o)]]
           Rec(f) == [c \in A |-> MeetsOf(Met(f, c), c, o)]
<1>1. ASSUME NEW g, NEW c PROVE MeetsOf(Met(g, c), c, o) \in V
  <2> DEFINE m == MeetsOf(Met(g, c), c, o)
  <2>1. m = [v \in XSLT!Views |-> m[v]]
    BY DEF MeetsOf
  <2>2. \A v \in XSLT!Views : m[v] \in BOOLEAN
    BY DEF MeetsOf
  <2> HIDE DEF m
  <2>3. m \in V
    BY <2>1, <2>2
  <2> QED BY <2>3 DEF m
<1>2. F \in [[A -> V] -> [A -> V]]
  <2> HIDE DEF A, V
  <2> QED BY <1>1
<1>3. ASSUME NEW g \in [A -> V], NEW h \in [A -> V], NEW c \in A,
             \A d \in ToSet(c.checks) : g[d] = h[d]
      PROVE  F[g][c] = F[h][c]
  <2>1. Met(g, c) = Met(h, c)
    BY <1>3 DEF Met
  <2>2. MeetsOf(Met(g, c), c, o) = MeetsOf(Met(h, c), c, o)
    BY <2>1
  <2> HIDE DEF A, V
  <2> QED BY <2>2
<1>v. V # {}
  <2>1. [v \in XSLT!Views |-> TRUE] \in V
    OBVIOUS
  <2> QED BY <2>1
<1> HIDE DEF V
<1>4. PICK f \in [A -> V] : f = F[f]
  <2> HIDE DEF F
  <2>1. \A g, h \in [A -> V] : \A c \in A :
          (\A d \in ToSet(c.checks) : g[d] = h[d]) => F[g][c] = F[h][c]
    BY <1>3
  <2>2. FromChecks(V, F)
    BY <1>2, <1>v, <2>1 DEF FromChecks
  <2> QED BY <2>2, CheckRec
<1>5. XSLT!Meets(o) = CHOOSE g : g = Rec(g)
  BY DEF XSLT!Meets, MeetsOf, Met, XSLT!ToSet, ToSet
<1>6. f = Rec(f)
  BY <1>4
<1> HIDE DEF Rec
<1>7. XSLT!Meets(o) = Rec(XSLT!Meets(o))
  BY <1>5, <1>6
<1> QED BY <1>7 DEF Rec

-------------------------------------------------------------------------------
(* The same of the assertions they were emitted for *)

RawIn(a) == XSLT!HasRawFn[XSLT!EmitCheck[a]]
DocIn(a) == XSLT!HasDocFn[XSLT!EmitCheck[a]]
Says(a, v, o) == XSLT!Meets(o)[XSLT!EmitCheck[a]][v]

\* Which assertions become checks that have a RawCheck.
LEMMA RawInIs ==
  ASSUME NEW a \in XSLTAssertion
  PROVE  /\ RawIn(a) \in BOOLEAN
         /\ RawIn(a) <=> \/ KindOf(a) \in XSLT!Raw
                         \/ KindOf(a) \in {"all-of", "any-of"} /\ \E b \in ToSet(a.children) : RawIn(b)
<1> DEFINE c == XSLT!EmitCheck[a]
<1>1. /\ c \in XSLT!Emitted /\ c.kind = KindOf(a)
      /\ (KindOf(a) \in {"all-of", "any-of"} => ToSet(c.checks) = {XSLT!EmitCheck[b] : b \in ToSet(a.children)})
  BY CheckIs DEF XSLT!Emitted, Nests
<1> HIDE DEF c
<1>2. XSLT!HasRawFn[c] = (\/ c.kind \in XSLT!Raw
                          \/ c.kind \in {"all-of", "any-of"} /\ \E d \in ToSet(c.checks) : XSLT!HasRawFn[d])
  BY <1>1, RawFnIs
<1>3. XSLT!HasRawFn[c] <=> \/ KindOf(a) \in XSLT!Raw
                           \/ KindOf(a) \in {"all-of", "any-of"} /\ \E b \in ToSet(a.children) : RawIn(b)
  BY <1>1, <1>2 DEF RawIn
<1>4. XSLT!HasRawFn[c] \in BOOLEAN
  BY <1>2
<1> QED BY <1>3, <1>4 DEF RawIn, c

\* The kinds of checks are apart.
LEMMA KindsApart ==
  /\ XSLT!Texts \cap XSLT!Raw = {} /\ XSLT!Typed \subseteq XSLT!Raw
  /\ XSLT!Raw = XSLT!Typed \cup {"assert-empty"} /\ "assert-empty" \notin XSLT!Typed
  /\ (XSLT!Texts \cup XSLT!Raw) \cap (XSLT!Groups \cup {"error", "assert-serialization-error", "skip"}) = {}
  /\ XSLT!Groups = {"all-of", "any-of", "not", "assert-message", "assert-result-document"}
BY DEF XSLT!Texts, XSLT!Raw, XSLT!Typed, XSLT!Groups

\* What the checks say of an outcome, by the kind of the assertion.
LEMMA SaysIs ==
  ASSUME NEW o, NEW a \in XSLTAssertion, NEW v \in {"text", "unsaid"}
  PROVE  /\ KindOf(a) = "skip" => Says(a, v, o)
         /\ KindOf(a) = "error" \/ KindOf(a) \in XSLT!Typed => ~Says(a, v, o)
         /\ KindOf(a) = "all-of" => (Says(a, v, o) <=> \A b \in ToSet(a.children) : Says(b, v, o))
         /\ KindOf(a) = "any-of" => (Says(a, v, o) <=> \E b \in ToSet(a.children) : Says(b, v, o))
         /\ KindOf(a) = "not" => (Says(a, v, o) <=> \A b \in ToSet(a.children) : ~Says(b, v, o))
         /\ KindOf(a) = "assert-message" /\ v = "text" =>
              (Says(a, v, o) <=> \A b \in ToSet(a.children) : Says(b, IF RawIn(b) THEN "raw" ELSE "text", o))
         /\ KindOf(a) \in XSLT!Texts => (Says(a, v, o) <=> a.what \in o.holds)
<1> DEFINE c == XSLT!EmitCheck[a]
           f == XSLT!Meets(o)
           kids == ToSet(a.children)
<1>0. /\ c \in XSLT!Emitted /\ c.kind = KindOf(a)
      /\ (a.type \in XSLT!Texts \cup XSLT!Raw => c.what = a.what)
      /\ (KindOf(a) \in Nests => ToSet(c.checks) = {XSLT!EmitCheck[b] : b \in kids})
  BY CheckIs DEF XSLT!Emitted
<1>1. (KindOf(a) \in XSLT!Texts => c.what = a.what)
  BY <1>0, KindsApart DEF KindOf
<1> DEFINE m == MeetsOf(Met(f, c), c, o)
           K == KindOf(a)
<1>2. f[c] = m
  BY <1>0, XSLTMeets
<1>3. v \in XSLT!Views /\ v # "raw" /\ v # "nothing"
  BY DEF XSLT!Views
<1>4. /\ K = "skip" => m[v]
      /\ K = "error" \/ K \in XSLT!Typed => ~m[v]
      /\ K = "all-of" => (m[v] <=> \A d \in ToSet(c.checks) : f[d][v])
      /\ K = "any-of" => (m[v] <=> \E d \in ToSet(c.checks) : f[d][v])
      /\ K = "not" => (m[v] <=> \A d \in ToSet(c.checks) : ~f[d][v])
      /\ K = "assert-message" /\ v = "text" =>
           (m[v] <=> \A d \in ToSet(c.checks) : f[d][IF XSLT!HasRawFn[d] THEN "raw" ELSE "text"])
      /\ K \in XSLT!Texts => (m[v] <=> c.what \in o.holds)
  <2> HIDE DEF c, f, K
  <2>1. c.kind = K
    BY <1>0 DEF c, K
  <2>2. CASE K = "skip"
    BY <1>3, <2>1, <2>2, KindsApart DEF MeetsOf, Met
  <2>3. CASE K = "error" \/ K \in XSLT!Typed
    BY <1>3, <2>1, <2>3, KindsApart DEF MeetsOf, Met
  <2>4. CASE K = "all-of"
    BY <1>3, <2>1, <2>4, KindsApart DEF MeetsOf, Met
  <2>5. CASE K = "any-of"
    BY <1>3, <2>1, <2>5, KindsApart DEF MeetsOf, Met
  <2>6. CASE K = "not"
    BY <1>3, <2>1, <2>6, KindsApart DEF MeetsOf, Met
  <2>7. CASE K = "assert-message"
    BY <1>3, <2>1, <2>7, KindsApart DEF MeetsOf, Met
  <2>8. CASE K \in XSLT!Texts
    BY <1>3, <2>1, <2>8, KindsApart DEF MeetsOf, Met
  <2> QED BY <2>2, <2>3, <2>4, <2>5, <2>6, <2>7, <2>8
<1> HIDE DEF m, c, f
<1>5. \A b, w : Says(b, w, o) = f[XSLT!EmitCheck[b]][w]
  BY DEF Says, f
<1>6. Says(a, v, o) = m[v]
  BY <1>2, <1>5 DEF c
<1> QED BY <1>0, <1>1, <1>4, <1>5, <1>6 DEF Nests, RawIn

\* The same of the raw result.
LEMMA SaysRaw ==
  ASSUME NEW o, NEW a \in XSLTAssertion, RawIn(a)
  PROVE  /\ KindOf(a) \in XSLT!Raw => (Says(a, "raw", o) <=> a.what \in o.holds)
         /\ KindOf(a) = "all-of" =>
              (Says(a, "raw", o) <=> \A b \in ToSet(a.children) : RawIn(b) => Says(b, "raw", o))
         /\ KindOf(a) = "any-of" =>
              (Says(a, "raw", o) <=>
                 \E b \in ToSet(a.children) : Says(b, IF RawIn(b) THEN "raw" ELSE "nothing", o))
<1> DEFINE c == XSLT!EmitCheck[a]
           f == XSLT!Meets(o)
           kids == ToSet(a.children)
           K == KindOf(a)
<1>0. /\ c \in XSLT!Emitted /\ c.kind = K
      /\ (a.type \in XSLT!Texts \cup XSLT!Raw => c.what = a.what)
      /\ (K \in Nests => ToSet(c.checks) = {XSLT!EmitCheck[b] : b \in kids})
  BY CheckIs DEF XSLT!Emitted
<1>1. (K \in XSLT!Raw => c.what = a.what)
  BY <1>0, KindsApart DEF KindOf
<1> DEFINE m == MeetsOf(Met(f, c), c, o)
<1>2. f[c] = m
  BY <1>0, XSLTMeets
<1>3. "raw" \in XSLT!Views /\ XSLT!HasRawFn[c]
  BY DEF XSLT!Views, RawIn
<1>4. /\ K \in XSLT!Raw => (m["raw"] <=> c.what \in o.holds)
      /\ K = "all-of" => (m["raw"] <=> \A d \in ToSet(c.checks) : XSLT!HasRawFn[d] => f[d]["raw"])
      /\ K = "any-of" =>
           (m["raw"] <=> \E d \in ToSet(c.checks) : f[d][IF XSLT!HasRawFn[d] THEN "raw" ELSE "nothing"])
  <2> HIDE DEF c, f, K
  <2>1. c.kind = K
    BY <1>0 DEF c, K
  <2>2. CASE K \in XSLT!Raw
    BY <1>3, <2>1, <2>2, KindsApart DEF MeetsOf, Met
  <2>3. CASE K = "all-of"
    BY <1>3, <2>1, <2>3, KindsApart DEF MeetsOf, Met
  <2>4. CASE K = "any-of"
    BY <1>3, <2>1, <2>4, KindsApart DEF MeetsOf, Met
  <2> QED BY <2>2, <2>3, <2>4
<1> HIDE DEF m, c, f
<1>5. \A b, w : Says(b, w, o) = f[XSLT!EmitCheck[b]][w]
  BY DEF Says, f
<1>6. Says(a, "raw", o) = m["raw"]
  BY <1>2, <1>5 DEF c
<1> QED BY <1>0, <1>1, <1>4, <1>5, <1>6 DEF Nests, RawIn

\* When a check of a row holds, in terms of the assertions it holds checks for.
LEMMA HoldsIs ==
  ASSUME NEW o, NEW k, NEW S, k.kind \in XSLT!Groups => ToSet(k.checks) = {XSLT!EmitCheck[b] : b \in S}
  PROVE  LET typed == o.raw /\ \E b \in S : RawIn(b) IN
         /\ k.kind \in XSLT!Raw => (XSLT!Holds(k, o) <=> (o.raw => k.what \in o.holds))
         /\ k.kind \in XSLT!Texts => (XSLT!Holds(k, o) <=> k.what \in o.holds)
         /\ k.kind = "any-of" =>
              (XSLT!Holds(k, o) <=>
                 \E b \in S : Says(b, IF ~typed THEN "text" ELSE IF RawIn(b) THEN "raw" ELSE "unsaid", o))
         /\ k.kind = "assert-message" =>
              (XSLT!Holds(k, o) <=> \A b \in S : Says(b, IF RawIn(b) THEN "raw" ELSE "text", o))
         /\ k.kind = "not" => (XSLT!Holds(k, o) <=> \A b \in S : ~Says(b, "text", o))
         /\ k.kind = "assert-result-document" =>
              (XSLT!Holds(k, o) <=> \A b \in S : Says(b, IF DocIn(b) THEN "unsaid" ELSE "text", o))
<1> DEFINE D == ToSet(k.checks)
           typed == o.raw /\ \E b \in S : RawIn(b)
           typedD == o.raw /\ \E d \in D : XSLT!HasRawFn[d]
           f == XSLT!Meets(o)
<1>1. k.kind \in XSLT!Groups => D = {XSLT!EmitCheck[b] : b \in S}
  OBVIOUS
<1>2. XSLT!ToSet(k.checks) = D
  BY SameHelpers
<1> HIDE DEF D
<1>3. \A b, w : Says(b, w, o) = f[XSLT!EmitCheck[b]][w]
  BY DEF Says
<1>4. k.kind \in XSLT!Raw => (XSLT!Holds(k, o) <=> (o.raw => k.what \in o.holds))
  BY KindsApart DEF XSLT!Holds
<1>5. k.kind \in XSLT!Texts => (XSLT!Holds(k, o) <=> k.what \in o.holds)
  BY KindsApart DEF XSLT!Holds
<1>6. ASSUME k.kind = "any-of"
      PROVE  XSLT!Holds(k, o) <=>
               \E d \in D : f[d][IF ~typedD THEN "text" ELSE IF XSLT!HasRawFn[d] THEN "raw" ELSE "unsaid"]
  <2> HIDE DEF f
  <2>1. k.kind \notin XSLT!Raw
    BY <1>6, KindsApart
  <2>2. XSLT!Holds(k, o) <=>
          \E d \in D : f[d][CASE ~typedD -> "text" [] typedD /\ XSLT!HasRawFn[d] -> "raw" [] OTHER -> "unsaid"]
    BY <1>2, <1>6, <2>1 DEF XSLT!Holds, f
  <2> HIDE DEF typedD
  <2> QED BY <2>2
<1>7. ASSUME k.kind = "any-of"
      PROVE  XSLT!Holds(k, o) <=>
               \E b \in S : Says(b, IF ~typed THEN "text" ELSE IF RawIn(b) THEN "raw" ELSE "unsaid", o)
  <2> HIDE DEF f
  <2>1. D = {XSLT!EmitCheck[b] : b \in S}
    BY <1>1, <1>7, KindsApart
  <2>2. typed <=> typedD
    BY <2>1 DEF RawIn
  <2> HIDE DEF typed, typedD
  <2> QED BY <1>3, <1>6, <1>7, <2>1, <2>2 DEF RawIn
<1>8. ASSUME k.kind = "assert-message"
      PROVE  XSLT!Holds(k, o) <=> \A b \in S : Says(b, IF RawIn(b) THEN "raw" ELSE "text", o)
  <2> HIDE DEF f
  <2>1. k.kind \notin XSLT!Raw /\ D = {XSLT!EmitCheck[b] : b \in S}
    BY <1>1, <1>8, KindsApart
  <2>2. XSLT!Holds(k, o) <=> \A d \in D : f[d][IF XSLT!HasRawFn[d] THEN "raw" ELSE "text"]
    BY <1>2, <1>8, <2>1 DEF XSLT!Holds, f
  <2> QED BY <1>3, <2>1, <2>2 DEF RawIn
<1>9. ASSUME k.kind = "not" PROVE XSLT!Holds(k, o) <=> \A b \in S : ~Says(b, "text", o)
  <2> HIDE DEF f
  <2>1. k.kind \notin XSLT!Raw /\ D = {XSLT!EmitCheck[b] : b \in S}
    BY <1>1, <1>9, KindsApart
  <2>2. XSLT!Holds(k, o) <=> \A d \in D : ~f[d]["text"]
    BY <1>2, <1>9, <2>1 DEF XSLT!Holds, f
  <2> QED BY <1>3, <2>1, <2>2
<1>10. ASSUME k.kind = "assert-result-document"
       PROVE  XSLT!Holds(k, o) <=> \A b \in S : Says(b, IF DocIn(b) THEN "unsaid" ELSE "text", o)
  <2> HIDE DEF f
  <2>1. k.kind \notin XSLT!Raw /\ D = {XSLT!EmitCheck[b] : b \in S}
    BY <1>1, <1>10, KindsApart
  <2>2. XSLT!Holds(k, o) <=> \A d \in D : f[d][IF XSLT!HasDocFn[d] THEN "unsaid" ELSE "text"]
    BY <1>2, <1>10, <2>1 DEF XSLT!Holds, f
  <2> QED BY <1>3, <2>1, <2>2 DEF DocIn
<1> HIDE DEF f
<1> QED BY <1>4, <1>5, <1>7, <1>8, <1>9, <1>10

\* One step of Accepts of xslt30.
XSLTAcceptsOf(f, a, o) ==
  LET accepted == {c \in ToSet(a.children) : f[c]}
      every == accepted = ToSet(a.children)
  IN CASE XSLT!IsError(a) -> o.error # "" /\ a.what \in {o.error, ""}
       [] a.type = "all-of" -> every
       [] a.type = "any-of" -> accepted # {}
       [] a.type \in {"assert-message", "assert-result-document"} -> o.error = "" /\ every
       [] a.type = "not" -> o.error = "" /\ accepted = {}
       [] OTHER -> o.error = "" /\ a.what \in o.holds

\* Whether an assertion accepts an outcome follows from whether its children do.
LEMMA XSLTAccepts ==
  ASSUME NEW o
  PROVE  \E f \in [XSLTAssertion -> BOOLEAN] :
           \A a \in XSLTAssertion : f[a] = XSLTAcceptsOf(f, a, o) /\ XSLT!Accepts(<<a>>, o) = f[a]
<1> DEFINE A == XSLTAssertion
           F == [g \in [A -> BOOLEAN] |-> [a \in A |-> XSLTAcceptsOf(g, a, o)]]
           Rec(f) == [a \in A |-> XSLTAcceptsOf(f, a, o)]
           accepts == CHOOSE g : g = Rec(g)
<1>1. ASSUME NEW g, NEW a PROVE XSLTAcceptsOf(g, a, o) \in BOOLEAN
  BY DEF XSLTAcceptsOf
<1>2. F \in [[A -> BOOLEAN] -> [A -> BOOLEAN]]
  <2> HIDE DEF A
  <2> QED BY <1>1
<1>3. ASSUME NEW g \in [A -> BOOLEAN], NEW h \in [A -> BOOLEAN], NEW a \in A,
             \A c \in XSLTChildren[a] : g[c] = h[c]
      PROVE  F[g][a] = F[h][a]
  <2>1. \A c \in ToSet(a.children) : g[c] = h[c]
    BY <1>3, XSLTTrees
  <2>2. {c \in ToSet(a.children) : g[c]} = {c \in ToSet(a.children) : h[c]}
    BY <2>1
  <2>3. XSLTAcceptsOf(g, a, o) = XSLTAcceptsOf(h, a, o)
    BY <2>2 DEF XSLTAcceptsOf
  <2> QED BY <2>3
<1>4. PICK f \in [A -> BOOLEAN] : f = F[f]
  <2> HIDE DEF F
  <2>1. \A g, h \in [A -> BOOLEAN] : \A a \in A :
          (\A c \in XSLTChildren[a] : g[c] = h[c]) => F[g][a] = F[h][a]
    BY <1>3
  <2>2. FromChildren(A, XSLTChildren, BOOLEAN, F)
    BY <1>2, <2>1, XSLTTrees DEF FromChildren
  <2> QED BY <2>2, TreeRec
<1>5. \A as : XSLT!Accepts(as, o) = \A a \in ToSet(as) : accepts[a]
  BY DEF XSLT!Accepts, XSLTAcceptsOf, XSLT!ToSet, ToSet
<1>6. f = Rec(f)
  BY <1>4
<1> HIDE DEF Rec
<1>7. accepts = Rec(accepts)
  BY <1>6
<1>8. accepts \in [A -> BOOLEAN]
  <2> HIDE DEF accepts
  <2> QED BY <1>1, <1>7 DEF Rec
<1> HIDE DEF accepts
<1>9. ASSUME NEW a \in A PROVE XSLT!Accepts(<<a>>, o) = accepts[a]
  <2>1. ToSet(<<a>>) = {a}
    BY DEF ToSet
  <2>2. XSLT!Accepts(<<a>>, o) = \A b \in {a} : accepts[b]
    BY <1>5, <2>1, Zenon
  <2>3. accepts[a] \in BOOLEAN
    BY <1>8
  <2>4. (\A b \in {a} : accepts[b]) = accepts[a]
    BY <2>3
  <2> QED BY <2>2, <2>4
<1> QED BY <1>7, <1>8, <1>9 DEF Rec

\* f says of each assertion whether it accepts o.
XSLTReads(f, o) == \A a \in XSLTAssertion : f[a] = XSLTAcceptsOf(f, a, o)

\* What Regular asks of a checked assertion and of all within it.
Shaped(a) ==
  \A b \in XSLT!Within[a] : /\ b.type \in XSLT!Groups <=> b.children # <<>>
                            /\ b.type = "not" => XSLT!Checked(b)
NoRaw(a) == XSLT!TypesIn(a) \cap XSLT!Raw = {}
NoTalk(a) == "assert-message" \notin XSLT!TypesIn(a)
AllRaw(a) == XSLT!TypesIn(a) \subseteq XSLT!Raw \cup {"all-of", "any-of"}

\* All of these hold of the children, too.
LEMMA BelowToo ==
  ASSUME NEW a \in XSLTAssertion
  PROVE  /\ a.type \in XSLT!TypesIn(a)
         /\ Shaped(a) => /\ a.type \in XSLT!Groups <=> a.children # <<>>
                         /\ a.type \in XSLT!Groups <=> ToSet(a.children) # {}
                         /\ a.type = "not" => XSLT!Checked(a)
         /\ XSLT!Checked(a) =>
              a.type \in XSLT!Texts \cup XSLT!Raw \cup (XSLT!Groups \ {"assert-result-document"}) \/ XSLT!IsError(a)
         /\ \A c \in ToSet(a.children) :
              /\ c \in XSLTAssertion
              /\ Shaped(a) => Shaped(c)
              /\ NoRaw(a) => NoRaw(c)
              /\ NoTalk(a) => NoTalk(c)
              /\ AllRaw(a) => AllRaw(c)
              /\ XSLT!Checked(a) => XSLT!Checked(c)
<1>1. /\ a \in XSLT!Within[a]
      /\ \A c \in ToSet(a.children) : c \in XSLT!Within[a] /\ XSLT!Within[c] \subseteq XSLT!Within[a]
  BY XSLTInside
<1>2. IsList(a.children) /\ ToSet(a.children) \subseteq XSLTAssertion
  BY XSLTTrees
<1>3. a.children = <<>> <=> ToSet(a.children) = {}
  BY <1>2, Places
<1>4. a.type \in XSLT!TypesIn(a)
  BY <1>1 DEF XSLT!TypesIn
<1>5. Shaped(a) => /\ a.type \in XSLT!Groups <=> a.children # <<>>
                   /\ a.type \in XSLT!Groups <=> ToSet(a.children) # {}
                   /\ a.type = "not" => XSLT!Checked(a)
  BY <1>1, <1>3 DEF Shaped
<1>6. XSLT!Checked(a) =>
        a.type \in XSLT!Texts \cup XSLT!Raw \cup (XSLT!Groups \ {"assert-result-document"}) \/ XSLT!IsError(a)
  BY <1>1 DEF XSLT!Checked
<1>7. ASSUME NEW c \in ToSet(a.children)
      PROVE  /\ c \in XSLTAssertion
             /\ Shaped(a) => Shaped(c)
             /\ NoRaw(a) => NoRaw(c)
             /\ NoTalk(a) => NoTalk(c)
             /\ AllRaw(a) => AllRaw(c)
             /\ XSLT!Checked(a) => XSLT!Checked(c)
  <2>1. XSLT!TypesIn(c) \subseteq XSLT!TypesIn(a)
    BY <1>1, <1>7 DEF XSLT!TypesIn
  <2>2. Shaped(a) => Shaped(c)
    BY <1>1, <1>7 DEF Shaped
  <2>3. XSLT!Checked(a) => XSLT!Checked(c)
    BY <1>1, <1>7 DEF XSLT!Checked
  <2> QED BY <1>2, <1>7, <2>1, <2>2, <2>3 DEF NoRaw, NoTalk, AllRaw
<1> QED BY <1>4, <1>5, <1>6, <1>7

\* What an assertion of these shapes is emitted as.
LEMMA ShapedKind ==
  ASSUME NEW a \in XSLTAssertion, Shaped(a)
  PROVE  /\ XSLT!IsError(a) => KindOf(a) = "error"
         /\ a.type \in XSLT!Texts \cup XSLT!Raw \cup Nests => KindOf(a) = a.type /\ ~XSLT!IsError(a)
         /\ ~XSLT!IsError(a) /\ a.type \notin XSLT!Texts \cup XSLT!Raw \cup Nests => KindOf(a) = "skip"
<1>1. a.type \in XSLT!Groups => a.children # <<>>
  BY BelowToo
<1>2. XSLT!IsError(a) <=> a.type \in {"error", "assert-serialization-error"}
  BY DEF XSLT!IsError
<1> QED BY <1>1, <1>2, KindsApart DEF KindOf, Nests

\* What holds nothing typed is emitted as a check without a RawCheck.
LEMMA RawFree == \A a \in XSLTAssertion : NoRaw(a) => ~RawIn(a)
<1> DEFINE P == {a \in XSLTAssertion : NoRaw(a) => ~RawIn(a)}
<1>1. ASSUME NEW a \in XSLTAssertion, ToSet(a.children) \subseteq P PROVE a \in P
  <2>1. ASSUME NoRaw(a), RawIn(a) PROVE FALSE
    <3>1. \/ KindOf(a) \in XSLT!Raw
          \/ KindOf(a) \in {"all-of", "any-of"} /\ \E b \in ToSet(a.children) : RawIn(b)
      BY <2>1, RawInIs
    <3>2. a.type \notin XSLT!Raw /\ \A c \in ToSet(a.children) : NoRaw(c)
      BY <2>1, BelowToo DEF NoRaw
    <3>3. KindOf(a) \notin XSLT!Raw
      BY <3>2, KindsApart DEF KindOf
    <3> QED BY <1>1, <3>1, <3>2, <3>3
  <2> QED BY <2>1
<1>2. XSLTAssertion \subseteq P
  <2> HIDE DEF P
  <2> QED BY <1>1, XSLTInd
<1> QED BY <1>2

\* What holds no messages says the same with the messages beside it as without.
LEMMA Unsaid ==
  ASSUME NEW o
  PROVE  \A a \in XSLTAssertion : NoTalk(a) /\ NoRaw(a) => (Says(a, "unsaid", o) <=> Says(a, "text", o))
<1> DEFINE P == {a \in XSLTAssertion : NoTalk(a) /\ NoRaw(a) => (Says(a, "unsaid", o) <=> Says(a, "text", o))}
<1>1. ASSUME NEW a \in XSLTAssertion, ToSet(a.children) \subseteq P, NoTalk(a), NoRaw(a)
      PROVE  Says(a, "unsaid", o) <=> Says(a, "text", o)
  <2>1. /\ a.type \in XSLT!TypesIn(a)
        /\ \A c \in ToSet(a.children) : NoTalk(c) /\ NoRaw(c)
    BY <1>1, BelowToo
  <2>2. \A c \in ToSet(a.children) : Says(c, "unsaid", o) <=> Says(c, "text", o)
    BY <1>1, <2>1
  <2>3. a.type # "assert-message" /\ a.type \notin XSLT!Raw
    BY <1>1, <2>1 DEF NoTalk, NoRaw
  <2>4. KindOf(a) \in {"error", "skip", "all-of", "any-of", "not"} \cup XSLT!Texts
    BY <2>3, KindsApart DEF KindOf
  <2>5. CASE KindOf(a) = "error"
    BY <2>5, SaysIs
  <2>6. CASE KindOf(a) = "skip"
    BY <2>6, SaysIs
  <2>7. CASE KindOf(a) = "all-of"
    BY <2>2, <2>7, SaysIs
  <2>8. CASE KindOf(a) = "any-of"
    BY <2>2, <2>8, SaysIs
  <2>9. CASE KindOf(a) = "not"
    BY <2>2, <2>9, SaysIs
  <2>10. CASE KindOf(a) \in XSLT!Texts
    BY <2>10, SaysIs
  <2> QED BY <2>4, <2>5, <2>6, <2>7, <2>8, <2>9, <2>10
<1>2. \A a \in XSLTAssertion : ToSet(a.children) \subseteq P => a \in P
  BY <1>1
<1>3. XSLTAssertion \subseteq P
  <2> HIDE DEF P
  <2> QED BY <1>2, XSLTInd
<1> QED BY <1>3

\* Where nothing is typed, the check of a text says what the assertion does, but
\* for what it passes over.
LEMMA SaysText ==
  ASSUME NEW o, o.error = "", NEW f, XSLTReads(f, o)
  PROVE  \A a \in XSLTAssertion :
           Shaped(a) /\ NoRaw(a) => /\ f[a] => Says(a, "text", o)
                                    /\ XSLT!Checked(a) /\ Says(a, "text", o) => f[a]
<1> DEFINE Good(a) == /\ (f[a] => Says(a, "text", o))
                      /\ (XSLT!Checked(a) /\ Says(a, "text", o) => f[a])
           P == {a \in XSLTAssertion : Shaped(a) /\ NoRaw(a) => Good(a)}
<1>1. ASSUME NEW a \in XSLTAssertion, ToSet(a.children) \subseteq P, Shaped(a), NoRaw(a)
      PROVE  Good(a)
  <2>1. \A c \in ToSet(a.children) : Good(c) /\ (XSLT!Checked(a) => XSLT!Checked(c)) /\ ~RawIn(c)
    <3> HIDE DEF Good
    <3> QED BY <1>1, BelowToo, RawFree
  <2>2. f[a] = XSLTAcceptsOf(f, a, o)
    BY DEF XSLTReads
  <2>3. a.type \notin XSLT!Raw
    BY <1>1, BelowToo DEF NoRaw
  <2>e. XSLT!IsError(a) <=> a.type \in {"error", "assert-serialization-error"}
    BY DEF XSLT!IsError
  <2>4. CASE XSLT!IsError(a)
    <3>1. ~f[a]
      BY <2>2, <2>4, <2>e DEF XSLTAcceptsOf
    <3>2. ~Says(a, "text", o)
      BY <1>1, <2>4, ShapedKind, SaysIs
    <3> QED BY <3>1, <3>2
  <2>5. CASE a.type \in XSLT!Texts
    <3>1. f[a] <=> a.what \in o.holds
      BY <2>2, <2>5, <2>e, KindsApart DEF XSLTAcceptsOf
    <3>2. Says(a, "text", o) <=> a.what \in o.holds
      BY <1>1, <2>5, ShapedKind, SaysIs
    <3> QED BY <3>1, <3>2
  <2>6. CASE a.type = "all-of"
    <3>1. f[a] <=> \A c \in ToSet(a.children) : f[c]
      BY <2>2, <2>6, <2>e DEF XSLTAcceptsOf
    <3>2. Says(a, "text", o) <=> \A c \in ToSet(a.children) : Says(c, "text", o)
      BY <1>1, <2>6, ShapedKind, SaysIs DEF Nests
    <3> QED BY <2>1, <3>1, <3>2
  <2>7. CASE a.type = "any-of"
    <3>1. f[a] <=> \E c \in ToSet(a.children) : f[c]
      BY <2>2, <2>7, <2>e DEF XSLTAcceptsOf
    <3>2. Says(a, "text", o) <=> \E c \in ToSet(a.children) : Says(c, "text", o)
      BY <1>1, <2>7, ShapedKind, SaysIs DEF Nests
    <3> QED BY <2>1, <3>1, <3>2
  <2>8. CASE a.type = "not"
    <3>1. f[a] <=> \A c \in ToSet(a.children) : ~f[c]
      BY <2>2, <2>8, <2>e DEF XSLTAcceptsOf
    <3>2. Says(a, "text", o) <=> \A c \in ToSet(a.children) : ~Says(c, "text", o)
      BY <1>1, <2>8, ShapedKind, SaysIs DEF Nests
    <3>3. XSLT!Checked(a)
      BY <1>1, <2>8, BelowToo
    <3> QED BY <2>1, <3>1, <3>2, <3>3
  <2>9. CASE a.type = "assert-message"
    <3>1. f[a] <=> \A c \in ToSet(a.children) : f[c]
      BY <2>2, <2>9, <2>e DEF XSLTAcceptsOf
    <3>2. Says(a, "text", o) <=> \A c \in ToSet(a.children) : Says(c, IF RawIn(c) THEN "raw" ELSE "text", o)
      BY <1>1, <2>9, ShapedKind, SaysIs DEF Nests
    <3> QED BY <2>1, <3>1, <3>2
  <2>10. CASE ~XSLT!IsError(a) /\ a.type \notin XSLT!Texts \cup XSLT!Raw \cup Nests
    <3>1. Says(a, "text", o)
      BY <1>1, <2>10, ShapedKind, SaysIs
    <3>2. ~XSLT!Checked(a)
      BY <2>10, BelowToo, KindsApart DEF Nests
    <3> QED BY <3>1, <3>2
  <2> QED BY <2>3, <2>4, <2>5, <2>6, <2>7, <2>8, <2>9, <2>10 DEF Nests
<1>2. \A a \in XSLTAssertion : ToSet(a.children) \subseteq P => a \in P
  <2> HIDE DEF Good
  <2> QED BY <1>1
<1>3. XSLTAssertion \subseteq P
  <2> HIDE DEF P
  <2> QED BY <1>2, XSLTInd
<1> QED BY <1>3

\* Where everything is typed, the RawCheck says what the assertion does.
LEMMA SaysTyped ==
  ASSUME NEW o, o.error = "", NEW f, XSLTReads(f, o)
  PROVE  \A a \in XSLTAssertion : Shaped(a) /\ AllRaw(a) => RawIn(a) /\ (Says(a, "raw", o) <=> f[a])
<1> DEFINE Good(a) == RawIn(a) /\ (Says(a, "raw", o) <=> f[a])
           P == {a \in XSLTAssertion : Shaped(a) /\ AllRaw(a) => Good(a)}
<1>1. ASSUME NEW a \in XSLTAssertion, ToSet(a.children) \subseteq P, Shaped(a), AllRaw(a)
      PROVE  Good(a)
  <2>1. \A c \in ToSet(a.children) : Good(c)
    <3> HIDE DEF Good
    <3> QED BY <1>1, BelowToo
  <2>2. f[a] = XSLTAcceptsOf(f, a, o)
    BY DEF XSLTReads
  <2>3. a.type \in XSLT!Raw \cup {"all-of", "any-of"}
    BY <1>1, BelowToo DEF AllRaw
  <2>4. KindOf(a) = a.type
    BY <1>1, <2>3, ShapedKind DEF Nests
  <2>5. a.type \in {"all-of", "any-of"} => ToSet(a.children) # {}
    BY <1>1, BelowToo, KindsApart
  <2>6. RawIn(a)
    <3>1. /\ a.type \in XSLT!Raw => RawIn(a)
          /\ a.type \in {"all-of", "any-of"} /\ (\E b \in ToSet(a.children) : RawIn(b)) => RawIn(a)
      BY <2>4, RawInIs
    <3>2. \A c \in ToSet(a.children) : RawIn(c)
      BY <2>1
    <3> HIDE DEF Good
    <3> QED BY <2>3, <2>5, <3>1, <3>2
  <2>e. XSLT!IsError(a) <=> a.type \in {"error", "assert-serialization-error"}
    BY DEF XSLT!IsError
  <2>7. CASE a.type \in XSLT!Raw
    <3>1. f[a] <=> a.what \in o.holds
      BY <2>2, <2>7, <2>e, KindsApart DEF XSLTAcceptsOf
    <3> QED BY <2>4, <2>6, <2>7, <3>1, SaysRaw
  <2>8. CASE a.type = "all-of"
    <3>1. f[a] <=> \A c \in ToSet(a.children) : f[c]
      BY <2>2, <2>8, <2>e DEF XSLTAcceptsOf
    <3>2. Says(a, "raw", o) <=> \A b \in ToSet(a.children) : RawIn(b) => Says(b, "raw", o)
      BY <2>4, <2>6, <2>8, SaysRaw
    <3> QED BY <2>1, <2>6, <3>1, <3>2
  <2>9. CASE a.type = "any-of"
    <3>1. f[a] <=> \E c \in ToSet(a.children) : f[c]
      BY <2>2, <2>9, <2>e DEF XSLTAcceptsOf
    <3>2. Says(a, "raw", o) <=> \E b \in ToSet(a.children) : Says(b, IF RawIn(b) THEN "raw" ELSE "nothing", o)
      BY <2>4, <2>6, <2>9, SaysRaw
    <3> QED BY <2>1, <2>6, <3>1, <3>2
  <2> QED BY <2>3, <2>7, <2>8, <2>9
<1>2. \A a \in XSLTAssertion : ToSet(a.children) \subseteq P => a \in P
  <2> HIDE DEF Good
  <2> QED BY <1>1
<1>3. XSLTAssertion \subseteq P
  <2> HIDE DEF P
  <2> QED BY <1>2, XSLTInd
<1> QED BY <1>3

\* A view tells of an assertion what it accepts, but for what the check passes over.
Told(c, w, f, o) == /\ f[c] => Says(c, w, o)
                    /\ XSLT!Checked(c) /\ Says(c, w, o) => f[c]

\* Which view tells of a child, by what is in it.
LEMMA ChildTold ==
  ASSUME NEW o, o.error = "", NEW f, XSLTReads(f, o), NEW c \in XSLTAssertion, Shaped(c)
  PROVE  /\ NoRaw(c) => ~RawIn(c) /\ Told(c, "text", f, o)
         /\ NoRaw(c) /\ NoTalk(c) => Told(c, "unsaid", f, o)
         /\ AllRaw(c) => RawIn(c) /\ Told(c, "raw", f, o)
<1>1. NoRaw(c) => ~RawIn(c) /\ Told(c, "text", f, o)
  BY RawFree, SaysText DEF Told
<1>2. NoRaw(c) /\ NoTalk(c) => Told(c, "unsaid", f, o)
  BY <1>1, Unsaid DEF Told
<1>3. AllRaw(c) => RawIn(c) /\ Told(c, "raw", f, o)
  BY SaysTyped DEF Told
<1> QED BY <1>1, <1>2, <1>3

\* The shapes Untangled allows.
LEMMA UntangledIs ==
  ASSUME NEW o, NEW a \in XSLTAssertion, XSLT!Untangled(a, o)
  PROVE  \/ /\ NoRaw(a) /\ \A c \in ToSet(a.children) : NoRaw(c)
            /\ a.type = "assert-result-document" => \A c \in ToSet(a.children) : NoTalk(c)
         \/ /\ a.type \in XSLT!Raw \cup {"any-of", "assert-message"}
            /\ \A c \in ToSet(a.children) : AllRaw(c) \/ (NoRaw(c) /\ NoTalk(c))
            /\ o.raw \/ a.type = "assert-message"
<1>1. XSLT!ToSet(a.children) = ToSet(a.children)
  BY SameHelpers
<1>2. \/ /\ NoRaw(a)
         /\ a.type = "assert-result-document" => NoTalk(a)
      \/ /\ a.type \in XSLT!Raw \cup {"any-of", "assert-message"}
         /\ \A c \in ToSet(a.children) : AllRaw(c) \/ (NoRaw(c) /\ NoTalk(c))
         /\ o.raw \/ a.type = "assert-message"
  BY <1>1 DEF XSLT!Untangled, NoRaw, NoTalk, AllRaw
<1> QED BY <1>2, BelowToo

\* The check for a part, which is no all-of, holds of what the part accepts, and
\* only of that if nothing in it is passed over.
LEMMA PartHolds ==
  ASSUME NEW o, o.error = "", NEW f, XSLTReads(f, o), NEW a \in XSLTAssertion,
         Shaped(a), XSLT!Untangled(a, o), a.type # "all-of",
         NEW k \in ToSet(XSLT!EmitAssertion[a]), k # XSLT!Skip
  PROVE  /\ f[a] => XSLT!Holds(k, o)
         /\ (\A c \in ToSet(a.children) : XSLT!Checked(c)) /\ XSLT!Holds(k, o) => f[a]
<1> DEFINE kids == ToSet(a.children)
           free == {c \in ToSet(a.children) : ~XSLT!IsError(c)}
           Good == /\ (f[a] => XSLT!Holds(k, o))
                   /\ ((\A c \in kids : XSLT!Checked(c)) /\ XSLT!Holds(k, o) => f[a])
<1>0. f[a] = XSLTAcceptsOf(f, a, o)
  BY DEF XSLTReads
<1>e. XSLT!IsError(a) <=> a.type \in {"error", "assert-serialization-error"}
  BY DEF XSLT!IsError
<1>s. \A c \in kids : c \in XSLTAssertion /\ Shaped(c)
  BY BelowToo
<1>t. \A c \in kids : /\ NoRaw(c) => ~RawIn(c) /\ Told(c, "text", f, o)
                      /\ NoRaw(c) /\ NoTalk(c) => Told(c, "unsaid", f, o)
                      /\ AllRaw(c) => RawIn(c) /\ Told(c, "raw", f, o)
  BY <1>s, ChildTold
<1>k. a.type \in XSLT!Groups => a.children # <<>>
  BY BelowToo
<1>r. NoRaw(a) => a.type \notin XSLT!Raw
  BY BelowToo DEF NoRaw
<1>g. ASSUME a.type \in {"assert-message", "not", "assert-result-document"}
      PROVE  k.kind = a.type /\ ToSet(k.checks) = {XSLT!EmitCheck[c] : c \in kids}
  <2>1. a.children # <<>>
    BY <1>g, <1>k, KindsApart
  <2>2. \E j : /\ ToSet(XSLT!EmitAssertion[a]) = {j} /\ j.kind = a.type
               /\ ToSet(j.checks) = {XSLT!EmitCheck[c] : c \in ToSet(a.children)}
    BY <1>g, <2>1, EmitSets
  <2> QED BY <2>2
<1>1. CASE XSLT!IsError(a)
  BY <1>1, EmitSets
<1>2. CASE a.type \in XSLT!Texts \cup XSLT!Raw
  <2>1. k.kind = a.type /\ k.what = a.what
    BY <1>2, EmitSets
  <2>2. f[a] <=> a.what \in o.holds
    BY <1>0, <1>2, <1>e, KindsApart DEF XSLTAcceptsOf
  <2>3. k.kind \notin XSLT!Groups
    BY <1>2, <2>1, KindsApart
  <2>4. CASE a.type \in XSLT!Texts
    <3>1. XSLT!Holds(k, o) <=> k.what \in o.holds
      BY <2>1, <2>3, <2>4, HoldsIs
    <3> QED BY <2>1, <2>2, <3>1
  <2>5. CASE a.type \in XSLT!Raw
    <3>1. XSLT!Holds(k, o) <=> (o.raw => k.what \in o.holds)
      BY <2>1, <2>3, <2>5, HoldsIs
    <3>2. o.raw
      BY <1>r, <2>5, UntangledIs, KindsApart
    <3> QED BY <2>1, <2>2, <3>1, <3>2
  <2> QED BY <1>2, <2>4, <2>5
<1>3. ASSUME a.type = "any-of" PROVE Good
  <2>1. k.kind = "any-of" /\ ToSet(k.checks) = {XSLT!EmitCheck[c] : c \in free}
    BY <1>3, EmitSets
  <2>2. f[a] <=> \E c \in free : f[c]
    <3>1. f[a] <=> \E c \in kids : f[c]
      BY <1>0, <1>3, <1>e DEF XSLTAcceptsOf
    <3>2. \A c \in kids : XSLT!IsError(c) => ~f[c]
      <4>1. \A c \in kids : f[c] = XSLTAcceptsOf(f, c, o)
        BY <1>s DEF XSLTReads
      <4> QED BY <4>1 DEF XSLTAcceptsOf, XSLT!IsError
    <3> QED BY <3>1, <3>2
  <2> DEFINE typed == o.raw /\ \E b \in free : RawIn(b)
             view(b) == IF ~typed THEN "text" ELSE IF RawIn(b) THEN "raw" ELSE "unsaid"
  <2>3. XSLT!Holds(k, o) <=> \E b \in free : Says(b, view(b), o)
    BY <2>1, HoldsIs
  <2>4. \A b \in free : Told(b, view(b), f, o)
    <3>1. CASE \A c \in kids : NoRaw(c)
      BY <1>t, <3>1
    <3>2. CASE o.raw /\ \A c \in kids : AllRaw(c) \/ (NoRaw(c) /\ NoTalk(c))
      BY <1>t, <3>2
    <3> QED BY <1>3, <3>1, <3>2, UntangledIs
  <2> HIDE DEF view
  <2> QED BY <2>2, <2>3, <2>4 DEF Told
<1>4. ASSUME a.type = "assert-message" PROVE Good
  <2>1. k.kind = "assert-message" /\ ToSet(k.checks) = {XSLT!EmitCheck[c] : c \in kids}
    BY <1>4, <1>g
  <2>2. f[a] <=> \A c \in kids : f[c]
    BY <1>0, <1>4, <1>e DEF XSLTAcceptsOf
  <2> DEFINE view(b) == IF RawIn(b) THEN "raw" ELSE "text"
  <2>3. XSLT!Holds(k, o) <=> \A b \in kids : Says(b, view(b), o)
    BY <2>1, HoldsIs
  <2>4. \A b \in kids : Told(b, view(b), f, o)
    BY <1>t, UntangledIs
  <2> HIDE DEF view
  <2> QED BY <2>2, <2>3, <2>4 DEF Told
<1>5. ASSUME a.type = "not" PROVE Good
  <2>1. k.kind = "not" /\ ToSet(k.checks) = {XSLT!EmitCheck[c] : c \in kids}
    BY <1>5, <1>g
  <2>2. f[a] <=> \A c \in kids : ~f[c]
    BY <1>0, <1>5, <1>e DEF XSLTAcceptsOf
  <2>3. XSLT!Holds(k, o) <=> \A b \in kids : ~Says(b, "text", o)
    BY <2>1, HoldsIs
  <2>4. \A b \in kids : Told(b, "text", f, o)
    BY <1>5, <1>t, UntangledIs, KindsApart
  <2>5. \A b \in kids : XSLT!Checked(b)
    BY <1>5, BelowToo
  <2> QED BY <2>2, <2>3, <2>4, <2>5 DEF Told
<1>6. ASSUME a.type = "assert-result-document" PROVE Good
  <2>1. k.kind = "assert-result-document" /\ ToSet(k.checks) = {XSLT!EmitCheck[c] : c \in kids}
    BY <1>6, <1>g
  <2>2. f[a] <=> \A c \in kids : f[c]
    BY <1>0, <1>6, <1>e DEF XSLTAcceptsOf
  <2> DEFINE view(b) == IF DocIn(b) THEN "unsaid" ELSE "text"
  <2>3. XSLT!Holds(k, o) <=> \A b \in kids : Says(b, view(b), o)
    BY <2>1, HoldsIs
  <2>4. \A b \in kids : NoRaw(b) /\ NoTalk(b)
    BY <1>6, UntangledIs, KindsApart
  <2>5. \A b \in kids : Told(b, view(b), f, o)
    BY <1>t, <2>4
  <2> HIDE DEF view
  <2> QED BY <2>2, <2>3, <2>5 DEF Told
<1>7. CASE a.type \notin XSLT!Texts \cup XSLT!Raw \cup XSLT!Groups /\ ~XSLT!IsError(a)
  BY <1>7, EmitSets
<1>8. Good
  <2> HIDE DEF Good
  <2>1. CASE XSLT!IsError(a)
    BY <1>1, <2>1 DEF Good
  <2>2. CASE a.type \in XSLT!Texts \cup XSLT!Raw
    BY <1>2, <2>2 DEF Good
  <2>3. CASE a.type \notin XSLT!Texts \cup XSLT!Raw \cup XSLT!Groups /\ ~XSLT!IsError(a)
    BY <1>7, <2>3 DEF Good
  <2> QED BY <1>3, <1>4, <1>5, <1>6, <2>1, <2>2, <2>3, KindsApart
<1> QED BY <1>8

-------------------------------------------------------------------------------
(* A row of xslt30 follows its catalog *)

\* The checks that ask something, and what is accepted where no error is, are
\* those of the parts.
RealChecks(a) == ToSet(XSLT!EmitAssertion[a]) \ {XSLT!Skip}

\* They are so for every assertion.
LEMMA PartsJoin ==
  ASSUME NEW o, o.error = "", NEW f, XSLTReads(f, o)
  PROVE  \A a \in XSLTAssertion : /\ RealChecks(a) = UNION {RealChecks(b) : b \in XSLT!Parts[a]}
                                  /\ f[a] <=> \A b \in XSLT!Parts[a] : f[b]
<1> DEFINE Good(a) == /\ RealChecks(a) = UNION {RealChecks(b) : b \in XSLT!Parts[a]}
                      /\ (f[a] <=> \A b \in XSLT!Parts[a] : f[b])
           P == {a \in XSLTAssertion : Good(a)}
<1>1. ASSUME NEW a \in XSLTAssertion, ToSet(a.children) \subseteq P PROVE a \in P
  <2>1. XSLT!Parts[a] = IF a.type = "all-of" THEN UNION {XSLT!Parts[c] : c \in ToSet(a.children)} ELSE {a}
    BY XSLTParts
  <2>2. ASSUME a.type = "all-of" PROVE Good(a)
    <3> DEFINE U == UNION {ToSet(XSLT!EmitAssertion[c]) : c \in ToSet(a.children)}
               Q == UNION {XSLT!Parts[c] : c \in ToSet(a.children)}
    <3>1. ToSet(XSLT!EmitAssertion[a]) = IF U \subseteq {XSLT!Skip} THEN U ELSE U \ {XSLT!Skip}
      BY <2>2, EmitSets
    <3>2. RealChecks(a) = U \ {XSLT!Skip}
      <4> HIDE DEF U
      <4> QED BY <3>1 DEF RealChecks
    <3>3. U \ {XSLT!Skip} = UNION {RealChecks(c) : c \in ToSet(a.children)}
      <4> DEFINE k == XSLT!Skip
                 S(c) == ToSet(XSLT!EmitAssertion[c])
      <4>1. \A c \in ToSet(a.children) : RealChecks(c) = S(c) \ {k}
        BY DEF RealChecks
      <4>2. U = UNION {S(c) : c \in ToSet(a.children)}
        OBVIOUS
      <4> HIDE DEF U, S, k
      <4>3. ASSUME NEW x PROVE x \in U \ {k} <=> \E c \in ToSet(a.children) : x \in RealChecks(c)
        BY <4>1, <4>2
      <4>4. U \ {k} = UNION {RealChecks(c) : c \in ToSet(a.children)}
        BY <4>3
      <4> QED BY <4>4 DEF k
    <3>4. \A c \in ToSet(a.children) : RealChecks(c) = UNION {RealChecks(b) : b \in XSLT!Parts[c]}
      BY <1>1
    <3>q. \A b : b \in Q <=> \E c \in ToSet(a.children) : b \in XSLT!Parts[c]
      OBVIOUS
    <3> HIDE DEF U, Q
    <3>5. UNION {RealChecks(c) : c \in ToSet(a.children)} = UNION {RealChecks(b) : b \in Q}
      <4>1. ASSUME NEW c \in ToSet(a.children), NEW x \in RealChecks(c) PROVE \E b \in Q : x \in RealChecks(b)
        <5> DEFINE W == UNION {RealChecks(b) : b \in XSLT!Parts[c]}
        <5>1. \A y \in W : \E b \in XSLT!Parts[c] : y \in RealChecks(b)
          OBVIOUS
        <5>2. RealChecks(c) = W
          BY <3>4
        <5> HIDE DEF W
        <5>3. PICK b \in XSLT!Parts[c] : x \in RealChecks(b)
          BY <4>1, <5>1, <5>2
        <5> QED BY <3>q, <5>3
      <4>2. ASSUME NEW b \in Q, NEW x \in RealChecks(b) PROVE \E c \in ToSet(a.children) : x \in RealChecks(c)
        <5>1. PICK c \in ToSet(a.children) : b \in XSLT!Parts[c]
          BY <3>q
        <5> QED BY <3>4, <5>1
      <4> DEFINE L == UNION {RealChecks(c) : c \in ToSet(a.children)}
                 R == UNION {RealChecks(b) : b \in Q}
      <4>3. /\ \A x : x \in L <=> \E c \in ToSet(a.children) : x \in RealChecks(c)
            /\ \A x : x \in R <=> \E b \in Q : x \in RealChecks(b)
        OBVIOUS
      <4> HIDE DEF L, R
      <4>4. L = R
        BY <4>1, <4>2, <4>3
      <4> QED BY <4>4 DEF L, R
    <3>6. XSLT!Parts[a] = Q
      BY <2>1, <2>2 DEF Q
    <3>7. f[a] <=> \A c \in ToSet(a.children) : f[c]
      <4>1. f[a] = XSLTAcceptsOf(f, a, o)
        BY DEF XSLTReads
      <4> QED BY <2>2, <4>1 DEF XSLTAcceptsOf, XSLT!IsError
    <3>8. \A c \in ToSet(a.children) : f[c] <=> \A b \in XSLT!Parts[c] : f[b]
      BY <1>1
    <3>9. f[a] <=> \A b \in Q : f[b]
      BY <3>7, <3>8, <3>q
    <3> QED BY <3>2, <3>3, <3>5, <3>6, <3>9
  <2>3. ASSUME a.type # "all-of" PROVE Good(a)
    <3>1. XSLT!Parts[a] = {a}
      BY <2>1, <2>3
    <3>2. UNION {RealChecks(b) : b \in {a}} = RealChecks(a)
      OBVIOUS
    <3> QED BY <3>1, <3>2
  <2> HIDE DEF Good
  <2> QED BY <2>2, <2>3
<1>2. XSLTAssertion \subseteq P
  <2> HIDE DEF P
  <2> QED BY <1>1, XSLTInd
<1> QED BY <1>2

\* An error is accepted only where the result names one that accepts it.
LEMMA XSLTErrorNamed ==
  ASSUME NEW o, o.error # "", NEW f, XSLTReads(f, o)
  PROVE  \A a \in XSLTAssertion :
           (\A b \in XSLT!Within[a] : b.type \in XSLT!Groups <=> b.children # <<>>) /\ f[a]
             => \E b \in XSLT!Within[a] : XSLT!IsError(b) /\ f[b]
<1> DEFINE Full(a) == \A b \in XSLT!Within[a] : b.type \in XSLT!Groups <=> b.children # <<>>
           Named(a) == \E b \in XSLT!Within[a] : XSLT!IsError(b) /\ f[b]
           P == {a \in XSLTAssertion : Full(a) /\ f[a] => Named(a)}
<1>1. ASSUME NEW a \in XSLTAssertion, ToSet(a.children) \subseteq P, Full(a), f[a]
      PROVE  Named(a)
  <2>0. XSLTAcceptsOf(f, a, o)
    BY <1>1 DEF XSLTReads
  <2>1. /\ a \in XSLT!Within[a]
        /\ \A c \in ToSet(a.children) : c \in XSLT!Within[a] /\ XSLT!Within[c] \subseteq XSLT!Within[a]
    BY XSLTInside
  <2>2. ASSUME NEW c \in ToSet(a.children), f[c] PROVE Named(a)
    <3>1. Full(c)
      BY <1>1, <2>1, <2>2
    <3>2. Named(c)
      <4> HIDE DEF Full, Named
      <4> QED BY <1>1, <2>2, <3>1
    <3> QED BY <2>1, <2>2, <3>2
  <2>3. CASE XSLT!IsError(a)
    BY <1>1, <2>1, <2>3
  <2>4. CASE a.type = "all-of"
    <3>1. a.children # <<>>
      BY <1>1, <2>1, <2>4, KindsApart
    <3>2. ToSet(a.children) # {}
      BY <3>1, XSLTTrees, Places
    <3>3. \A c \in ToSet(a.children) : f[c]
      BY <2>0, <2>4 DEF XSLTAcceptsOf, XSLT!IsError
    <3> HIDE DEF Named
    <3> QED BY <2>2, <3>2, <3>3
  <2>5. CASE a.type = "any-of"
    <3>1. \E c \in ToSet(a.children) : f[c]
      BY <2>0, <2>5 DEF XSLTAcceptsOf, XSLT!IsError
    <3> HIDE DEF Named
    <3> QED BY <2>2, <3>1
  <2>6. CASE ~XSLT!IsError(a) /\ a.type # "all-of" /\ a.type # "any-of"
    BY <2>0, <2>6 DEF XSLTAcceptsOf
  <2> QED BY <2>3, <2>4, <2>5, <2>6
<1>2. \A a \in XSLTAssertion : ToSet(a.children) \subseteq P => a \in P
  <2> HIDE DEF Full, Named
  <2> QED BY <1>1
<1>3. XSLTAssertion \subseteq P
  <2> HIDE DEF P
  <2> QED BY <1>2, XSLTInd
<1> QED BY <1>3

\* What the flags and checks of a row are that has one assertion.
AllErrors(a) == XSLT!IsError(a) \/ (a.type = "any-of" /\ \A c \in ToSet(a.children) : XSLT!IsError(c))

\* The row's flags are those of its assertion, and so are its checks.
LEMMA OneAssertion ==
  ASSUME NEW a \in XSLTAssertion
  PROVE  LET as == <<a>> IN
         /\ XSLT!ExpectError(as) <=> AllErrors(a)
         /\ XSLT!ErrorCode(as) # "" => AllErrors(a)
         /\ \A e : e \in XSLT!AcceptErrors(as) <=>
                     /\ ~AllErrors(a) /\ a.type = "any-of" /\ e # ""
                     /\ \E c \in ToSet(a.children) : XSLT!IsError(c) /\ c.what = e
         /\ XSLT!ClassifyUnsupportedAssertions(as) = "" /\ ~AllErrors(a) =>
              ToSet(XSLT!EmitAssertions(as)) = RealChecks(a)
<1> DEFINE as == <<a>>
<1>1. Len(as) = 1 /\ as[1] = a /\ DOMAIN as = {1}
  OBVIOUS
<1> HIDE DEF as
<1>2. XSLT!ExpectError(as) <=> AllErrors(a)
  BY <1>1, SameHelpers DEF XSLT!ExpectError, AllErrors
<1>3. XSLT!ErrorCode(as) # "" => AllErrors(a)
  BY <1>2 DEF XSLT!ErrorCode
<1>4. ToSet(XSLT!Errors(a)) = {c \in ToSet(a.children) : XSLT!IsError(c)}
  <2> DEFINE W == {c \in ToSet(a.children) : XSLT!IsError(c)}
  <2>1. XSLT!Errors(a) = Among(a.children, W)
    BY SameHelpers DEF XSLT!Errors
  <2>2. IsList(a.children)
    BY XSLTTrees
  <2>3. ToSet(a.children) \cap W = W
    OBVIOUS
  <2> HIDE DEF W
  <2>4. ToSet(Among(a.children, W)) = ToSet(a.children) \cap W
    BY <2>2, AmongIs
  <2> QED BY <2>1, <2>3, <2>4 DEF W
<1>5. \A e : e \in XSLT!AcceptErrors(as) <=>
               /\ ~AllErrors(a) /\ a.type = "any-of" /\ e # ""
               /\ \E c \in ToSet(a.children) : XSLT!IsError(c) /\ c.what = e
  <2>1. XSLT!ToSet(XSLT!Errors(a)) = {c \in ToSet(a.children) : XSLT!IsError(c)}
    BY <1>4, SameHelpers
  <2>2. XSLT!AcceptErrors(as) =
          IF ~AllErrors(a) /\ a.type = "any-of" THEN {e.what : e \in XSLT!ToSet(XSLT!Errors(a))} \ {""} ELSE {}
    BY <1>1, <1>2 DEF XSLT!AcceptErrors
  <2> QED BY <2>1, <2>2
<1>6. ASSUME XSLT!ClassifyUnsupportedAssertions(as) = "", ~AllErrors(a)
      PROVE  ToSet(XSLT!EmitAssertions(as)) = RealChecks(a)
  <2> DEFINE e == XSLT!EmitAssertion
             all == FlattenSeq(Mapped(e, as))
             U == ToSet(e[a])
  <2>1. PICK C : \A c \in XSLTAssertion : e[c] \in Seq(C)
    BY XSLTEmit
  <2>2. IsList(as) /\ ToSet(as) = {a}
    <3>1. ToSet(as) = {a}
      BY <1>1 DEF ToSet
    <3>2. as \in Seq({a})
      BY DEF as
    <3> QED BY <3>1, <3>2 DEF IsList
  <2> HIDE DEF e
  <2>3. all \in Seq(C) /\ ToSet(all) = UNION {ToSet(e[x]) : x \in {a}}
    <3>1. \A x \in ToSet(as) : e[x] \in Seq(C)
      BY <2>1, <2>2
    <3> QED BY <2>2, <3>1, FlatOf
  <2>4. UNION {ToSet(e[x]) : x \in {a}} = U
    OBVIOUS
  <2>5. XSLT!EmitAssertions(as) = XSLT!DropSkips(all)
    BY SameHelpers DEF XSLT!EmitAssertions, Mapped, e
  <2> HIDE DEF all, U
  <2>6. ToSet(XSLT!EmitAssertions(as)) = IF U \subseteq {XSLT!Skip} THEN U ELSE U \ {XSLT!Skip}
    BY <2>3, <2>4, <2>5, DropSkipsIs
  <2>7. ToSet(XSLT!EmitAssertions(as)) # {XSLT!Skip}
    BY <1>2, <1>6, SameHelpers DEF XSLT!ClassifyUnsupportedAssertions
  <2>8. RealChecks(a) = U \ {XSLT!Skip}
    BY DEF RealChecks, U, e
  <2> QED BY <2>6, <2>7, <2>8
<1> QED BY <1>2, <1>3, <1>5, <1>6 DEF as

\* What Regular asks.
LEMMA RegularIs ==
  ASSUME NEW o, NEW a \in XSLTAssertion, XSLT!Regular(a, o)
  PROVE  /\ Shaped(a)
         /\ \A b \in XSLT!Within[a] : XSLT!IsError(b) =>
              b = a \/ /\ a.type = "any-of" /\ b \in ToSet(a.children)
                       /\ b.what # "" \/ AllErrors(a)
         /\ \A b \in XSLT!Parts[a] : XSLT!Untangled(b, o) /\ Shaped(b)
<1>1. Shaped(a)
  BY DEF XSLT!Regular, Shaped
<1>2. \A b \in XSLT!Within[a] : XSLT!IsError(b) =>
        b = a \/ /\ a.type = "any-of" /\ b \in ToSet(a.children)
                 /\ b.what # "" \/ AllErrors(a)
  <2>1. XSLT!ToSet(a.children) = ToSet(a.children) /\ (XSLT!ExpectError(<<a>>) <=> AllErrors(a))
    BY SameHelpers, OneAssertion
  <2> QED BY <2>1 DEF XSLT!Regular
<1>3. ASSUME NEW b \in XSLT!Parts[a] PROVE XSLT!Untangled(b, o) /\ Shaped(b)
  <2>1. XSLT!Within[b] \subseteq XSLT!Within[a]
    BY PartsWithin
  <2>2. Shaped(b)
    BY <1>1, <2>1 DEF Shaped
  <2> QED BY <2>2 DEF XSLT!Regular
<1> QED BY <1>1, <1>2, <1>3

\* A part in which nothing is passed over has a check of its own, unless it is an
\* error or has nothing but errors below it.
LEMMA PartChecked ==
  ASSUME NEW b \in XSLTAssertion, Shaped(b), ~AllErrors(b), b.type # "all-of",
         b.type \in XSLT!Texts \cup XSLT!Raw \cup XSLT!Groups
  PROVE  \E k \in ToSet(XSLT!EmitAssertion[b]) : k # XSLT!Skip
<1>1. b.type \in XSLT!Groups => b.children # <<>>
  BY BelowToo
<1>2. b.type = "any-of" => {c \in ToSet(b.children) : ~XSLT!IsError(c)} # {}
  BY DEF AllErrors
<1>3. \E k : ToSet(XSLT!EmitAssertion[b]) = {k} /\ k.kind = b.type
  <2>1. CASE b.type \in XSLT!Texts \cup XSLT!Raw
    BY <2>1, EmitSets
  <2>2. CASE b.type = "any-of"
    BY <1>2, <2>2, EmitSets
  <2>3. CASE b.type \in {"assert-message", "not", "assert-result-document"}
    <3>1. b.children # <<>>
      BY <1>1, <2>3, KindsApart
    <3> QED BY <2>3, <3>1, EmitSets
  <2> QED BY <2>1, <2>2, <2>3, KindsApart
<1>4. XSLT!Skip.kind = "skip"
  BY DEF XSLT!Skip, XSLT!Check
<1>5. b.type # "skip"
  BY KindsApart
<1> QED BY <1>3, <1>4, <1>5

\* A row with one assertion follows it.
LEMMA OneFollows ==
  ASSUME NEW a \in XSLTAssertion, NEW row, NEW o,
         row.assertions = <<a>>,
         row.expectError = XSLT!ExpectError(<<a>>),
         row.errorCode = XSLT!ErrorCode(<<a>>),
         row.acceptErrors = XSLT!AcceptErrors(<<a>>),
         row.checks = IF XSLT!ExpectError(<<a>>) THEN <<>> ELSE XSLT!EmitAssertions(<<a>>),
         XSLT!ClassifyUnsupportedAssertions(<<a>>) = ""
  PROVE  /\ XSLT!Passes(row, o) \/ XSLT!FairTo(row, o)
         /\ XSLT!Passes(row, o) => XSLT!StrictOn(row, o)
<1> DEFINE kids == ToSet(a.children)
<1>1. PICK f \in [XSLTAssertion -> BOOLEAN] :
           \A b \in XSLTAssertion : f[b] = XSLTAcceptsOf(f, b, o) /\ XSLT!Accepts(<<b>>, o) = f[b]
  BY XSLTAccepts
<1>r. XSLTReads(f, o)
  BY <1>1 DEF XSLTReads
<1>2. /\ row.expectError <=> AllErrors(a)
      /\ row.errorCode # "" => AllErrors(a)
      /\ \A e : e \in row.acceptErrors <=>
                  /\ ~AllErrors(a) /\ a.type = "any-of" /\ e # ""
                  /\ \E c \in kids : XSLT!IsError(c) /\ c.what = e
      /\ ~AllErrors(a) => ToSet(row.checks) = RealChecks(a)
  BY OneAssertion
<1>3. Len(row.assertions) = 1 /\ row.assertions[1] = a /\ XSLT!Accepts(row.assertions, o) = f[a]
  <2> DEFINE as == <<a>>
  <2>1. Len(as) = 1 /\ as[1] = a
    OBVIOUS
  <2>2. XSLT!Accepts(as, o) = f[a]
    BY <1>1
  <2>3. row.assertions = as
    OBVIOUS
  <2> HIDE DEF as
  <2> QED BY <2>1, <2>2, <2>3
<1>4. kids \subseteq XSLTAssertion
  BY XSLTTrees
<1>5. XSLT!ToSet(row.checks) = ToSet(row.checks)
  BY SameHelpers
<1>6. ASSUME XSLT!Regular(a, o), f[a] PROVE XSLT!Passes(row, o)
  <2>1. /\ Shaped(a)
        /\ \A b \in XSLT!Within[a] : XSLT!IsError(b) =>
             b = a \/ (a.type = "any-of" /\ b \in kids /\ (b.what # "" \/ AllErrors(a)))
        /\ \A b \in XSLT!Parts[a] : XSLT!Untangled(b, o) /\ Shaped(b)
    BY <1>6, RegularIs
  <2>2. CASE o.error # ""
    <3>1. \A b \in XSLT!Within[a] : b.type \in XSLT!Groups <=> b.children # <<>>
      BY <2>1 DEF Shaped
    <3>2. PICK b \in XSLT!Within[a] : XSLT!IsError(b) /\ f[b]
      BY <1>r, <1>6, <2>2, <3>1, XSLTErrorNamed
    <3>3. b \in XSLTAssertion
      BY <1>4, <2>1, <3>2
    <3>4. b.what \in {o.error, ""}
      <4>1. f[b] = XSLTAcceptsOf(f, b, o)
        BY <1>1, <3>3
      <4>2. XSLTAcceptsOf(f, b, o)
        BY <3>2, <4>1
      <4> QED BY <3>2, <4>2 DEF XSLTAcceptsOf, XSLT!IsError
    <3>5. row.expectError \/ o.error \in row.acceptErrors
      <4>1. CASE AllErrors(a)
        BY <1>2, <4>1
      <4>2. CASE ~AllErrors(a)
        <5>1. a.type = "any-of" /\ b \in kids /\ b.what # ""
          BY <2>1, <3>2, <4>2 DEF AllErrors
        <5>2. b.what = o.error
          BY <3>4, <5>1
        <5> QED BY <1>2, <2>2, <3>2, <4>2, <5>1, <5>2
      <4> QED BY <4>1, <4>2
    <3> QED BY <2>2, <3>5 DEF XSLT!Passes
  <2>3. CASE o.error = ""
    <3>1. ~AllErrors(a)
      <4>1. XSLTAcceptsOf(f, a, o) /\ \A c \in kids : f[c] = XSLTAcceptsOf(f, c, o)
        BY <1>1, <1>4, <1>6
      <4>2. ~XSLT!IsError(a)
        BY <2>3, <4>1 DEF XSLTAcceptsOf, XSLT!IsError
      <4>3. ASSUME a.type = "any-of" PROVE \E c \in kids : ~XSLT!IsError(c)
        <5>1. PICK c \in kids : f[c]
          BY <4>1, <4>2, <4>3 DEF XSLTAcceptsOf
        <5> QED BY <2>3, <4>1, <5>1 DEF XSLTAcceptsOf, XSLT!IsError
      <4> QED BY <4>2, <4>3 DEF AllErrors
    <3>2. /\ RealChecks(a) = UNION {RealChecks(b) : b \in XSLT!Parts[a]}
          /\ \A b \in XSLT!Parts[a] : f[b]
      BY <1>r, <1>6, <2>3, PartsJoin
    <3>3. ASSUME NEW k \in ToSet(row.checks) PROVE XSLT!Holds(k, o)
      <4> DEFINE W == UNION {RealChecks(b) : b \in XSLT!Parts[a]}
      <4>1. \A y \in W : \E b \in XSLT!Parts[a] : y \in RealChecks(b)
        OBVIOUS
      <4>2. k \in W
        BY <1>2, <3>1, <3>2
      <4> HIDE DEF W
      <4>3. PICK b \in XSLT!Parts[a] : k \in RealChecks(b)
        BY <4>1, <4>2
      <4>4. b \in XSLTAssertion /\ b.type # "all-of" /\ f[b] /\ XSLT!Untangled(b, o) /\ Shaped(b)
        BY <2>1, <3>2, PartsWithin
      <4>5. k \in ToSet(XSLT!EmitAssertion[b]) /\ k # XSLT!Skip
        BY <4>3 DEF RealChecks
      <4> QED BY <1>r, <2>3, <4>4, <4>5, PartHolds
    <3> QED BY <1>2, <1>5, <2>3, <3>1, <3>3 DEF XSLT!Passes
  <2> QED BY <2>2, <2>3
<1>7. ASSUME XSLT!Passes(row, o), XSLT!Regular(a, o), XSLT!WhollyChecked(a),
             ~(row.expectError /\ (o.error # "" \/ row.errorCode = "XTSE3430"))
      PROVE  f[a]
  <2>1. /\ Shaped(a)
        /\ \A b \in XSLT!Within[a] : XSLT!IsError(b) => b = a \/ (a.type = "any-of" /\ b \in kids)
        /\ \A b \in XSLT!Parts[a] : XSLT!Untangled(b, o) /\ Shaped(b)
    BY <1>7, RegularIs
  <2>2. CASE o.error # ""
    <3>1. o.error \in row.acceptErrors
      BY <1>7, <2>2 DEF XSLT!Passes
    <3>2. a.type = "any-of" /\ \E c \in kids : XSLT!IsError(c) /\ c.what = o.error
      BY <1>2, <3>1
    <3>3. PICK c \in kids : XSLT!IsError(c) /\ c.what = o.error
      BY <3>2
    <3>4. f[c]
      <4>1. f[c] = XSLTAcceptsOf(f, c, o)
        BY <1>1, <1>4
      <4>2. XSLTAcceptsOf(f, c, o)
        BY <2>2, <3>3 DEF XSLTAcceptsOf, XSLT!IsError
      <4> QED BY <4>1, <4>2
    <3>5. f[a] = XSLTAcceptsOf(f, a, o)
      BY <1>1
    <3> QED BY <3>2, <3>4, <3>5 DEF XSLTAcceptsOf, XSLT!IsError
  <2>3. CASE o.error = ""
    <3>1. row.errorCode # "XTSE3430"
      BY <1>2, <1>7
    <3>2. ~AllErrors(a) /\ \A k \in ToSet(row.checks) : XSLT!Holds(k, o)
      BY <1>2, <1>5, <1>7, <2>3, <3>1 DEF XSLT!Passes
    <3>3. \A k \in RealChecks(a) : XSLT!Holds(k, o)
      BY <1>2, <3>2
    <3>4. /\ RealChecks(a) = UNION {RealChecks(b) : b \in XSLT!Parts[a]}
          /\ (\A b \in XSLT!Parts[a] : f[b]) => f[a]
      BY <1>r, <2>3, PartsJoin
    <3>p. XSLT!Parts[a] = IF a.type = "all-of" THEN UNION {XSLT!Parts[c] : c \in kids} ELSE {a}
      BY XSLTParts
    <3>5. ASSUME NEW b \in XSLT!Parts[a] PROVE f[b]
      <4>1. /\ b \in XSLTAssertion /\ b \in XSLT!Within[a] /\ XSLT!Within[b] \subseteq XSLT!Within[a]
            /\ b.type # "all-of" /\ XSLT!Untangled(b, o) /\ Shaped(b)
        BY <2>1, PartsWithin
      <4>2. /\ b.type \in XSLT!Texts \cup XSLT!Raw \cup XSLT!Groups \/ XSLT!IsError(b)
            /\ \A c \in ToSet(b.children) : XSLT!Checked(c)
        <5>1. XSLT!ToSet(b.children) = ToSet(b.children)
          BY SameHelpers
        <5> QED BY <1>7, <5>1 DEF XSLT!WhollyChecked
      <4>3. ~AllErrors(b)
        <5>1. CASE a.type # "all-of"
          BY <3>2, <3>p, <5>1
        <5>2. CASE a.type = "all-of"
          <6>1. \A c \in XSLT!Within[a] : ~XSLT!IsError(c)
            BY <2>1, <5>2 DEF XSLT!IsError
          <6>2. ASSUME b.type = "any-of" PROVE \E c \in ToSet(b.children) : ~XSLT!IsError(c)
            <7>1. ToSet(b.children) # {}
              BY <4>1, <6>2, BelowToo, KindsApart
            <7>2. PICK c \in ToSet(b.children) : TRUE
              BY <7>1
            <7>3. c \in XSLT!Within[a]
              BY <4>1, <7>2, XSLTInside
            <7> QED BY <6>1, <7>3
          <6> QED BY <4>1, <6>1, <6>2 DEF AllErrors
        <5> QED BY <5>1, <5>2
      <4>4. b.type \in XSLT!Texts \cup XSLT!Raw \cup XSLT!Groups
        BY <4>2, <4>3 DEF AllErrors
      <4>5. PICK k \in ToSet(XSLT!EmitAssertion[b]) : k # XSLT!Skip
        BY <4>1, <4>3, <4>4, PartChecked
      <4>6. k \in RealChecks(a)
        <5>1. k \in RealChecks(b)
          BY <4>5 DEF RealChecks
        <5> QED BY <3>4, <5>1
      <4>7. XSLT!Holds(k, o)
        BY <3>3, <4>6
      <4> QED BY <1>r, <2>3, <4>1, <4>2, <4>5, <4>7, PartHolds
    <3> QED BY <3>4, <3>5
  <2> QED BY <2>2, <2>3
<1>8. XSLT!Passes(row, o) \/ XSLT!FairTo(row, o)
  BY <1>3, <1>6 DEF XSLT!FairTo
<1>9. XSLT!Passes(row, o) => XSLT!StrictOn(row, o)
  BY <1>3, <1>7 DEF XSLT!StrictOn
<1> QED BY <1>8, <1>9

\* A list of one element.
LEMMA OneOf ==
  ASSUME NEW s, IsList(s), Len(s) = 1
  PROVE  s[1] \in ToSet(s) /\ s = <<s[1]>>
<1> DEFINE T == ToSet(s)
<1>1. s \in Seq(T)
  BY DEF IsList
<1>2. DOMAIN s = 1..1 /\ s[1] \in ToSet(s)
  BY Places
<1> HIDE DEF T
<1>3. PICK x : x = s[1]
  OBVIOUS
<1>4. Len(<<x>>) = 1 /\ <<x>>[1] = x
  OBVIOUS
<1>5. s = <<x>>
  BY <1>1, <1>2, <1>3, <1>4
<1> QED BY <1>2, <1>3, <1>5

\* A row of xslt30 that runs follows its catalog.
LEMMA XSLTFollows ==
  ASSUME NEW as, IsList(as), ToSet(as) \subseteq XSLTAssertion, NEW row, NEW o,
         row.assertions = as,
         row.expectError = XSLT!ExpectError(as),
         row.errorCode = XSLT!ErrorCode(as),
         row.acceptErrors = XSLT!AcceptErrors(as),
         row.checks = IF XSLT!ExpectError(as) THEN <<>> ELSE XSLT!EmitAssertions(as),
         XSLT!ClassifyUnsupportedAssertions(as) = ""
  PROVE  /\ XSLT!Passes(row, o) \/ XSLT!FairTo(row, o)
         /\ XSLT!Passes(row, o) => XSLT!StrictOn(row, o)
<1>1. CASE Len(as) # 1
  BY <1>1 DEF XSLT!FairTo, XSLT!StrictOn
<1>2. CASE Len(as) = 1
  <2>1. as[1] \in ToSet(as) /\ as = <<as[1]>>
    BY <1>2, OneOf
  <2>2. PICK a \in XSLTAssertion : as = <<a>>
    BY <2>1
  <2> QED BY <2>2, OneFollows
<1> QED BY <1>1, <1>2

-------------------------------------------------------------------------------
(* The verdicts follow the catalogs *)

\* What is put at the end of a list that has elements is not its head.
LEMMA HeadKept ==
  ASSUME NEW q, IsList(q), NEW x \in ToSet(q), NEW z
  PROVE  Head(Append(q, z)) \in ToSet(q)
<1> DEFINE T == ToSet(q)
           V == T \cup {z}
<1>1. q \in Seq(T) /\ T \subseteq V /\ z \in V
  BY DEF IsList
<1>2. DOMAIN q = 1..Len(q) /\ Len(q) \in Nat
  BY Places
<1>3. PICK i \in DOMAIN q : q[i] = x
  BY Places
<1>4. 1 \in DOMAIN q /\ Len(q) > 0
  BY <1>2, <1>3
<1>5. q[1] \in T
  BY <1>4, Places
<1> HIDE DEF T
<1>6. q \in Seq(V)
  BY <1>1
<1> HIDE DEF V
<1>7. Head(Append(q, z)) = q[1]
  BY <1>1, <1>4, <1>6
<1> QED BY <1>5, <1>7 DEF T

\* Where no reason is found there is none.
LEMMA NoReason ==
  ASSUME NEW s, IsList(s), XSLT!FirstReason(s) = ""
  PROVE  \A x \in ToSet(s) : x = ""
<1> DEFINE W == ToSet(s) \ {""}
           given == Among(s, W)
<1>1. XSLT!FirstReason(s) = Head(Append(given, ""))
  BY SameHelpers DEF XSLT!FirstReason
<1>2. ToSet(s) \cap W = W
  OBVIOUS
<1> HIDE DEF W
<1>3. given \in Seq(W) /\ ToSet(given) = W
  BY <1>2, AmongIs
<1> HIDE DEF given
<1>4. ASSUME NEW x \in W PROVE FALSE
  <2>1. IsList(given)
    BY <1>3 DEF IsList
  <2>2. Head(Append(given, "")) \in W
    BY <1>3, <1>4, <2>1, HeadKept
  <2> QED BY <1>1, <2>2 DEF W
<1> QED BY <1>4 DEF W

\* A list of three elements.
LEMMA ThreeOf == ASSUME NEW x, NEW y, NEW z PROVE IsList(<<x, y, z>>) /\ y \in ToSet(<<x, y, z>>)
<1> DEFINE s == <<x, y, z>>
           T == ToSet(s)
<1>1. DOMAIN s = 1..3 /\ s[1] = x /\ s[2] = y /\ s[3] = z
  OBVIOUS
<1>2. x \in T /\ y \in T /\ z \in T
  <2> HIDE DEF s
  <2> QED BY <1>1 DEF ToSet
<1> HIDE DEF T
<1>3. s \in Seq(T)
  BY <1>2
<1> QED BY <1>2, <1>3 DEF IsList, T

\* The case of xslt30 a verdict is about.
LEMMA XSLTJudged ==
  ASSUME SourceInv, JudgedInv, IsXSLT, verdict # NoVerdict
  PROVE  \E ts, tc, gated : /\ IsList(tc.result) /\ ToSet(tc.result) \subseteq XSLTAssertion
                            /\ rows[verdict.row] = XSLT!Row(XSLT!GeneratedTest(ts, tc, gated))
<1>1. XSLT!IsCheckout(src) /\ CollectTests = XSLT!CollectTests(src)
  BY TheCheckout
<1> DEFINE row == rows[verdict.row]
<1>2. verdict.row \in DOMAIN rows /\ row \in ToSet(rows)
  BY DEF JudgedInv, ToSet
<1>3. rows # <<>>
  BY <1>2
<1>4. rows = XSLT!CollectTests(src).rows
  BY <1>1, <1>3 DEF JudgedInv
<1>5. XSLT!CollectTests(src).ok
  BY <1>3, <1>4 DEF XSLT!CollectTests
<1> HIDE DEF row
<1>6. PICK ts \in ToSet(src.sets) : \E tc \in ToSet(ts.cases) : \E gated : row = XSLT!Row(XSLT!GeneratedTest(ts, tc, gated))
  BY <1>1, <1>2, <1>4, <1>5, XSLTRowIs
<1>7. PICK tc \in ToSet(ts.cases) : \E gated : row = XSLT!Row(XSLT!GeneratedTest(ts, tc, gated))
  BY <1>6
<1>8. IsList(tc.result) /\ ToSet(tc.result) \subseteq XSLTAssertion
  BY <1>1, SameHelpers DEF XSLT!IsCheckout
<1> QED BY <1>7, <1>8 DEF row

\* The verdicts on qt3.
LEMMA QT3Agrees ==
  ASSUME SourceInv, JudgedInv, IsQT3, verdict # NoVerdict
  PROVE  LET row == rows[verdict.row] IN
         /\ QT3!Passes(row, verdict.outcome) \/ QT3!FairTo(row, verdict.outcome)
         /\ QT3!Passes(row, verdict.outcome) => QT3!StrictOn(row, verdict.outcome)
         /\ QT3!Passes(row, verdict.outcome) \in BOOLEAN
<1> DEFINE row == rows[verdict.row]
           o == verdict.outcome
<1>1. PICK ts, tc : tc.result \subseteq QT3Assertion /\ row = QT3!Row(QT3!GeneratedTest(src, ts, tc))
  BY QT3Judged
<1> HIDE DEF row, o
<1> DEFINE gt == QT3!GeneratedTest(src, ts, tc)
           as == tc.result
<1>2. gt.assertions = as
  BY DEF QT3!GeneratedTest
<1>3. as \in SUBSET QT3Assertion
  BY <1>1
<1> HIDE DEF gt, as
<1>4. row = QT3!Row(gt)
  BY <1>1 DEF gt
<1>5. /\ row.assertions = gt.assertions
      /\ row.expectError = QT3!AssertionsExpectError(gt.assertions)
      /\ row.acceptError = (~QT3!AssertionsExpectError(gt.assertions) /\ QT3!AssertionsAcceptError(gt.assertions))
      /\ row.checks = IF QT3!AssertionsExpectError(gt.assertions) THEN {} ELSE QT3!EmitAssertions(gt.assertions)
  BY <1>4 DEF QT3!Row
<1>6. /\ row.assertions = as
      /\ row.expectError = QT3!AssertionsExpectError(as)
      /\ row.acceptError = (~row.expectError /\ QT3!AssertionsAcceptError(as))
      /\ row.checks = IF row.expectError THEN {} ELSE QT3!EmitAssertions(as)
  BY <1>2, <1>5
<1>7. (QT3!Passes(row, o) \/ QT3!FairTo(row, o)) /\ (QT3!Passes(row, o) => QT3!StrictOn(row, o))
  BY <1>3, <1>6, QT3Follows
<1>8. QT3!Passes(row, o) \in BOOLEAN
  <2>1. row.expectError \in BOOLEAN /\ row.acceptError \in BOOLEAN
    BY <1>5 DEF QT3!AssertionsExpectError
  <2> QED BY <2>1 DEF QT3!Passes
<1> QED BY <1>7, <1>8 DEF row, o

\* The verdicts on xslt30.
LEMMA XSLTAgrees ==
  ASSUME SourceInv, JudgedInv, IsXSLT, verdict # NoVerdict, rows[verdict.row].skip = ""
  PROVE  LET row == rows[verdict.row] IN
         /\ XSLT!Passes(row, verdict.outcome) \/ XSLT!FairTo(row, verdict.outcome)
         /\ XSLT!Passes(row, verdict.outcome) => XSLT!StrictOn(row, verdict.outcome)
<1> DEFINE row == rows[verdict.row]
           o == verdict.outcome
<1>1. PICK ts, tc, gated : /\ IsList(tc.result) /\ ToSet(tc.result) \subseteq XSLTAssertion
                           /\ row = XSLT!Row(XSLT!GeneratedTest(ts, tc, gated))
  BY XSLTJudged
<1>s. row.skip = ""
  OBVIOUS
<1> HIDE DEF row, o
<1> DEFINE gt == XSLT!GeneratedTest(ts, tc, gated)
           as == tc.result
           unsupported == XSLT!ClassifyUnsupportedAssertions(as)
<1>2. /\ gt.assertions = as
      /\ gt.skip = "" => \E typed : XSLT!FirstReason(<<gated, unsupported, typed>>) = ""
  BY DEF XSLT!GeneratedTest
<1>3. IsList(as) /\ ToSet(as) \subseteq XSLTAssertion
  BY <1>1
<1> HIDE DEF gt, as, unsupported
<1>4. row = XSLT!Row(gt)
  BY <1>1 DEF gt
<1>5. /\ row.assertions = gt.assertions /\ row.skip = gt.skip
      /\ row.expectError = XSLT!ExpectError(gt.assertions)
      /\ row.errorCode = XSLT!ErrorCode(gt.assertions)
      /\ row.acceptErrors = XSLT!AcceptErrors(gt.assertions)
      /\ row.checks = IF XSLT!ExpectError(gt.assertions) THEN <<>> ELSE XSLT!EmitAssertions(gt.assertions)
  BY <1>4 DEF XSLT!Row
<1>6. PICK typed : XSLT!FirstReason(<<gated, unsupported, typed>>) = ""
  BY <1>s, <1>2, <1>5
<1>7. unsupported = ""
  <2> DEFINE s == <<gated, unsupported, typed>>
  <2>1. IsList(s) /\ unsupported \in ToSet(s)
    BY ThreeOf
  <2>2. XSLT!FirstReason(s) = ""
    BY <1>6
  <2> HIDE DEF s
  <2> QED BY <2>1, <2>2, NoReason
<1>8. (XSLT!Passes(row, o) \/ XSLT!FairTo(row, o)) /\ (XSLT!Passes(row, o) => XSLT!StrictOn(row, o))
  <2>1. /\ row.assertions = as
        /\ row.expectError = XSLT!ExpectError(as)
        /\ row.errorCode = XSLT!ErrorCode(as)
        /\ row.acceptErrors = XSLT!AcceptErrors(as)
        /\ row.checks = IF XSLT!ExpectError(as) THEN <<>> ELSE XSLT!EmitAssertions(as)
    BY <1>2, <1>5
  <2>2. XSLT!ClassifyUnsupportedAssertions(as) = ""
    BY <1>7 DEF unsupported
  <2> QED BY <1>3, <2>1, <2>2, XSLTFollows
<1> QED BY <1>8 DEF row, o

\* What is judged agrees with its catalog.
LEMMA Agreement == ASSUME SourceInv, JudgedInv PROVE VerdictsFollowCatalog
<1> DEFINE row == rows[verdict.row]
           o == verdict.outcome
           xfail == "xfail" \in verdict.listed
           passes == (verdict.status = "pass") # xfail
           Good == /\ verdict.setUp = "ready" /\ verdict.status # "skip" => FollowsCatalog(passes, row, o)
                   /\ verdict.setUp = "fatal" => verdict.status \in {"fail", "skip"}
                   /\ verdict.setUp = "skip" => verdict.status = "skip"
                   /\ xfail /\ verdict.status = "skip" => verdict.setUp = "skip"
<1>1. CASE verdict = NoVerdict
  <2>1. verdict.setUp = "none" /\ verdict.status = "none"
    BY <1>1 DEF NoVerdict
  <2> QED BY <2>1 DEF VerdictsFollowCatalog
<1>2. ASSUME verdict # NoVerdict, IsQT3 PROVE Good
  <2>1. /\ verdict.setUp \in {"ready", "fatal", "skip"}
        /\ xfail => row.skip = "" /\ "skip" \notin verdict.listed
        /\ verdict.status = QT3!RunCase(row, verdict.listed, verdict.setUp, o)
    BY <1>2 DEF JudgedInv, JudgedQT3, IsQT3, IsXSLT
  <2>2. (QT3!Passes(row, o) \/ QT3!FairTo(row, o)) /\ (QT3!Passes(row, o) => QT3!StrictOn(row, o))
    BY <1>2, QT3Agrees
  <2>3. QT3!Passes(row, o) \in BOOLEAN /\ xfail \in BOOLEAN
    BY <1>2, QT3Agrees
  <2> HIDE DEF row, o
  <2>4. ASSUME verdict.setUp = "ready", verdict.status # "skip" PROVE passes <=> QT3!Passes(row, o)
    BY <2>1, <2>3, <2>4 DEF QT3!RunCase
  <2>5. verdict.setUp = "ready" /\ verdict.status # "skip" => FollowsCatalog(passes, row, o)
    <3> HIDE DEF passes
    <3> QED BY <1>2, <2>2, <2>4 DEF FollowsCatalog
  <2>6. /\ verdict.setUp = "fatal" => verdict.status \in {"fail", "skip"}
        /\ verdict.setUp = "skip" => verdict.status = "skip"
    BY <2>1 DEF QT3!RunCase
  <2>7. xfail /\ verdict.status = "skip" => verdict.setUp = "skip"
    BY <2>1 DEF QT3!RunCase
  <2> QED BY <2>5, <2>6, <2>7
<1>3. ASSUME verdict # NoVerdict, ~IsQT3 PROVE Good
  <2>1. /\ IsXSLT /\ row.skip = "" /\ verdict.listed = {} /\ verdict.setUp = "ready"
        /\ verdict.status = IF XSLT!Passes(row, o) THEN "pass" ELSE "fail"
    BY <1>3 DEF JudgedInv, JudgedXSLT
  <2>2. (XSLT!Passes(row, o) \/ XSLT!FairTo(row, o)) /\ (XSLT!Passes(row, o) => XSLT!StrictOn(row, o))
    BY <1>3, <2>1, XSLTAgrees
  <2> HIDE DEF row, o
  <2>3. xfail = FALSE
    <3>1. ~xfail
      BY <2>1
    <3> HIDE DEF xfail
    <3> QED BY <3>1
  <2>4. passes <=> XSLT!Passes(row, o)
    <3>1. (verdict.status = "pass") <=> XSLT!Passes(row, o)
      BY <2>1
    <3>2. passes = (verdict.status = "pass")
      BY <2>3
    <3> QED BY <3>1, <3>2
  <2>5. FollowsCatalog(passes, row, o)
    <3> HIDE DEF passes
    <3> QED BY <1>3, <2>2, <2>4 DEF FollowsCatalog
  <2> QED BY <2>1, <2>3, <2>5
<1> QED BY <1>1, <1>2, <1>3 DEF VerdictsFollowCatalog

\* What the generators of qt3 and xslt30 make of an assertion, its flags, checks and
\* skips, agrees with the result element it is made of, in whatever depth the
\* assertions are nested and whatever the outcome; so do the verdicts on the cases.
THEOREM VerdictsAlwaysFollowCatalog == Spec => []VerdictsFollowCatalog
<1>1. Init => SourceInv /\ JudgedInv /\ JudgedLast
  BY JudgedInit, CopiedInit, InitialTypes DEF IInv
<1>2. SourceInv /\ JudgedInv /\ JudgedLast /\ [Next]_vars => (SourceInv /\ JudgedInv /\ JudgedLast)'
  <2>1. SourceInv /\ [Next]_vars => SourceInv'
    BY DEF SourceInv, Next, vars, RemoveAll, WriteManifest, Tabulate, Collect, CopyFiles, PopulateFixtures, CopyOverlay, Judge
  <2> QED BY <2>1, JudgedStep
<1>3. SourceInv /\ JudgedInv /\ JudgedLast => VerdictsFollowCatalog
  BY Agreement
<1> QED BY <1>1, <1>2, <1>3, PTL DEF Spec

-------------------------------------------------------------------------------
(* The counts of the manifest *)

\* A sequence is a list.
LEMMA AList == ASSUME NEW T, NEW q \in Seq(T) PROVE IsList(q)
<1>1. Len(q) \in Nat /\ DOMAIN q = 1..Len(q) /\ q = [i \in 1..Len(q) |-> q[i]]
  OBVIOUS
<1>2. \A i \in DOMAIN q : q[i] \in ToSet(q)
  BY DEF ToSet
<1>3. q \in [1..Len(q) -> ToSet(q)]
  BY <1>1, <1>2
<1>4. q \in Seq(ToSet(q))
  BY <1>1, <1>3, ListOf
<1> QED BY <1>4 DEF IsList

\* A list of two elements.
LEMMA TwoOf == ASSUME NEW x, NEW y PROVE IsList(<<x, y>>) /\ ToSet(<<x, y>>) = {x, y}
<1> DEFINE s == <<x, y>>
           T == {x, y}
<1>1. DOMAIN s = {1, 2} /\ s[1] = x /\ s[2] = y
  OBVIOUS
<1>2. ToSet(s) = T
  <2> HIDE DEF s
  <2> QED BY <1>1 DEF ToSet
<1>3. s \in Seq(T)
  OBVIOUS
<1> QED BY <1>2, <1>3 DEF IsList

\* The first reason is one of those there are, if there is one.
LEMMA AReason ==
  ASSUME NEW s, IsList(s)
  PROVE  /\ XSLT!FirstReason(s) \in ToSet(s) \cup {""} /\ QT3!FirstReason(s) = XSLT!FirstReason(s)
         /\ (\E x \in ToSet(s) : x # "") => XSLT!FirstReason(s) # ""
<1> DEFINE W == ToSet(s) \ {""}
           given == Among(s, W)
<1>1. XSLT!FirstReason(s) = Head(Append(given, "")) /\ QT3!FirstReason(s) = Head(Append(given, ""))
  BY SameHelpers DEF XSLT!FirstReason, QT3!FirstReason
<1>2. ToSet(s) \cap W = W
  OBVIOUS
<1> HIDE DEF W
<1>3. given \in Seq(W) /\ ToSet(given) = W
  BY <1>2, AmongIs
<1> HIDE DEF given
<1>4. Head(Append(given, "")) \in W \cup {""}
  <2>1. CASE given = <<>>
    BY <2>1
  <2>2. CASE given # <<>>
    <3>1. given[1] \in W
      BY <1>3, <2>2
    <3>2. W # {}
      BY <3>1
    <3>3. PICK x \in W : TRUE
      BY <3>2
    <3>4. IsList(given)
      BY <1>3 DEF IsList
    <3> QED BY <1>3, <3>3, <3>4, HeadKept
  <2> QED BY <2>1, <2>2
<1>5. (\E x \in ToSet(s) : x # "") => XSLT!FirstReason(s) # ""
  BY NoReason
<1> QED BY <1>1, <1>4, <1>5 DEF W

\* A row of qt3 is skipped where the manifest's walk skips the case, or for a file
\* that walk does not look at.
LEMMA QT3SkipIs ==
  ASSUME NEW s, NEW ts, NEW tc
  PROVE  LET skip == QT3!Row(QT3!GeneratedTest(s, ts, tc)).skip IN
         /\ QT3!PlanSkipReason(s, ts, tc) # "" => skip # ""
         /\ QT3!PlanSkipReason(s, ts, tc) = "" => skip \in {""} \cup LateReasons
<1> DEFINE x == QT3!SkipReason(s, ts, tc)
           y == QT3!ResolveAssertionFiles(s, ts.path[1], tc.result)
           skip == QT3!Row(QT3!GeneratedTest(s, ts, tc)).skip
<1>1. skip = QT3!FirstReason(<<x, y>>)
  BY DEF QT3!Row, QT3!GeneratedTest
<1>2. y \in {""} \cup LateReasons
  BY DEF QT3!ResolveAssertionFiles, LateReasons
<1>3. x = QT3!PlanSkipReason(s, ts, tc)
  BY DEF QT3!PlanSkipReason
<1> HIDE DEF x, y, skip
<1>4. IsList(<<x, y>>) /\ ToSet(<<x, y>>) = {x, y}
  BY TwoOf
<1>5. skip \in {x, y, ""} /\ (x # "" => skip # "")
  <2>1. PICK q : q = <<x, y>>
    OBVIOUS
  <2>2. IsList(q) /\ ToSet(q) = {x, y} /\ skip = QT3!FirstReason(q)
    BY <1>1, <1>4, <2>1
  <2>3. /\ XSLT!FirstReason(q) \in ToSet(q) \cup {""} /\ QT3!FirstReason(q) = XSLT!FirstReason(q)
        /\ (\E z \in ToSet(q) : z # "") => XSLT!FirstReason(q) # ""
    BY <2>2, AReason
  <2> QED BY <2>2, <2>3
<1> QED BY <1>2, <1>3, <1>5 DEF skip

\* Of a set of qt3, as many of its cases are taken in the manifest's walk as rows are
\* made: so for any part P of them and the part R of the rows these go to.
LEMMA QT3SetCounts ==
  ASSUME NEW s, NEW ts, IsList(ts.cases), NEW P, NEW R
  PROVE  LET RowOf(tc) == QT3!Row(QT3!GeneratedTest(s, ts, tc))
             pairs == [j \in DOMAIN ts.cases |-> <<ts, ts.cases[j]>>] IN
         /\ (\A tc \in ToSet(ts.cases) : <<ts, tc>> \in P => QT3!Applies(ts, tc) /\ RowOf(tc) \in R)
              => Count(pairs, P) <= Count(QT3!RowsOf(s, ts), R)
         /\ (\A tc \in ToSet(ts.cases) : QT3!Applies(ts, tc) /\ RowOf(tc) \in R => <<ts, tc>> \in P)
              => Count(QT3!RowsOf(s, ts), R) <= Count(pairs, P)
         /\ \A tc \in ToSet(ts.cases) : QT3!Applies(ts, tc) => RowOf(tc) \in ToSet(QT3!RowsOf(s, ts))
<1> DEFINE RowOf(tc) == QT3!Row(QT3!GeneratedTest(s, ts, tc))
           cases == ts.cases
           pairs == [j \in DOMAIN cases |-> <<ts, cases[j]>>]
           W == {tc \in ToSet(cases) : QT3!Applies(ts, tc)}
           taken == Among(cases, W)
           made == [k \in DOMAIN taken |-> RowOf(taken[k])]
           V == {tc \in ToSet(cases) : RowOf(tc) \in R}
<1>1. QT3!RowsOf(s, ts) = made
  <2>1. QT3!Taken(ts) = taken
    BY SameHelpers DEF QT3!Taken
  <2> HIDE DEF taken
  <2> QED BY <2>1 DEF QT3!RowsOf
<1>2. taken \in Seq(ToSet(cases) \cap W) /\ ToSet(taken) = ToSet(cases) \cap W
  <2> HIDE DEF W
  <2> QED BY AmongIs
<1>3. /\ DOMAIN cases = 1..Len(cases) /\ Len(cases) \in Nat /\ \A i \in DOMAIN cases : cases[i] \in ToSet(cases)
      /\ \A x \in ToSet(cases) : \E i \in DOMAIN cases : cases[i] = x
  BY Places
<1>4. /\ DOMAIN taken = 1..Len(taken) /\ Len(taken) \in Nat /\ \A i \in DOMAIN taken : taken[i] \in W /\ taken[i] \in ToSet(cases)
      /\ \A x \in W : \E i \in DOMAIN taken : taken[i] = x
  <2>1. IsList(taken) /\ ToSet(taken) = W
    BY <1>2 DEF IsList
  <2> HIDE DEF taken
  <2>2. /\ DOMAIN taken = 1..Len(taken) /\ Len(taken) \in Nat /\ \A i \in DOMAIN taken : taken[i] \in W
        /\ \A x \in W : \E i \in DOMAIN taken : taken[i] = x
    BY <2>1, Places
  <2> QED BY <2>2
<1>5. IsFiniteSet(DOMAIN cases) /\ IsFiniteSet(DOMAIN taken)
  BY <1>3, <1>4, UpTo
<1> HIDE DEF taken
<1>6. DOMAIN pairs = DOMAIN cases /\ DOMAIN made = DOMAIN taken
  OBVIOUS
<1>7. /\ \A i \in DOMAIN cases : pairs[i] = <<ts, cases[i]>>
      /\ \A i \in DOMAIN taken : made[i] = RowOf(taken[i])
  OBVIOUS
<1>8. Count(taken, V) = Count(cases, W \cap V)
  BY CountAmong DEF taken
<1>9. \A i \in DOMAIN taken : made[i] \in ToSet(made)
  <2> HIDE DEF made
  <2> QED BY <1>6 DEF ToSet
<1>10. /\ \A tc : tc \in W <=> tc \in ToSet(cases) /\ QT3!Applies(ts, tc)
       /\ \A tc : tc \in V <=> tc \in ToSet(cases) /\ RowOf(tc) \in R
  OBVIOUS
<1> HIDE DEF pairs, made, RowOf, W, V, cases
<1>11. ASSUME \A tc \in ToSet(cases) : <<ts, tc>> \in P => QT3!Applies(ts, tc) /\ RowOf(tc) \in R
       PROVE  Count(pairs, P) <= Count(made, R)
  <2>1. \A i \in DOMAIN pairs : pairs[i] \in P => cases[i] \in W \cap V
    BY <1>3, <1>6, <1>7, <1>10, <1>11
  <2>2. Count(pairs, P) \in Nat /\ Count(cases, W \cap V) \in Nat /\ Count(pairs, P) <= Count(cases, W \cap V)
    BY <1>5, <1>6, <2>1, CountLess
  <2>3. \A i \in DOMAIN taken : taken[i] \in V => made[i] \in R
    BY <1>7, <1>10
  <2>4. Count(taken, V) \in Nat /\ Count(made, R) \in Nat /\ Count(taken, V) <= Count(made, R)
    BY <1>5, <1>6, <2>3, CountLess
  <2> QED BY <1>8, <2>2, <2>4
<1>12. ASSUME \A tc \in ToSet(cases) : QT3!Applies(ts, tc) /\ RowOf(tc) \in R => <<ts, tc>> \in P
       PROVE  Count(made, R) <= Count(pairs, P)
  <2>1. \A i \in DOMAIN cases : cases[i] \in W \cap V => pairs[i] \in P
    BY <1>3, <1>6, <1>7, <1>10, <1>12
  <2>2. Count(pairs, P) \in Nat /\ Count(cases, W \cap V) \in Nat /\ Count(cases, W \cap V) <= Count(pairs, P)
    BY <1>5, <1>6, <2>1, CountLess
  <2>3. \A i \in DOMAIN made : made[i] \in R => taken[i] \in V
    BY <1>4, <1>6, <1>7, <1>10
  <2>4. Count(taken, V) \in Nat /\ Count(made, R) \in Nat /\ Count(made, R) <= Count(taken, V)
    BY <1>5, <1>6, <2>3, CountLess
  <2> QED BY <1>8, <2>2, <2>4
<1>13. \A tc \in ToSet(cases) : QT3!Applies(ts, tc) => RowOf(tc) \in ToSet(made)
  BY <1>4, <1>7, <1>9, <1>10
<1> QED BY <1>1, <1>11, <1>12, <1>13 DEF RowOf, pairs, cases

\* The cases of qt3 in the order of the manifest's walk.
QT3Pairs(s) ==
  [i \in DOMAIN QT3!Walked(s) |->
     [j \in DOMAIN QT3!Walked(s)[i].cases |-> <<QT3!Walked(s)[i], QT3!Walked(s)[i].cases[j]>>]]
QT3Parts(s) == [i \in DOMAIN QT3!Walked(s) |-> QT3!RowsOf(s, QT3!Walked(s)[i])]

\* The same of all sets.
LEMMA QT3Counts ==
  ASSUME NEW s, QT3!IsCheckout(s)
  PROVE  LET RowOf(ts, tc) == QT3!Row(QT3!GeneratedTest(s, ts, tc))
             all == FlattenSeq(QT3Pairs(s))
             made == FlattenSeq(QT3Parts(s))
             sets == ToSet(QT3!Walked(s)) IN
         /\ IsList(all) /\ IsList(made)
         /\ \A p \in ToSet(all) : \E ts \in sets : \E tc \in ToSet(ts.cases) : p = <<ts, tc>>
         /\ \A ts \in sets : \A tc \in ToSet(ts.cases) :
              <<ts, tc>> \in ToSet(all) /\ (QT3!Applies(ts, tc) => RowOf(ts, tc) \in ToSet(made))
         /\ \A P, R :
              /\ (\A ts \in sets : \A tc \in ToSet(ts.cases) : <<ts, tc>> \in P => QT3!Applies(ts, tc) /\ RowOf(ts, tc) \in R)
                   => Count(all, P) <= Count(made, R)
              /\ (\A ts \in sets : \A tc \in ToSet(ts.cases) : QT3!Applies(ts, tc) /\ RowOf(ts, tc) \in R => <<ts, tc>> \in P)
                   => Count(made, R) <= Count(all, P)
<1> DEFINE RowOf(ts, tc) == QT3!Row(QT3!GeneratedTest(s, ts, tc))
           walked == QT3!Walked(s)
           sets == ToSet(walked)
           PairsOf(ts) == [j \in DOMAIN ts.cases |-> <<ts, ts.cases[j]>>]
           pairs == [i \in DOMAIN walked |-> PairsOf(walked[i])]
           parts == [i \in DOMAIN walked |-> QT3!RowsOf(s, walked[i])]
           T == UNION {{<<ts, tc>> : tc \in ToSet(ts.cases)} : ts \in sets}
           U == UNION {ToSet(QT3!RowsOf(s, ts)) : ts \in sets}
<1>1. /\ DOMAIN walked = 1..Len(walked) /\ Len(walked) \in Nat /\ \A i \in DOMAIN walked : walked[i] \in sets
      /\ \A ts \in sets : \E i \in DOMAIN walked : walked[i] = ts
      /\ sets \subseteq ToSet(s.sets)
  <2>1. IsList(s.sets)
    BY SameHelpers DEF QT3!IsCheckout
  <2> DEFINE W == {ts \in ToSet(s.sets) : QT3!ContainedPath(ts.path)}
  <2>2. walked = Among(s.sets, W)
    BY SameHelpers DEF QT3!Walked
  <2> HIDE DEF W
  <2>3. walked \in Seq(ToSet(s.sets) \cap W) /\ sets = ToSet(s.sets) \cap W
    BY <2>1, <2>2, AmongIs
  <2> HIDE DEF walked
  <2>4. IsList(walked)
    BY <2>3 DEF IsList
  <2> QED BY <2>3, <2>4, Places
<1>2. \A ts \in sets : IsList(ts.cases)
  <2>1. \A ts \in ToSet(s.sets) : IsList(ts.cases)
    BY SameHelpers DEF QT3!IsCheckout
  <2> QED BY <1>1, <2>1
<1>3. pairs = QT3Pairs(s) /\ parts = QT3Parts(s)
  BY DEF QT3Pairs, QT3Parts
<1>4. ASSUME NEW ts \in sets
      PROVE  /\ PairsOf(ts) \in Seq(T) /\ ToSet(PairsOf(ts)) = {<<ts, tc>> : tc \in ToSet(ts.cases)}
             /\ QT3!RowsOf(s, ts) \in Seq(U)
  <2>1. /\ DOMAIN ts.cases = 1..Len(ts.cases) /\ Len(ts.cases) \in Nat
        /\ \A i \in DOMAIN ts.cases : ts.cases[i] \in ToSet(ts.cases)
        /\ \A x \in ToSet(ts.cases) : \E i \in DOMAIN ts.cases : ts.cases[i] = x
    BY <1>2, Places
  <2>2. \A tc \in ToSet(ts.cases) : <<ts, tc>> \in T
    OBVIOUS
  <2>3. PairsOf(ts) \in [1..Len(ts.cases) -> T]
    <3> HIDE DEF T
    <3> QED BY <2>1, <2>2
  <2>4. PairsOf(ts) \in Seq(T)
    <3> HIDE DEF T, PairsOf
    <3> QED BY <2>1, <2>3, ListOf
  <2>5. ToSet(PairsOf(ts)) = {<<ts, tc>> : tc \in ToSet(ts.cases)}
    <3>1. ToSet(PairsOf(ts)) = {<<ts, ts.cases[j]>> : j \in DOMAIN ts.cases}
      BY DEF ToSet
    <3> QED BY <2>1, <3>1
  <2>6. QT3!RowsOf(s, ts) \in Seq(U)
    <3> DEFINE W == {tc \in ToSet(ts.cases) : QT3!Applies(ts, tc)}
               taken == QT3!Taken(ts)
               r == QT3!RowsOf(s, ts)
    <3>1. taken = Among(ts.cases, W)
      BY SameHelpers DEF QT3!Taken
    <3> HIDE DEF W, taken
    <3>2. taken \in Seq(ToSet(ts.cases) \cap W)
      BY <1>2, <3>1, AmongIs
    <3>3. r = [i \in DOMAIN taken |-> RowOf(ts, taken[i])]
      BY DEF QT3!RowsOf, taken
    <3>4. Len(taken) \in Nat /\ DOMAIN r = 1..Len(taken)
      BY <3>2, <3>3
    <3> HIDE DEF r
    <3>5. \A i \in DOMAIN r : r[i] \in ToSet(r)
      BY DEF ToSet
    <3>6. ToSet(r) \subseteq U
      BY DEF r
    <3>7. r = [i \in 1..Len(taken) |-> r[i]]
      BY <3>3, <3>4
    <3> HIDE DEF U
    <3>8. r \in [1..Len(taken) -> U]
      BY <3>4, <3>5, <3>6, <3>7
    <3>9. r \in Seq(U)
      BY <3>4, <3>8, ListOf
    <3> QED BY <3>9 DEF r
  <2> QED BY <2>4, <2>5, <2>6
<1>5. /\ pairs \in Seq(Seq(T)) /\ Len(pairs) = Len(walked) /\ DOMAIN pairs = DOMAIN walked
      /\ parts \in Seq(Seq(U)) /\ Len(parts) = Len(walked) /\ DOMAIN parts = DOMAIN walked
  <2>1. pairs \in [1..Len(walked) -> Seq(T)] /\ parts \in [1..Len(walked) -> Seq(U)]
    <3> HIDE DEF walked, T, U, PairsOf, sets
    <3> QED BY <1>1, <1>4
  <2>2. DOMAIN pairs = DOMAIN walked /\ DOMAIN parts = DOMAIN walked
    OBVIOUS
  <2> HIDE DEF pairs, parts, walked, T, U
  <2> QED BY <1>1, <2>1, <2>2, ListOf
<1>6. \A i \in DOMAIN walked : pairs[i] = PairsOf(walked[i]) /\ parts[i] = QT3!RowsOf(s, walked[i])
  OBVIOUS
<1> DEFINE all == FlattenSeq(pairs)
           made == FlattenSeq(parts)
<1> HIDE DEF pairs, parts, T, U, PairsOf, walked, RowOf, sets
<1>7. /\ all \in Seq(T) /\ ToSet(all) = UNION {ToSet(pairs[i]) : i \in DOMAIN pairs}
      /\ made \in Seq(U) /\ ToSet(made) = UNION {ToSet(parts[i]) : i \in DOMAIN parts}
  BY <1>5, FlattenIs
<1>8. IsList(all) /\ IsList(made)
  <2> HIDE DEF all, made
  <2> QED BY <1>7, AList
<1> HIDE DEF all, made
<1>9. \A p \in ToSet(all) : \E ts \in sets : \E tc \in ToSet(ts.cases) : p = <<ts, tc>>
  BY <1>1, <1>4, <1>5, <1>6, <1>7
<1>10. ASSUME NEW ts \in sets, NEW tc \in ToSet(ts.cases)
       PROVE  <<ts, tc>> \in ToSet(all) /\ (QT3!Applies(ts, tc) => RowOf(ts, tc) \in ToSet(made))
  <2>1. PICK i \in DOMAIN walked : walked[i] = ts
    BY <1>1
  <2>2. <<ts, tc>> \in ToSet(pairs[i]) /\ ToSet(pairs[i]) \subseteq ToSet(all)
    BY <1>4, <1>5, <1>6, <1>7, <2>1
  <2>3. QT3!Applies(ts, tc) => RowOf(ts, tc) \in ToSet(parts[i])
    BY <1>2, <1>6, <2>1, QT3SetCounts DEF RowOf
  <2>4. ToSet(parts[i]) \subseteq ToSet(made)
    BY <1>5, <1>7
  <2> QED BY <2>2, <2>3, <2>4
<1>11. ASSUME NEW P, NEW R,
              \A ts \in sets : \A tc \in ToSet(ts.cases) : <<ts, tc>> \in P => QT3!Applies(ts, tc) /\ RowOf(ts, tc) \in R
       PROVE  Count(all, P) <= Count(made, R)
  <2>1. ASSUME NEW i \in 1..Len(pairs) PROVE Count(pairs[i], P) <= Count(parts[i], R)
    <3>1. i \in DOMAIN walked /\ walked[i] \in sets /\ IsList(walked[i].cases)
      BY <1>1, <1>2, <1>5
    <3>2. Count(PairsOf(walked[i]), P) <= Count(QT3!RowsOf(s, walked[i]), R)
      BY <1>11, <3>1, QT3SetCounts DEF RowOf, PairsOf
    <3> QED BY <1>6, <3>1, <3>2
  <2> QED BY <1>5, <2>1, FlatCount DEF all, made
<1>12. ASSUME NEW P, NEW R,
              \A ts \in sets : \A tc \in ToSet(ts.cases) : QT3!Applies(ts, tc) /\ RowOf(ts, tc) \in R => <<ts, tc>> \in P
       PROVE  Count(made, R) <= Count(all, P)
  <2>1. ASSUME NEW i \in 1..Len(pairs) PROVE Count(parts[i], R) <= Count(pairs[i], P)
    <3>1. i \in DOMAIN walked /\ walked[i] \in sets /\ IsList(walked[i].cases)
      BY <1>1, <1>2, <1>5
    <3>2. Count(QT3!RowsOf(s, walked[i]), R) <= Count(PairsOf(walked[i]), P)
      BY <1>12, <3>1, QT3SetCounts DEF RowOf, PairsOf
    <3> QED BY <1>6, <3>1, <3>2
  <2> QED BY <1>5, <2>1, FlatCount DEF all, made
<1> QED BY <1>3, <1>8, <1>9, <1>10, <1>11, <1>12 DEF RowOf, all, made, sets, walked

\* What the counts of a manifest say of the tables: as many cases run and are skipped
\* as there are rows, and no more are skipped there, nor fewer but for late reasons.
CountsAgree(plan, made) ==
  LET skipped == Cardinality({i \in DOMAIN made : made[i].skip # ""}) IN
  /\ plan.cases = plan.excluded + Len(made)
  /\ plan.runnable + plan.skipped = Len(made)
  /\ plan.skipped \in (skipped - Cardinality({i \in DOMAIN made : made[i].skip \in LateReasons}))..skipped

\* The numbers of those that count and of those that do not make up the length.
LEMMA Rest ==
  ASSUME NEW D, IsFiniteSet(D), NEW E \in SUBSET D
  PROVE  /\ Cardinality(E) \in Nat /\ Cardinality(D \ E) \in Nat /\ Cardinality(D) \in Nat
         /\ Cardinality(D) = Cardinality(E) + Cardinality(D \ E)
<1>1. IsFiniteSet(E) /\ IsFiniteSet(D \ E)
  BY FS_Subset
<1>2. /\ Cardinality(E) \in Nat /\ Cardinality(D \ E) \in Nat /\ Cardinality(D) \in Nat
  BY <1>1, FS_CardinalityType
<1>3. E \cup (D \ E) = D /\ E \cap (D \ E) = {}
  OBVIOUS
<1>4. Cardinality(D) = Cardinality(E) + Cardinality(D \ E) - Cardinality(E \cap (D \ E))
  BY <1>1, <1>3, FS_Union
<1>5. Cardinality(E \cap (D \ E)) = 0
  BY <1>3, FS_EmptySet
<1> QED BY <1>2, <1>4, <1>5

\* Rows skipped for no late reason are those skipped less those skipped late.
LEMMA EarlySkips ==
  ASSUME NEW made, IsList(made)
  PROVE  LET all == {i \in DOMAIN made : made[i].skip # ""}
             late == {i \in DOMAIN made : made[i].skip \in LateReasons}
             early == {r \in ToSet(made) : r.skip # "" /\ r.skip \notin LateReasons} IN
         /\ Cardinality(all) \in Nat /\ Cardinality(late) \in Nat
         /\ Count(made, early) = Cardinality(all) - Cardinality(late)
         /\ Count(made, {r \in ToSet(made) : r.skip # ""}) = Cardinality(all)
<1> DEFINE all == {i \in DOMAIN made : made[i].skip # ""}
           late == {i \in DOMAIN made : made[i].skip \in LateReasons}
           early == {r \in ToSet(made) : r.skip # "" /\ r.skip \notin LateReasons}
           skipped == {r \in ToSet(made) : r.skip # ""}
<1>1. DOMAIN made = 1..Len(made) /\ Len(made) \in Nat /\ \A i \in DOMAIN made : made[i] \in ToSet(made)
  BY Places
<1>2. IsFiniteSet(all)
  <2>1. IsFiniteSet(DOMAIN made)
    BY <1>1, UpTo
  <2> QED BY <2>1, FS_Subset
<1>3. late \subseteq all
  BY DEF LateReasons
<1>4. {i \in DOMAIN made : made[i] \in early} = all \ late /\ {i \in DOMAIN made : made[i] \in skipped} = all
  BY <1>1
<1> HIDE DEF all, late, early, skipped
<1>5. /\ Cardinality(late) \in Nat /\ Cardinality(all \ late) \in Nat /\ Cardinality(all) \in Nat
      /\ Cardinality(all) = Cardinality(late) + Cardinality(all \ late)
  BY <1>2, <1>3, Rest
<1>6. Count(made, early) = Cardinality(all \ late) /\ Count(made, skipped) = Cardinality(all)
  BY <1>4 DEF Count
<1>7. Count(made, early) = Cardinality(all) - Cardinality(late)
  BY <1>5, <1>6
<1> QED BY <1>5, <1>6, <1>7 DEF all, late, early, skipped

\* What the plan of qt3 is when there is a catalog and both walks end well.
LEMMA QT3PlanIs ==
  ASSUME NEW s, QT3!IsCheckout(s), s.top = "good", QT3!ReadCatalogPlan(s).ok, QT3!CollectTests(s).ok
  PROVE  LET all == FlattenSeq(QT3Pairs(s))
             taken == {i \in DOMAIN all : QT3!Applies(all[i][1], all[i][2])}
             runnable == {i \in taken : QT3!PlanSkipReason(s, all[i][1], all[i][2]) = ""}
             plan == QT3!ReadCatalogPlan(s) IN
         /\ plan.cases = Len(all) /\ plan.excluded = Cardinality(DOMAIN all \ taken)
         /\ plan.runnable = Cardinality(runnable) /\ plan.skipped = Cardinality(taken \ runnable)
         /\ QT3!CollectTests(s).rows = FlattenSeq(QT3Parts(s))
<1> DEFINE all == FlattenSeq(QT3Pairs(s))
           taken == {i \in DOMAIN all : QT3!Applies(all[i][1], all[i][2])}
           runnable == {i \in taken : QT3!PlanSkipReason(s, all[i][1], all[i][2]) = ""}
           plan == QT3!ReadCatalogPlan(s)
           failed == [QT3!NoPlan EXCEPT !.ok = FALSE]
           whole == [ok |-> TRUE, cases |-> Len(all), runnable |-> Cardinality(runnable),
                     skipped |-> Cardinality(taken \ runnable), excluded |-> Cardinality(DOMAIN all \ taken)]
           info == QT3!ReadCatalogInfo(s)
<1>1. all = QT3!FlattenSeq(QT3Pairs(s))
  BY SameHelpers
<1>2. plan = CASE info = "none" -> QT3!NoPlan
               [] info = "fails" -> failed
               [] info = "found" /\ QT3!WalkFails(s) -> failed
               [] OTHER -> whole
  <2>1. \A S : QT3!Cardinality(S) = Cardinality(S)
    BY DEF QT3!Cardinality, Cardinality
  <2> QED BY <1>1, <2>1 DEF QT3!ReadCatalogPlan, QT3Pairs
<1>3. info \in {"fails", "found"}
  <2>1. s.dir = "dir" /\ s.stray \in {"absent", "bad", "good"}
    BY DEF QT3!IsCheckout, QT3!IsScanned
  <2> QED BY <2>1 DEF QT3!ReadCatalogInfo, QT3!FoundCatalog
<1>4. ~failed.ok
  BY DEF QT3!NoPlan
<1>5. ~QT3!WalkFails(s)
  BY DEF QT3!CollectTests
<1>6. QT3!CollectTests(s).rows = FlattenSeq(QT3Parts(s))
  BY <1>5, SameHelpers DEF QT3!CollectTests, QT3Parts
<1> HIDE DEF failed, all, taken, runnable, info
<1>7. plan = whole
  <2> HIDE DEF whole, plan
  <2>1. plan.ok
    BY DEF plan
  <2> QED BY <1>2, <1>3, <1>4, <1>5, <2>1
<1> HIDE DEF plan
<1>8. /\ plan.cases = Len(all) /\ plan.excluded = Cardinality(DOMAIN all \ taken)
      /\ plan.runnable = Cardinality(runnable) /\ plan.skipped = Cardinality(taken \ runnable)
  BY <1>7
<1> QED BY <1>6, <1>8 DEF all, taken, runnable, plan

\* The manifest of qt3 agrees with its tables.
LEMMA QT3CountsAgree ==
  ASSUME NEW s, QT3!IsCheckout(s), s.top = "good", QT3!ReadCatalogPlan(s).ok, QT3!CollectTests(s).ok
  PROVE  CountsAgree(QT3!ReadCatalogPlan(s), QT3!CollectTests(s).rows)
<1> DEFINE all == FlattenSeq(QT3Pairs(s))
           made == FlattenSeq(QT3Parts(s))
           sets == ToSet(QT3!Walked(s))
           RowOf(ts, tc) == QT3!Row(QT3!GeneratedTest(s, ts, tc))
           Reason(p) == QT3!PlanSkipReason(s, p[1], p[2])
           taken == {i \in DOMAIN all : QT3!Applies(all[i][1], all[i][2])}
           runnable == {i \in taken : Reason(all[i]) = ""}
           plan == QT3!ReadCatalogPlan(s)
           A == {p \in ToSet(all) : QT3!Applies(p[1], p[2])}
           B == {p \in A : Reason(p) # ""}
           skipped == {r \in ToSet(made) : r.skip # ""}
           early == {r \in ToSet(made) : r.skip # "" /\ r.skip \notin LateReasons}
<1>1. /\ plan.cases = Len(all) /\ plan.excluded = Cardinality(DOMAIN all \ taken)
      /\ plan.runnable = Cardinality(runnable) /\ plan.skipped = Cardinality(taken \ runnable)
      /\ QT3!CollectTests(s).rows = made
  BY QT3PlanIs
<1>2. /\ IsList(all) /\ IsList(made)
      /\ \A p \in ToSet(all) : \E ts \in sets : \E tc \in ToSet(ts.cases) : p = <<ts, tc>>
      /\ \A ts \in sets : \A tc \in ToSet(ts.cases) :
           <<ts, tc>> \in ToSet(all) /\ (QT3!Applies(ts, tc) => RowOf(ts, tc) \in ToSet(made))
      /\ \A P, R :
           /\ (\A ts \in sets : \A tc \in ToSet(ts.cases) : <<ts, tc>> \in P => QT3!Applies(ts, tc) /\ RowOf(ts, tc) \in R)
                => Count(all, P) <= Count(made, R)
           /\ (\A ts \in sets : \A tc \in ToSet(ts.cases) : QT3!Applies(ts, tc) /\ RowOf(ts, tc) \in R => <<ts, tc>> \in P)
                => Count(made, R) <= Count(all, P)
  BY QT3Counts
<1>3. \A ts, tc : /\ QT3!PlanSkipReason(s, ts, tc) # "" => RowOf(ts, tc).skip # ""
                  /\ QT3!PlanSkipReason(s, ts, tc) = "" => RowOf(ts, tc).skip \in {""} \cup LateReasons
  BY QT3SkipIs
<1>4. /\ \A ts, tc : <<ts, tc>> \in A <=> <<ts, tc>> \in ToSet(all) /\ QT3!Applies(ts, tc)
      /\ \A ts, tc : <<ts, tc>> \in B <=> <<ts, tc>> \in A /\ QT3!PlanSkipReason(s, ts, tc) # ""
  OBVIOUS
<1>5. /\ \A r : r \in skipped <=> r \in ToSet(made) /\ r.skip # ""
      /\ \A r : r \in early <=> r \in ToSet(made) /\ r.skip # "" /\ r.skip \notin LateReasons
  OBVIOUS
<1> HIDE DEF all, made, sets, RowOf
<1>6. /\ DOMAIN all = 1..Len(all) /\ Len(all) \in Nat /\ \A i \in DOMAIN all : all[i] \in ToSet(all)
  BY <1>2, Places
<1>7. /\ taken = {i \in DOMAIN all : all[i] \in A}
      /\ taken \ runnable = {i \in DOMAIN all : all[i] \in B}
      /\ taken \subseteq DOMAIN all /\ runnable \subseteq taken
  <2> HIDE DEF Reason
  <2> QED BY <1>6
<1> HIDE DEF A, B, skipped, early, taken, runnable, Reason
<1>8. Count(all, A) = Cardinality(taken) /\ Count(all, B) = Cardinality(taken \ runnable)
  BY <1>7 DEF Count
<1>9. Count(all, A) <= Len(made) /\ Len(made) <= Count(all, A)
  <2>1. Count(made, ToSet(made)) = Len(made)
    BY <1>2, CountIs
  <2>2. Count(all, A) <= Count(made, ToSet(made))
    BY <1>2, <1>4
  <2>3. Count(made, ToSet(made)) <= Count(all, A)
    BY <1>2, <1>4
  <2> QED BY <2>1, <2>2, <2>3
<1>10. Count(all, B) <= Count(made, skipped)
  BY <1>2, <1>3, <1>4, <1>5
<1>11. Count(made, early) <= Count(all, B)
  BY <1>2, <1>3, <1>4, <1>5
<1>12. /\ Cardinality(DOMAIN all) = Len(all)
       /\ Cardinality(taken) \in Nat /\ Cardinality(runnable) \in Nat
       /\ Cardinality(taken \ runnable) \in Nat /\ Cardinality(DOMAIN all \ taken) \in Nat
       /\ Cardinality(DOMAIN all) = Cardinality(taken) + Cardinality(DOMAIN all \ taken)
       /\ Cardinality(taken) = Cardinality(runnable) + Cardinality(taken \ runnable)
  <2>1. IsFiniteSet(DOMAIN all) /\ Cardinality(DOMAIN all) = Len(all)
    BY <1>6, UpTo
  <2>2. IsFiniteSet(taken)
    BY <1>7, <2>1, FS_Subset
  <2> QED BY <1>7, <2>1, <2>2, Rest
<1>13. Len(made) = Cardinality(taken)
  <2>1. Len(made) \in Nat
    BY <1>2, Places
  <2> QED BY <1>8, <1>9, <1>12, <2>1
<1> DEFINE n == Cardinality({i \in DOMAIN made : made[i].skip # ""})
           l == Cardinality({i \in DOMAIN made : made[i].skip \in LateReasons})
<1>14. /\ n \in Nat /\ l \in Nat /\ Count(made, early) = n - l /\ Count(made, skipped) = n
  BY <1>2, EarlySkips DEF early, skipped
<1> HIDE DEF n, l, plan
<1>15. plan.cases = plan.excluded + Len(made) /\ plan.runnable + plan.skipped = Len(made)
  BY <1>1, <1>12, <1>13
<1>16. plan.skipped \in (n - l)..n
  BY <1>1, <1>8, <1>10, <1>11, <1>12, <1>14
<1> QED BY <1>1, <1>15, <1>16 DEF CountsAgree, n, l, plan

\* A row of xslt30 is skipped where the manifest's walk skips the case, or for what
\* that walk does not look at.
LEMMA XSLTSkipIs ==
  ASSUME NEW ts, NEW tc, NEW gated
  PROVE  LET row == XSLT!Row(XSLT!GeneratedTest(ts, tc, gated)) IN
         /\ row.name = tc.name
         /\ gated # "" => row.skip # ""
         /\ gated = "" => row.skip \in {""} \cup LateReasons
<1> DEFINE row == XSLT!Row(XSLT!GeneratedTest(ts, tc, gated))
           env == XSLT!ResolveEnvironment(tc, ts.envs)
           sheet == XSLT!StylesheetPath(ts.path[1], tc.test, env)
           aware == XSLT!IsSchemaAware(ts.deps) \/ XSLT!IsSchemaAware(tc.deps)
           x == XSLT!ClassifyUnsupportedAssertions(tc.result)
           y == XSLT!ClassifySchemaTypeChecking(tc.result, aware)
           bare == sheet = {} /\ ~XSLT!Embeds(env)
<1>1. row.name = tc.name /\ row.skip = IF bare THEN "no stylesheet" ELSE XSLT!FirstReason(<<gated, x, y>>)
  BY DEF XSLT!Row, XSLT!GeneratedTest
<1>2. x \in {"", "unsupported assertion"} /\ y \in {"", "placeholder"}
  BY DEF XSLT!ClassifyUnsupportedAssertions, XSLT!ClassifySchemaTypeChecking
<1> HIDE DEF row, x, y, bare
<1>3. PICK q : q = <<gated, x, y>>
  OBVIOUS
<1>4. IsList(q) /\ ToSet(q) = {gated, x, y}
  <2>1. IsList(q)
    BY <1>3, ThreeOf
  <2>2. DOMAIN q = {1, 2, 3} /\ q[1] = gated /\ q[2] = x /\ q[3] = y
    BY <1>3
  <2>3. ToSet(q) = {gated, x, y}
    BY <2>2 DEF ToSet
  <2> QED BY <2>1, <2>3
<1>5. /\ XSLT!FirstReason(q) \in {gated, x, y, ""}
      /\ gated # "" => XSLT!FirstReason(q) # ""
  <2>1. /\ XSLT!FirstReason(q) \in ToSet(q) \cup {""}
        /\ (\E z \in ToSet(q) : z # "") => XSLT!FirstReason(q) # ""
    BY <1>4, AReason
  <2> QED BY <1>4, <2>1
<1>6. "no stylesheet" \in LateReasons /\ "unsupported assertion" \in LateReasons /\ "placeholder" \in LateReasons
  BY DEF LateReasons
<1>7. row.skip = IF bare THEN "no stylesheet" ELSE XSLT!FirstReason(q)
  BY <1>1, <1>3
<1> QED BY <1>1, <1>2, <1>5, <1>6, <1>7 DEF row

\* The cases of some sets are a list of them.
LEMMA XSLTCasesAre ==
  ASSUME NEW sets, IsList(sets), \A ts \in ToSet(sets) : IsList(ts.cases)
  PROVE  /\ IsList(XSLT!CasesOf(sets))
         /\ \A c \in ToSet(XSLT!CasesOf(sets)) : c.set \in ToSet(sets) /\ c.tc \in ToSet(c.set.cases)
<1> DEFINE OfSet(ts) == [j \in DOMAIN ts.cases |-> [set |-> ts, tc |-> ts.cases[j]]]
           parts == [i \in DOMAIN sets |-> OfSet(sets[i])]
           T == UNION {{[set |-> ts, tc |-> tc] : tc \in ToSet(ts.cases)} : ts \in ToSet(sets)}
<1>1. XSLT!CasesOf(sets) = FlattenSeq(parts)
  BY SameHelpers DEF XSLT!CasesOf
<1>2. /\ DOMAIN sets = 1..Len(sets) /\ Len(sets) \in Nat /\ \A i \in DOMAIN sets : sets[i] \in ToSet(sets)
  BY Places
<1>3. ASSUME NEW ts \in ToSet(sets) PROVE OfSet(ts) \in Seq(T)
  <2>1. /\ DOMAIN ts.cases = 1..Len(ts.cases) /\ Len(ts.cases) \in Nat
        /\ \A i \in DOMAIN ts.cases : ts.cases[i] \in ToSet(ts.cases)
    BY Places
  <2>2. \A tc \in ToSet(ts.cases) : [set |-> ts, tc |-> tc] \in T
    OBVIOUS
  <2> HIDE DEF T
  <2>3. OfSet(ts) \in [1..Len(ts.cases) -> T]
    BY <2>1, <2>2
  <2> HIDE DEF OfSet
  <2> QED BY <2>1, <2>3, ListOf
<1>4. parts \in Seq(Seq(T))
  <2>1. parts \in [1..Len(sets) -> Seq(T)]
    <3> HIDE DEF T, OfSet
    <3> QED BY <1>2, <1>3
  <2> HIDE DEF parts, T
  <2> QED BY <1>2, <2>1, ListOf
<1>5. \A c \in T : c.set \in ToSet(sets) /\ c.tc \in ToSet(c.set.cases)
  OBVIOUS
<1> HIDE DEF parts, T
<1>6. FlattenSeq(parts) \in Seq(T)
  BY <1>4, FlattenIs
<1>7. PICK q \in Seq(T) : q = XSLT!CasesOf(sets)
  BY <1>1, <1>6
<1>8. IsList(q)
  BY AList
<1>9. \A c \in ToSet(q) : c \in T
  BY DEF ToSet
<1> QED BY <1>5, <1>7, <1>8, <1>9

\* Where no streaming case is left out of the tables, those left out do not count
\* towards the limit.
LEMMA SameGate ==
  ASSUME NEW cases, NEW taken, taken \subseteq DOMAIN cases,
         \A i \in DOMAIN cases : XSLT!Unlocks(cases[i]) => i \in taken, NEW i
  PROVE  XSLT!GatedSkip(cases, i, taken) = XSLT!GatedSkip(cases, i, DOMAIN cases)
<1>1. {j \in taken \cap 1..i : XSLT!Unlocks(cases[j])} = {j \in DOMAIN cases \cap 1..i : XSLT!Unlocks(cases[j])}
  OBVIOUS
<1> QED BY <1>1, Zenon DEF XSLT!GatedSkip

\* What the plan of xslt30 is when there is one catalog and both walks end well.
LEMMA XSLTPlanIs ==
  ASSUME NEW s, XSLT!IsCheckout(s), s.top = "good", s.stray = "absent",
         XSLT!ReadCatalogPlan(s).ok, XSLT!CollectTests(s).ok
  PROVE  LET cases == XSLT!CasesOf(XSLT!Walked(s))
             taken == {i \in DOMAIN cases : ~XSLT!IsExcludedTestCase(cases[i].tc.name)}
             skipped == {i \in taken : XSLT!GatedSkip(cases, i, taken) # ""}
             RowAt(i) == XSLT!Row(XSLT!GeneratedTest(cases[i].set, cases[i].tc, XSLT!GatedSkip(cases, i, DOMAIN cases)))
             made == [i \in DOMAIN cases |-> RowAt(i)]
             plan == XSLT!ReadCatalogPlan(s) IN
         /\ IsList(cases) /\ \A c \in ToSet(cases) : c.set \in ToSet(s.sets) /\ c.tc \in ToSet(c.set.cases)
         /\ plan.cases \in Nat /\ plan.excluded = plan.cases - Cardinality(taken)
         /\ plan.runnable = Cardinality(taken \ skipped) /\ plan.skipped = Cardinality(skipped)
         /\ XSLT!CollectTests(s).rows = Among(made, {r \in ToSet(made) : ~XSLT!IsExcludedTestCase(r.name)})
<1> DEFINE cases == XSLT!CasesOf(XSLT!Walked(s))
           taken == {i \in DOMAIN cases : ~XSLT!IsExcludedTestCase(cases[i].tc.name)}
           skipped == {i \in taken : XSLT!GatedSkip(cases, i, taken) # ""}
           RowAt(i) == XSLT!Row(XSLT!GeneratedTest(cases[i].set, cases[i].tc, XSLT!GatedSkip(cases, i, DOMAIN cases)))
           made == [i \in DOMAIN cases |-> RowAt(i)]
           plan == XSLT!ReadCatalogPlan(s)
           contained == {ts \in ToSet(s.sets) : XSLT!ContainedPath(ts.path)}
           tabled == {ts \in ToSet(s.sets) : ts.name # "catalog" /\ XSLT!ContainedPath(ts.path)}
           sets == Among(s.sets, contained)
           walked == Among(s.sets, tabled)
           n == Len(XSLT!CasesOf(sets))
           failed == [XSLT!NoPlan EXCEPT !.ok = FALSE]
           whole == [ok |-> TRUE, cases |-> n, runnable |-> Cardinality(taken \ skipped),
                     skipped |-> Cardinality(skipped), excluded |-> n - Cardinality(taken)]
           info == XSLT!ReadCatalogInfo(s)
           unparsed == \E ts \in ToSet(sets) : ~ts.parses
<1>1. XSLT!Walked(s) = walked
  BY SameHelpers DEF XSLT!Walked
<1>2. plan = CASE info = "none" -> XSLT!NoPlan
               [] info = "fails" -> failed
               [] info = "found" /\ unparsed -> failed
               [] OTHER -> whole
  BY <1>1, SameHelpers DEF XSLT!ReadCatalogPlan
<1>3. info \in {"fails", "found"}
  <2>1. s.dir = "dir" /\ s.stray \in {"absent", "bad", "good"}
    BY DEF XSLT!IsCheckout, XSLT!IsScanned
  <2> QED BY <2>1 DEF XSLT!ReadCatalogInfo, XSLT!FoundCatalog
<1>4. ~failed.ok
  BY DEF XSLT!NoPlan
<1>5. ~XSLT!WalkFails(s)
  BY DEF XSLT!CollectTests
<1>6. XSLT!CollectTests(s).rows = Among(made, {r \in ToSet(made) : ~XSLT!IsExcludedTestCase(r.name)})
  BY <1>5, SameHelpers DEF XSLT!CollectTests
<1>7. IsList(s.sets) /\ \A ts \in ToSet(s.sets) : IsList(ts.cases)
  BY SameHelpers DEF XSLT!IsCheckout
<1>8. /\ sets \in Seq(ToSet(s.sets) \cap contained) /\ ToSet(sets) = ToSet(s.sets) \cap contained
      /\ walked \in Seq(ToSet(s.sets) \cap tabled) /\ ToSet(walked) = ToSet(s.sets) \cap tabled
  <2> HIDE DEF contained, tabled
  <2> QED BY <1>7, AmongIs
<1> HIDE DEF failed, cases, taken, skipped, info, made, sets, walked, unparsed, contained, tabled
<1>9. IsList(sets) /\ IsList(walked)
  BY <1>8, AList
<1>10. IsList(XSLT!CasesOf(sets))
  BY <1>7, <1>8, <1>9, XSLTCasesAre
<1>11. n \in Nat
  <2>1. PICK q : q = XSLT!CasesOf(sets)
    OBVIOUS
  <2>2. Len(q) \in Nat
    BY <1>10, <2>1, Places
  <2> QED BY <2>1, <2>2
<1>12. cases = XSLT!CasesOf(walked)
  BY <1>1 DEF cases
<1>13. IsList(cases) /\ \A c \in ToSet(cases) : c.set \in ToSet(s.sets) /\ c.tc \in ToSet(c.set.cases)
  <2>1. \A ts \in ToSet(walked) : ts \in ToSet(s.sets) /\ IsList(ts.cases)
    BY <1>7, <1>8
  <2>2. /\ IsList(XSLT!CasesOf(walked))
        /\ \A c \in ToSet(XSLT!CasesOf(walked)) : c.set \in ToSet(walked) /\ c.tc \in ToSet(c.set.cases)
    BY <1>9, <2>1, XSLTCasesAre
  <2> QED BY <1>12, <2>1, <2>2
<1>14. plan = whole
  <2> HIDE DEF whole, plan
  <2>1. plan.ok
    BY DEF plan
  <2>2. info = "found"
    BY <1>2, <1>3, <1>4, <2>1
  <2>3. ~unparsed
    BY <1>2, <1>4, <2>1, <2>2
  <2> QED BY <1>2, <2>2, <2>3
<1> HIDE DEF plan, n
<1>15. /\ plan.cases \in Nat /\ plan.excluded = plan.cases - Cardinality(taken)
       /\ plan.runnable = Cardinality(taken \ skipped) /\ plan.skipped = Cardinality(skipped)
  BY <1>11, <1>14
<1> QED BY <1>6, <1>13, <1>15 DEF cases, taken, skipped, made, plan

\* The manifest of xslt30 agrees with its tables.
LEMMA XSLTCountsAgree ==
  ASSUME NEW s, XSLT!IsCheckout(s), s.top = "good", s.stray = "absent", ~XSLT!StrmExcluded(s),
         XSLT!ReadCatalogPlan(s).ok, XSLT!CollectTests(s).ok
  PROVE  CountsAgree(XSLT!ReadCatalogPlan(s), XSLT!CollectTests(s).rows)
<1> DEFINE cases == XSLT!CasesOf(XSLT!Walked(s))
           taken == {i \in DOMAIN cases : ~XSLT!IsExcludedTestCase(cases[i].tc.name)}
           skips == {i \in taken : XSLT!GatedSkip(cases, i, taken) # ""}
           Gate(i) == XSLT!GatedSkip(cases, i, DOMAIN cases)
           RowAt(i) == XSLT!Row(XSLT!GeneratedTest(cases[i].set, cases[i].tc, Gate(i)))
           all == [i \in DOMAIN cases |-> RowAt(i)]
           kept == {r \in ToSet(all) : ~XSLT!IsExcludedTestCase(r.name)}
           made == Among(all, kept)
           plan == XSLT!ReadCatalogPlan(s)
           skipped == {r \in ToSet(made) : r.skip # ""}
           early == {r \in ToSet(made) : r.skip # "" /\ r.skip \notin LateReasons}
<1>1. /\ IsList(cases) /\ \A c \in ToSet(cases) : c.set \in ToSet(s.sets) /\ c.tc \in ToSet(c.set.cases)
      /\ plan.cases \in Nat /\ plan.excluded = plan.cases - Cardinality(taken)
      /\ plan.runnable = Cardinality(taken \ skips) /\ plan.skipped = Cardinality(skips)
      /\ XSLT!CollectTests(s).rows = made
  BY XSLTPlanIs
<1>2. \A i \in DOMAIN cases : /\ RowAt(i).name = cases[i].tc.name
                              /\ Gate(i) # "" => RowAt(i).skip # ""
                              /\ Gate(i) = "" => RowAt(i).skip \in {""} \cup LateReasons
  BY XSLTSkipIs
<1>3. \A i \in DOMAIN cases : all[i] = RowAt(i)
  OBVIOUS
<1>4. DOMAIN all = DOMAIN cases
  OBVIOUS
<1>5. taken \subseteq DOMAIN cases /\ skips \subseteq taken
  OBVIOUS
<1>6. \A i : i \in taken <=> i \in DOMAIN cases /\ ~XSLT!IsExcludedTestCase(cases[i].tc.name)
  OBVIOUS
<1> HIDE DEF cases, taken, all, RowAt, made
<1>7. DOMAIN cases = 1..Len(cases) /\ Len(cases) \in Nat /\ \A i \in DOMAIN cases : cases[i] \in ToSet(cases)
  BY <1>1, Places
<1>8. \A i \in skips : Gate(i) # ""
  <2>1. ASSUME NEW i \in DOMAIN cases, XSLT!Unlocks(cases[i]) PROVE i \in taken
    <3>1. cases[i].set.category = "strm"
      BY <2>1 DEF XSLT!Unlocks
    <3>2. cases[i].set \in ToSet(s.sets) /\ cases[i].tc \in ToSet(cases[i].set.cases)
      BY <1>1, <1>7
    <3>3. ~XSLT!IsExcludedTestCase(cases[i].tc.name)
      BY <3>1, <3>2, SameHelpers DEF XSLT!StrmExcluded
    <3> QED BY <1>6, <3>3
  <2>2. \A i : XSLT!GatedSkip(cases, i, taken) = Gate(i)
    BY <1>5, <2>1, SameGate
  <2> QED BY <2>2
<1>9. \A i \in taken : Gate(i) # "" => i \in skips
  <2>1. ASSUME NEW i \in DOMAIN cases, XSLT!Unlocks(cases[i]) PROVE i \in taken
    <3>1. cases[i].set.category = "strm"
      BY <2>1 DEF XSLT!Unlocks
    <3>2. cases[i].set \in ToSet(s.sets) /\ cases[i].tc \in ToSet(cases[i].set.cases)
      BY <1>1, <1>7
    <3>3. ~XSLT!IsExcludedTestCase(cases[i].tc.name)
      BY <3>1, <3>2, SameHelpers DEF XSLT!StrmExcluded
    <3> QED BY <1>6, <3>3
  <2>2. \A i : XSLT!GatedSkip(cases, i, taken) = Gate(i)
    BY <1>5, <2>1, SameGate
  <2> QED BY <2>2
<1> HIDE DEF skips, Gate
<1>10. IsList(all) /\ \A i \in DOMAIN all : all[i] \in ToSet(all)
  <2>1. \A i \in DOMAIN all : all[i] \in ToSet(all)
    BY DEF ToSet
  <2>2. DOMAIN all = 1..Len(cases) /\ all = [i \in DOMAIN all |-> all[i]]
    BY <1>4, <1>7 DEF all
  <2>3. all \in [1..Len(cases) -> ToSet(all)]
    BY <2>1, <2>2
  <2>4. all \in Seq(ToSet(all))
    BY <1>7, <2>3, ListOf
  <2> QED BY <2>1, <2>4 DEF IsList
<1>11. \A i \in DOMAIN cases : all[i] \in kept <=> i \in taken
  BY <1>2, <1>3, <1>4, <1>6, <1>10
<1> HIDE DEF kept
<1>12. made \in Seq(ToSet(all) \cap kept) /\ ToSet(made) = ToSet(all) \cap kept
  BY <1>10, AmongIs DEF made
<1>13. IsList(made)
  BY <1>12, AList
<1>14. \A S : Count(made, S) = Cardinality({i \in taken : all[i] \in S})
  <2> TAKE S
  <2>1. Count(made, S) = Count(all, kept \cap S)
    BY <1>10, CountAmong DEF made
  <2>2. {i \in DOMAIN all : all[i] \in kept \cap S} = {i \in taken : all[i] \in S}
    BY <1>4, <1>5, <1>11
  <2> QED BY <2>1, <2>2 DEF Count
<1>15. \A i \in taken : all[i] \in ToSet(made)
  BY <1>4, <1>5, <1>10, <1>11, <1>12
<1>16. Len(made) = Cardinality(taken)
  <2>1. Count(made, ToSet(made)) = Len(made)
    BY <1>13, CountIs
  <2>2. {i \in taken : all[i] \in ToSet(made)} = taken
    BY <1>15
  <2> QED BY <1>14, <2>1, <2>2
<1>17. skips \subseteq {i \in taken : all[i] \in skipped}
  BY <1>2, <1>3, <1>5, <1>8, <1>15
<1>18. {i \in taken : all[i] \in early} \subseteq skips
  BY <1>2, <1>3, <1>5, <1>9
<1> HIDE DEF skipped, early
<1>19. IsFiniteSet(taken)
  <2>1. IsFiniteSet(DOMAIN cases)
    BY <1>7, UpTo
  <2> QED BY <1>5, <2>1, FS_Subset
<1>20. /\ Cardinality(taken) \in Nat /\ Cardinality(skips) \in Nat /\ Cardinality(taken \ skips) \in Nat
       /\ Cardinality(taken) = Cardinality(skips) + Cardinality(taken \ skips)
  BY <1>5, <1>19, Rest
<1>21. Cardinality(skips) <= Count(made, skipped)
  <2> DEFINE Y == {i \in taken : all[i] \in skipped}
  <2>1. IsFiniteSet(Y)
    BY <1>19, FS_Subset
  <2> HIDE DEF Y
  <2>2. Cardinality(skips) <= Cardinality(Y)
    BY <1>17, <2>1, FS_Subset DEF Y
  <2> QED BY <1>14, <2>2 DEF Y
<1>22. Count(made, early) <= Cardinality(skips)
  <2>1. IsFiniteSet(skips)
    BY <1>5, <1>19, FS_Subset
  <2>2. Cardinality({i \in taken : all[i] \in early}) <= Cardinality(skips)
    BY <1>18, <2>1, FS_Subset
  <2> QED BY <1>14, <2>2
<1> DEFINE n == Cardinality({i \in DOMAIN made : made[i].skip # ""})
           l == Cardinality({i \in DOMAIN made : made[i].skip \in LateReasons})
<1>23. /\ n \in Nat /\ l \in Nat /\ Count(made, early) = n - l /\ Count(made, skipped) = n
  BY <1>13, EarlySkips DEF early, skipped
<1> HIDE DEF n, l, plan
<1>24. plan.cases = plan.excluded + Len(made) /\ plan.runnable + plan.skipped = Len(made)
  <2> DEFINE t == Cardinality(taken)
             k == Cardinality(skips)
             u == Cardinality(taken \ skips)
             z == Len(made)
  <2>1. /\ plan.excluded = plan.cases - t /\ plan.runnable = u /\ plan.skipped = k /\ plan.cases \in Nat
    BY <1>1 DEF taken, skips
  <2>2. t \in Nat /\ k \in Nat /\ u \in Nat /\ t = k + u /\ z = t
    BY <1>16, <1>20
  <2> HIDE DEF t, k, u, z
  <2>3. plan.cases = plan.excluded + z /\ plan.runnable + plan.skipped = z
    BY <2>1, <2>2
  <2> QED BY <2>3 DEF z
<1>25. plan.skipped \in (n - l)..n
  <2>1. plan.skipped = Cardinality(skips)
    BY <1>1 DEF taken, skips
  <2> QED BY <1>20, <1>21, <1>22, <1>23, <2>1
<1>26. XSLT!CollectTests(s).rows = made
  BY <1>1 DEF made, all, RowAt, cases, kept, Gate
<1> QED BY <1>24, <1>25, <1>26 DEF CountsAgree, n, l, plan

\* A list of rows without a reason to skip any.
AllRun(list) == Len(list) \in Nat /\ \A i \in DOMAIN list : list[i].skip = ""

\* The rows of xsd11 are all to be run.
LEMMA XSTSRuns ==
  ASSUME NEW s, XSTS!IsCheckout(s)
  PROVE  AllRun(XSTS!CollectTests(s).rows)
<1> DEFINE Part(t, g) == IF XSTS!Applies11(g, t) THEN XSTS!BuildCase(s, t, g) ELSE <<>>
           Of(t) == FlattenSeq([i \in DOMAIN t.groups |-> Part(t, t.groups[i])])
           Here == XSTS!PresentSets(s, s.files)
           sets == Among(s.sets, Here)
           parts == [i \in DOMAIN sets |-> Of(sets[i])]
           all == UNION {{Part(t, g)[1] : g \in ToSet(t.groups)} : t \in Here}
           T == {r \in all : r.skip = ""}
<1>1. XSTS!ReadCases(s) = FlattenSeq(parts)
  BY SameHelpers DEF XSTS!ReadCases, XSTS!Present
<1>2. Here \subseteq ToSet(s.sets) /\ IsList(s.sets) /\ \A t \in Here : IsList(t.groups)
  BY SameHelpers DEF XSTS!PresentSets, XSTS!IsCheckout
<1>3. ASSUME NEW t \in Here, NEW g \in ToSet(t.groups) PROVE Part(t, g) \in Seq(T)
  <2> DEFINE p == Part(t, g)
             r == XSTS!Row(t, g, "1.1", XSTS!Kept(s, t, g))
             q == <<r>>
  <2>1. p = <<>> \/ p = q
    BY DEF XSTS!BuildCase
  <2>2. r.skip = ""
    BY DEF XSTS!Row
  <2>3. p[1] \in all
    <3> HIDE DEF Here, Part
    <3> QED OBVIOUS
  <2>4. q[1] = r
    <3> HIDE DEF r
    <3> QED OBVIOUS
  <2>5. p = q => r \in T
    <3> HIDE DEF p, q, r, all
    <3> QED BY <2>2, <2>3, <2>4
  <2>6. p = q => p \in Seq(T)
    <3> HIDE DEF p, r, T
    <3> QED BY <2>5
  <2> HIDE DEF p, q, r, T
  <2>7. p = <<>> => p \in Seq(T)
    OBVIOUS
  <2>8. p \in Seq(T)
    BY <2>1, <2>6, <2>7
  <2> QED BY <2>8 DEF p
<1> HIDE DEF Part, T
<1>4. ASSUME NEW t \in Here PROVE Of(t) \in Seq(T)
  <2> DEFINE ps == [i \in DOMAIN t.groups |-> Part(t, t.groups[i])]
  <2>1. Len(t.groups) \in Nat /\ DOMAIN t.groups = 1..Len(t.groups) /\ \A i \in DOMAIN t.groups : t.groups[i] \in ToSet(t.groups)
    BY <1>2, Places
  <2>2. ps \in [1..Len(t.groups) -> Seq(T)]
    <3> HIDE DEF Here
    <3> QED BY <1>3, <2>1
  <2> HIDE DEF ps
  <2>3. ps \in Seq(Seq(T))
    BY <2>1, <2>2, ListOf
  <2> QED BY <2>3, FlattenIs DEF ps
<1> HIDE DEF Of
<1>5. parts \in Seq(Seq(T))
  <2>1. sets \in Seq(ToSet(s.sets) \cap Here)
    BY <1>2, AmongIs
  <2>2. Len(sets) \in Nat /\ DOMAIN sets = 1..Len(sets) /\ \A i \in DOMAIN sets : sets[i] \in Here
    <3> HIDE DEF sets, Here
    <3> QED BY <2>1
  <2>3. parts \in [1..Len(sets) -> Seq(T)]
    <3> HIDE DEF sets, Here
    <3> QED BY <1>4, <2>2
  <2> HIDE DEF parts, sets
  <2> QED BY <2>2, <2>3, ListOf
<1> HIDE DEF parts
<1>6. XSTS!ReadCases(s) \in Seq(T)
  BY <1>1, <1>5, FlattenIs
<1>7. /\ Len(XSTS!ReadCases(s)) \in Nat
      /\ \A i \in DOMAIN XSTS!ReadCases(s) : XSTS!ReadCases(s)[i] \in T
  BY <1>6
<1>8. \A i \in DOMAIN XSTS!ReadCases(s) : XSTS!ReadCases(s)[i].skip = ""
  BY <1>7 DEF T
<1>9. XSTS!CollectTests(s).rows \in {<<>>, XSTS!ReadCases(s)}
  BY DEF XSTS!CollectTests
<1>10. Len(<<>>) \in Nat /\ DOMAIN <<>> = {}
  OBVIOUS
<1> QED BY <1>7, <1>8, <1>9, <1>10 DEF AllRun

\* read goes through the tests of the catalog of ref.
TestRounds(s, ref, w, read) ==
  LET tests == s.catalogs[ref.file] IN
  /\ read[0] = w
  /\ \A n \in 1..Len(tests) : read[n] = XML!AppendTest(s, read[n - 1], XML!BaseOf(ref, tests[n]), XML!Front(ref.file), tests[n])

\* The catalog of ref leads from the walk w to v, by one test after the other.
Collected(s, w, ref, v) ==
  IF ~XML!FileExists(s, ref.file) \/ ref.file \notin DOMAIN s.catalogs THEN v = [w EXCEPT !.ok = FALSE]
  ELSE \E read : TestRounds(s, ref, w, read) /\ v = read[Len(s.catalogs[ref.file])]

\* read goes through the catalogs.
RefRounds(s, read) ==
  LET top == XML!ParseTopCatalog(s) IN
  /\ read[0] = [ok |-> top.ok, rows |-> <<>>] /\ XML!ReadCases(s) = read[Len(top.refs)]
  /\ \A n \in 1..Len(top.refs) : Collected(s, read[n - 1], top.refs[n], read[n])

\* The rows made of a list of tests, read one after the other from those there were.
LEMMA XMLCollection ==
  ASSUME NEW s, XML!IsCheckout(s), NEW T, NEW walk \in [ok : BOOLEAN, rows : Seq(T)], NEW ref,
         \A t \in UNION {ToSet(s.catalogs[f]) : f \in DOMAIN s.catalogs \cap {ref.file}} :
           \A w \in [ok : BOOLEAN, rows : Seq(T)] :
             XML!AppendTest(s, w, XML!BaseOf(ref, t), XML!Front(ref.file), t) \in [ok : BOOLEAN, rows : Seq(T)]
  PROVE  /\ XML!ParseCollectionCatalog(s, walk, ref) \in [ok : BOOLEAN, rows : Seq(T)]
         /\ Collected(s, walk, ref, XML!ParseCollectionCatalog(s, walk, ref))
<1> DEFINE W == [ok : BOOLEAN, rows : Seq(T)]
           tests == s.catalogs[ref.file]
           N == Len(tests)
           ReadTest(w, t) == XML!AppendTest(s, w, XML!BaseOf(ref, t), XML!Front(ref.file), t)
           Rec(g) == [n \in 0..N |-> IF n = 0 THEN walk ELSE ReadTest(g[n - 1], tests[n])]
           read == CHOOSE g : g = Rec(g)
           none == ~XML!FileExists(s, ref.file) \/ ref.file \notin DOMAIN s.catalogs
<1>1. XML!ParseCollectionCatalog(s, walk, ref) = IF none THEN [walk EXCEPT !.ok = FALSE] ELSE read[N]
  BY DEF XML!ParseCollectionCatalog
<1>2. [walk EXCEPT !.ok = FALSE] \in W
  OBVIOUS
<1>3. ASSUME ~none PROVE read[N] \in W /\ TestRounds(s, ref, walk, read)
  <2>1. IsList(tests)
    BY <1>3, SameHelpers DEF XML!IsCheckout
  <2>2. N \in Nat /\ \A n \in 1..N : tests[n] \in ToSet(tests)
    <3> HIDE DEF tests
    <3> QED BY <2>1, Places
  <2>3. \A n \in 1..N : \A w \in W : ReadTest(w, tests[n]) \in W
    <3>1. \A t \in ToSet(tests) : \A w \in W : ReadTest(w, t) \in W
      BY <1>3
    <3> HIDE DEF ReadTest, tests, W
    <3> QED BY <2>2, <3>1
  <2> HIDE DEF ReadTest, tests, W, N, none
  <2> DEFINE step == [n \in 1..N |-> [w \in W |-> ReadTest(w, tests[n])]]
  <2>4. PICK g \in [0..N -> W] : g = [n \in 0..N |-> IF n = 0 THEN walk ELSE step[n][g[n - 1]]]
    <3>1. step \in [1..N -> [W -> W]]
      BY <2>3
    <3>2. walk \in W
      BY DEF W
    <3> HIDE DEF step
    <3>3. PICK h : Reads(h, W, walk, N, step)
      BY <2>2, <3>1, <3>2, ReadUpTo
    <3> QED BY <3>3 DEF Reads
  <2>5. g = Rec(g)
    <3>1. ASSUME NEW n \in 0..N, n # 0 PROVE step[n][g[n - 1]] = ReadTest(g[n - 1], tests[n])
      <4>1. n \in 1..N /\ n - 1 \in 0..N
        BY <2>2, <3>1
      <4> QED BY <4>1
    <3> HIDE DEF step
    <3> QED BY <2>4, <3>1
  <2>6. read = Rec(read)
    <3> HIDE DEF Rec
    <3> QED BY <2>5
  <2> HIDE DEF read
  <2> DEFINE P == {n \in 0..N : read[n] \in W}
  <2>7. 0 \in P
    <3>1. walk \in W
      BY DEF W
    <3>2. 0 \in 0..N
      BY <2>2
    <3>3. Rec(read)[0] = walk
      BY <3>2
    <3> HIDE DEF Rec
    <3> QED BY <2>6, <3>1, <3>2, <3>3
  <2>8. ASSUME NEW n \in 0..N, n \in P, n < N PROVE n + 1 \in P
    <3>1. n + 1 \in 0..N /\ n + 1 \in 1..N /\ n + 1 # 0 /\ n + 1 - 1 = n
      BY <2>2, <2>8
    <3>2. Rec(read)[n + 1] = ReadTest(read[n], tests[n + 1])
      BY <3>1
    <3>3. read[n + 1] = ReadTest(read[n], tests[n + 1])
      <4> HIDE DEF Rec
      <4> QED BY <2>6, <3>2
    <3>4. read[n] \in W
      BY <2>8
    <3>5. read[n + 1] \in W
      BY <2>3, <3>1, <3>3, <3>4
    <3> QED BY <3>1, <3>5
  <2>9. \A n \in 0..N : n \in P
    <3> HIDE DEF P
    <3> QED BY <2>2, <2>7, <2>8, UpToInd
  <2>10. N \in 0..N
    BY <2>2
  <2>11. read[0] = walk
    <3>1. 0 \in 0..N
      BY <2>2
    <3>2. Rec(read)[0] = walk
      BY <3>1
    <3> HIDE DEF Rec
    <3> QED BY <2>6, <3>2
  <2>12. ASSUME NEW n \in 1..N PROVE read[n] = ReadTest(read[n - 1], tests[n])
    <3>1. n \in 0..N /\ n # 0
      BY <2>2
    <3>2. Rec(read)[n] = ReadTest(read[n - 1], tests[n])
      BY <3>1
    <3> HIDE DEF Rec
    <3> QED BY <2>6, <3>2
  <2>13. TestRounds(s, ref, walk, read)
    BY <2>11, <2>12 DEF TestRounds, ReadTest, tests, N
  <2> QED BY <2>9, <2>10, <2>13
<1> HIDE DEF read, W
<1>4. XML!ParseCollectionCatalog(s, walk, ref) \in W
  <2> HIDE DEF none, N
  <2> QED BY <1>1, <1>2, <1>3
<1>5. Collected(s, walk, ref, XML!ParseCollectionCatalog(s, walk, ref))
  <2>1. CASE none
    <3>1. XML!ParseCollectionCatalog(s, walk, ref) = [walk EXCEPT !.ok = FALSE]
      BY <1>1, <2>1
    <3> QED BY <2>1, <3>1 DEF Collected
  <2>2. CASE ~none
    <3>1. XML!ParseCollectionCatalog(s, walk, ref) = read[N] /\ TestRounds(s, ref, walk, read)
      BY <1>1, <1>3, <2>2
    <3> QED BY <2>2, <3>1 DEF Collected
  <2> QED BY <2>1, <2>2
<1> QED BY <1>4, <1>5 DEF W

\* One test more, which is to be run.
LEMMA XMLAppends ==
  ASSUME NEW s, NEW T, NEW w \in [ok : BOOLEAN, rows : Seq(T)], NEW b, NEW d, NEW t,
         [id |-> t.id, type |-> t.type, uri |-> XML!ResolveFixture(s, b, d, t.uri),
          output |-> IF t.output = <<>> THEN <<>> ELSE XML!ResolveFixture(s, b, d, t.output), skip |-> ""] \in T
  PROVE  XML!AppendTest(s, w, b, d, t) \in [ok : BOOLEAN, rows : Seq(T)]
<1> DEFINE W == [ok : BOOLEAN, rows : Seq(T)]
           row == [id |-> t.id, type |-> t.type, uri |-> XML!ResolveFixture(s, b, d, t.uri),
                   output |-> IF t.output = <<>> THEN <<>> ELSE XML!ResolveFixture(s, b, d, t.output), skip |-> ""]
           more == [w EXCEPT !.rows = Append(@, row)]
           fails == [w EXCEPT !.ok = FALSE]
<1>1. XML!AppendTest(s, w, b, d, t) \in {w, fails, more}
  BY DEF XML!AppendTest
<1>2. row \in T
  OBVIOUS
<1> HIDE DEF row
<1>3. more \in W /\ fails \in W /\ w \in W
  <2>1. ASSUME NEW q \in Seq(T), NEW e \in T PROVE Append(q, e) \in Seq(T)
    BY OneMore
  <2>2. ASSUME NEW q \in Seq(T) PROVE [w EXCEPT !.rows = q] \in W
    OBVIOUS
  <2>3. w.rows \in Seq(T)
    OBVIOUS
  <2>4. more \in W
    <3> HIDE DEF W
    <3> QED BY <1>2, <2>1, <2>2, <2>3
  <2>5. fails \in W /\ w \in W
    OBVIOUS
  <2> QED BY <2>4, <2>5
<1> HIDE DEF more, fails, W
<1>4. XML!AppendTest(s, w, b, d, t) \in W
  BY <1>1, <1>3
<1> QED BY <1>4 DEF W

\* The references of the catalog are a list.
LEMMA XMLRefs ==
  ASSUME NEW s, XML!IsCheckout(s)
  PROVE  LET top == XML!ParseTopCatalog(s)
             At(b, e) == [base |-> b.base, file |-> XML!Clean(s.entities[e])]
         IN /\ Len(top.refs) \in Nat /\ top.ok \in BOOLEAN /\ (~top.ok => top.refs = <<>>)
            /\ top.ok => /\ \A n \in 1..Len(top.refs) : \E b \in ToSet(s.blocks) : \E e \in ToSet(b.entities) : top.refs[n] = At(b, e)
                        /\ \A b \in ToSet(s.blocks) : \A e \in ToSet(b.entities) : \E n \in 1..Len(top.refs) : top.refs[n] = At(b, e)
<1> DEFINE top == XML!ParseTopCatalog(s)
           At(b, e) == [base |-> b.base, file |-> XML!Clean(s.entities[e])]
           Of(b) == [i \in DOMAIN b.entities |-> [base |-> b.base, entity |-> b.entities[i]]]
           parts == [i \in DOMAIN s.blocks |-> Of(s.blocks[i])]
           named == FlattenSeq(parts)
           Q == UNION {{[base |-> b.base, entity |-> e] : e \in ToSet(b.entities)} : b \in ToSet(s.blocks)}
           refs == [i \in DOMAIN named |-> [base |-> named[i].base, file |-> XML!Clean(s.entities[named[i].entity])]]
<1>1. IsList(s.blocks) /\ \A b \in ToSet(s.blocks) : IsList(b.entities)
  BY SameHelpers DEF XML!IsCheckout
<1>2. ASSUME NEW b \in ToSet(s.blocks)
      PROVE  Of(b) \in Seq(Q) /\ ToSet(Of(b)) = {[base |-> b.base, entity |-> e] : e \in ToSet(b.entities)}
  <2>1. /\ Len(b.entities) \in Nat /\ DOMAIN b.entities = 1..Len(b.entities)
        /\ \A i \in DOMAIN b.entities : b.entities[i] \in ToSet(b.entities)
    BY <1>1, Places
  <2>2. \A e \in ToSet(b.entities) : [base |-> b.base, entity |-> e] \in Q
    OBVIOUS
  <2>3. Of(b) \in [1..Len(b.entities) -> Q]
    <3> HIDE DEF Q
    <3> QED BY <2>1, <2>2
  <2>4. ToSet(Of(b)) = {[base |-> b.base, entity |-> e] : e \in ToSet(b.entities)}
    BY DEF ToSet
  <2> HIDE DEF Of, Q
  <2> QED BY <2>1, <2>3, <2>4, ListOf
<1> HIDE DEF Of, Q
<1>3. parts \in Seq(Seq(Q))
  <2>1. /\ Len(s.blocks) \in Nat /\ DOMAIN s.blocks = 1..Len(s.blocks)
        /\ \A i \in DOMAIN s.blocks : s.blocks[i] \in ToSet(s.blocks)
    BY <1>1, Places
  <2>2. parts \in [1..Len(s.blocks) -> Seq(Q)]
    BY <1>2, <2>1
  <2> HIDE DEF parts
  <2> QED BY <2>1, <2>2, ListOf
<1>4. named \in Seq(Q) /\ ToSet(named) = UNION {ToSet(parts[i]) : i \in DOMAIN parts}
  <2> HIDE DEF parts
  <2> QED BY <1>3, FlattenIs
<1>n. ToSet(named) = UNION {ToSet(Of(b)) : b \in ToSet(s.blocks)}
  <2>1. \A i \in DOMAIN s.blocks : parts[i] = Of(s.blocks[i])
    OBVIOUS
  <2>2. DOMAIN parts = DOMAIN s.blocks
    OBVIOUS
  <2>3. (\A i \in DOMAIN s.blocks : s.blocks[i] \in ToSet(s.blocks)) /\ \A b \in ToSet(s.blocks) : \E i \in DOMAIN s.blocks : s.blocks[i] = b
    BY <1>1, Places
  <2> HIDE DEF parts, named
  <2>4. ASSUME NEW x \in ToSet(named) PROVE \E b \in ToSet(s.blocks) : x \in ToSet(Of(b))
    <3>1. PICK i \in DOMAIN parts : x \in ToSet(parts[i])
      BY <1>4
    <3> QED BY <2>1, <2>2, <2>3, <3>1
  <2>5. ASSUME NEW b \in ToSet(s.blocks), NEW x \in ToSet(Of(b)) PROVE x \in ToSet(named)
    <3>1. PICK i \in DOMAIN parts : parts[i] = Of(b)
      BY <2>1, <2>2, <2>3
    <3> QED BY <1>4, <3>1
  <2> QED BY <2>4, <2>5
<1>5. top.refs \in {<<>>, refs} /\ top.ok \in BOOLEAN /\ (top.ok => top.refs = refs) /\ (~top.ok => top.refs = <<>>)
  BY SameHelpers DEF XML!ParseTopCatalog, Of
<1> HIDE DEF named
<1>6. Len(named) \in Nat /\ DOMAIN named = 1..Len(named)
  BY <1>4
<1>a. \A n \in DOMAIN named : \E b \in ToSet(s.blocks) : \E e \in ToSet(b.entities) : named[n] = [base |-> b.base, entity |-> e]
  <2>1. \A n \in DOMAIN named : named[n] \in ToSet(named)
    BY DEF ToSet
  <2> QED BY <1>2, <1>n, <2>1
<1>b. \A b \in ToSet(s.blocks) : \A e \in ToSet(b.entities) : \E n \in DOMAIN named : named[n] = [base |-> b.base, entity |-> e]
  <2>1. \A x \in ToSet(named) : \E n \in DOMAIN named : named[n] = x
    BY DEF ToSet
  <2> QED BY <1>2, <1>n, <2>1
<1>7. Len(refs) = Len(named)
  <2> DEFINE F == {refs[i] : i \in DOMAIN named}
  <2>1. refs \in [1..Len(named) -> F]
    BY <1>6
  <2> HIDE DEF refs, F
  <2> QED BY <1>6, <2>1, ListOf
<1>8. Len(<<>>) \in Nat
  OBVIOUS
<1> HIDE DEF refs
<1>9. top.ok => /\ \A n \in 1..Len(top.refs) : \E b \in ToSet(s.blocks) : \E e \in ToSet(b.entities) : top.refs[n] = At(b, e)
                /\ \A b \in ToSet(s.blocks) : \A e \in ToSet(b.entities) : \E n \in 1..Len(top.refs) : top.refs[n] = At(b, e)
  <2> SUFFICES ASSUME top.ok
               PROVE  /\ \A n \in 1..Len(refs) : \E b \in ToSet(s.blocks) : \E e \in ToSet(b.entities) : refs[n] = At(b, e)
                      /\ \A b \in ToSet(s.blocks) : \A e \in ToSet(b.entities) : \E n \in 1..Len(refs) : refs[n] = At(b, e)
    BY <1>5
  <2>1. ASSUME NEW n \in DOMAIN named, NEW b, NEW e, named[n] = [base |-> b.base, entity |-> e] PROVE refs[n] = At(b, e)
    BY <2>1 DEF refs
  <2>2. 1..Len(refs) = DOMAIN named
    BY <1>6, <1>7
  <2> HIDE DEF At, refs, named
  <2>3. ASSUME NEW n \in 1..Len(refs) PROVE \E b \in ToSet(s.blocks) : \E e \in ToSet(b.entities) : refs[n] = At(b, e)
    <3>1. PICK b \in ToSet(s.blocks) : \E e \in ToSet(b.entities) : named[n] = [base |-> b.base, entity |-> e]
      BY <1>a, <2>2
    <3>2. PICK e \in ToSet(b.entities) : named[n] = [base |-> b.base, entity |-> e]
      BY <3>1
    <3>3. refs[n] = At(b, e)
      BY <2>1, <2>2, <3>2
    <3> QED BY <3>3
  <2>4. ASSUME NEW b \in ToSet(s.blocks), NEW e \in ToSet(b.entities) PROVE \E n \in 1..Len(refs) : refs[n] = At(b, e)
    <3>1. PICK n \in DOMAIN named : named[n] = [base |-> b.base, entity |-> e]
      BY <1>b
    <3>2. n \in 1..Len(refs) /\ refs[n] = At(b, e)
      BY <2>1, <2>2, <3>1
    <3> QED BY <3>2
  <2> QED BY <2>3, <2>4
<1> QED BY <1>5, <1>6, <1>7, <1>8, <1>9

\* The rows made of all the catalogs are to be run, each made by the rounds that go
\* through the tests.
LEMMA XMLWalk ==
  ASSUME NEW s, XML!IsCheckout(s)
  PROVE  AllRun(XML!ReadCases(s).rows) /\ \E read : RefRounds(s, read)
<1> DEFINE top == XML!ParseTopCatalog(s)
           N == Len(top.refs)
           RowOf(ref, t) == LET b == XML!BaseOf(ref, t)
                                d == XML!Front(ref.file)
                            IN [id |-> t.id, type |-> t.type, uri |-> XML!ResolveFixture(s, b, d, t.uri),
                                output |-> IF t.output = <<>> THEN <<>> ELSE XML!ResolveFixture(s, b, d, t.output),
                                skip |-> ""]
           TestsOf(ref) == UNION {ToSet(s.catalogs[f]) : f \in DOMAIN s.catalogs \cap {ref.file}}
           RowsOf(n) == {RowOf(top.refs[n], t) : t \in TestsOf(top.refs[n])}
           T == UNION {RowsOf(n) : n \in 1..N}
           W == [ok : BOOLEAN, rows : Seq(T)]
           ReadRef(w, ref) == XML!ParseCollectionCatalog(s, w, ref)
           x0 == [ok |-> top.ok, rows |-> <<>>]
           Rec(g) == [n \in 0..N |-> IF n = 0 THEN x0 ELSE ReadRef(g[n - 1], top.refs[n])]
           read == CHOOSE g : g = Rec(g)
<1>1. XML!ReadCases(s) = read[N]
  BY DEF XML!ReadCases
<1>2. N \in Nat /\ x0 \in W
  <2> HIDE DEF T
  <2> QED BY XMLRefs
<1>3. ASSUME NEW n \in 1..N, NEW w \in W PROVE ReadRef(w, top.refs[n]) \in W /\ Collected(s, w, top.refs[n], ReadRef(w, top.refs[n]))
  <2> DEFINE ref == top.refs[n]
  <2>1. ASSUME NEW t \in TestsOf(ref), NEW v \in W
        PROVE  XML!AppendTest(s, v, XML!BaseOf(ref, t), XML!Front(ref.file), t) \in W
    <3>1. RowOf(ref, t) \in RowsOf(n)
      <4> HIDE DEF RowOf, TestsOf
      <4> QED OBVIOUS
    <3>2. RowOf(ref, t) \in T
      <4> HIDE DEF RowOf, RowsOf, N, ref
      <4> QED BY <3>1
    <3> HIDE DEF T
    <3> QED BY <3>2, XMLAppends
  <2> HIDE DEF T
  <2> QED BY <2>1, XMLCollection
<1>4. ASSUME NEW r \in T PROVE r.skip = ""
  <2>1. PICK n \in 1..N : r \in RowsOf(n)
    <3> HIDE DEF RowsOf, N
    <3> QED OBVIOUS
  <2>2. PICK t \in TestsOf(top.refs[n]) : r = RowOf(top.refs[n], t)
    <3> HIDE DEF RowOf, TestsOf
    <3> QED BY <2>1
  <2> QED BY <2>2
<1> HIDE DEF ReadRef, W, N, x0, T, top
<1> DEFINE step == [n \in 1..N |-> [w \in W |-> ReadRef(w, top.refs[n])]]
<1>5. PICK g : Reads(g, W, x0, N, step)
  <2>1. step \in [1..N -> [W -> W]]
    BY <1>3
  <2> HIDE DEF step
  <2> QED BY <1>2, <2>1, ReadUpTo
<1>6. g = Rec(g)
  <2>1. g \in [0..N -> W] /\ g = [n \in 0..N |-> IF n = 0 THEN x0 ELSE step[n][g[n - 1]]]
    BY <1>5 DEF Reads
  <2>2. ASSUME NEW n \in 0..N, n # 0 PROVE step[n][g[n - 1]] = ReadRef(g[n - 1], top.refs[n])
    <3>1. n \in 1..N /\ n - 1 \in 0..N
      BY <1>2, <2>2
    <3> QED BY <2>1, <3>1
  <2> HIDE DEF step
  <2> QED BY <2>1, <2>2
<1>7. read = Rec(read)
  <2> HIDE DEF Rec
  <2> QED BY <1>6
<1> HIDE DEF read
<1> DEFINE P == {n \in 0..N : read[n] \in W}
<1>8. 0 \in P
  <2>1. 0 \in 0..N
    BY <1>2
  <2>2. Rec(read)[0] = x0
    BY <2>1
  <2> HIDE DEF Rec
  <2> QED BY <1>2, <1>7, <2>1, <2>2
<1>9. ASSUME NEW n \in 0..N, n \in P, n < N PROVE n + 1 \in P
  <2>1. n + 1 \in 0..N /\ n + 1 \in 1..N /\ n + 1 # 0 /\ n + 1 - 1 = n
    BY <1>2, <1>9
  <2>2. Rec(read)[n + 1] = ReadRef(read[n], top.refs[n + 1])
    BY <2>1
  <2>3. read[n + 1] = ReadRef(read[n], top.refs[n + 1])
    <3> HIDE DEF Rec
    <3> QED BY <1>7, <2>2
  <2>4. read[n] \in W
    BY <1>9
  <2>5. read[n + 1] \in W
    BY <1>3, <2>1, <2>3, <2>4
  <2> QED BY <2>1, <2>5
<1>p. \A n \in 0..N : n \in P
  <2> HIDE DEF P
  <2> QED BY <1>2, <1>8, <1>9, UpToInd
<1>10. N \in P
  <2>1. N \in 0..N
    BY <1>2
  <2> HIDE DEF P
  <2> QED BY <1>p, <2>1
<1>11. XML!ReadCases(s).rows \in Seq(T)
  BY <1>1, <1>10 DEF W
<1>12. AllRun(XML!ReadCases(s).rows)
  <2> DEFINE q == XML!ReadCases(s).rows
  <2>1. Len(q) \in Nat /\ \A i \in DOMAIN q : q[i] \in T
    <3> HIDE DEF q
    <3> QED BY <1>11 DEF q
  <2> HIDE DEF q
  <2>2. \A i \in DOMAIN q : q[i].skip = ""
    BY <1>4, <2>1
  <2> QED BY <2>1, <2>2 DEF AllRun, q
<1>13. RefRounds(s, read)
  <2>1. read[0] = x0
    <3>1. 0 \in 0..N
      BY <1>2
    <3>2. Rec(read)[0] = x0
      BY <3>1
    <3> HIDE DEF Rec
    <3> QED BY <1>7, <3>2
  <2>2. ASSUME NEW n \in 1..N PROVE Collected(s, read[n - 1], top.refs[n], read[n])
    <3>1. n \in 0..N /\ n # 0 /\ n - 1 \in 0..N
      BY <1>2
    <3>2. Rec(read)[n] = ReadRef(read[n - 1], top.refs[n])
      BY <3>1
    <3>3. read[n] = ReadRef(read[n - 1], top.refs[n])
      <4> HIDE DEF Rec
      <4> QED BY <1>7, <3>2
    <3>4. read[n - 1] \in W
      BY <1>p, <3>1
    <3> QED BY <1>3, <3>3, <3>4
  <2> QED BY <1>1, <2>1, <2>2 DEF RefRounds, x0, N, top
<1> QED BY <1>12, <1>13

\* The rows of xml are all to be run.
LEMMA XMLRuns ==
  ASSUME NEW s, XML!IsCheckout(s)
  PROVE  AllRun(XML!CollectTests(s).rows)
<1>1. AllRun(XML!ReadCases(s).rows)
  BY XMLWalk
<1>2. XML!CollectTests(s).rows \in {<<>>, XML!ReadCases(s).rows}
  BY DEF XML!CollectTests
<1>3. AllRun(<<>>)
  BY DEF AllRun
<1> QED BY <1>1, <1>2, <1>3

\* The plan of the manifest: of the suites that rebuild their tree it is a walk of
\* its own.
Plan == IF IsQT3 THEN QT3!ReadCatalogPlan(src) ELSE XSLT!ReadCatalogPlan(src)

\* What one walk for both makes of the manifest.
CountsRows(plan, q) == plan.cases = Len(q) /\ plan.runnable = Len(q) /\ plan.skipped = 0 /\ plan.excluded = 0

\* What the tables and the manifest are while they are generated.
CountsInv ==
  cmd = "generate" =>
    /\ pc \in {"plan", "collect", "done", "failed"}
    /\ pc = "plan" => manifest = QT3!NoPlan /\ rows = <<>>
    /\ pc = "collect" => Rebuilt /\ src.top # "absent"
    /\ pc \in {"collect", "done"} /\ Rebuilt => manifest = Plan /\ Plan.ok
    /\ pc = "done" /\ Rebuilt /\ src.top # "absent" => rows = CollectTests.rows /\ CollectTests.ok
    /\ pc = "done" /\ ~Rebuilt =>
         rows \in {<<>>, CollectTests.rows} /\ CountsRows(manifest, rows)

\* Nothing is counted at the start.
LEMMA CountsInit == Init => CountsInv
BY DEF Init, CountsInv

\* Each step counts what it makes.
LEMMA CountsStep == ASSUME CountsInv, [Next]_vars PROVE CountsInv'
<1>1. src' = src /\ cmd' = cmd
  BY DEF Next, vars, RemoveAll, WriteManifest, Tabulate, Collect, CopyFiles, PopulateFixtures, CopyOverlay, Judge
<1>2. CollectTests' = CollectTests /\ Rebuilt' = Rebuilt /\ Plan' = Plan
  BY <1>1 DEF CollectTests, Plan, Rebuilt, IsQT3, IsXSLT, IsXSTS, IsXML
<1>3. ASSUME cmd = "generate" PROVE CountsInv'
  <2> USE DEF CountsInv
  <2>1. CASE RemoveAll \/ CopyFiles \/ PopulateFixtures \/ CopyOverlay
    BY <1>3, <2>1 DEF RemoveAll, CopyFiles, PopulateFixtures, CopyOverlay
  <2>2. CASE WriteManifest
    <3>1. /\ pc = "plan" /\ Rebuilt /\ UNCHANGED rows
          /\ manifest' = IF Plan.ok THEN Plan ELSE manifest
          /\ pc' = CASE ~Plan.ok -> "failed"
                     [] Plan.ok /\ src.top = "absent" -> "done"
                     [] OTHER -> "collect"
      BY <2>2 DEF WriteManifest, Plan
    <3> QED BY <1>1, <1>2, <1>3, <3>1
  <2>3. CASE Tabulate
    <3>1. pc = "plan" /\ ~Rebuilt /\ manifest = QT3!NoPlan /\ rows = <<>>
      BY <1>3, <2>3 DEF Tabulate
    <3>2. CASE src.dir = "absent"
      <4>1. pc' = "done" /\ manifest' = QT3!NoPlan /\ rows' = <<>>
        BY <2>3, <3>1, <3>2 DEF Tabulate
      <4>2. CountsRows(manifest', rows')
        BY <4>1 DEF QT3!NoPlan, CountsRows
      <4> QED BY <1>1, <1>2, <3>1, <4>1, <4>2
    <3>3. CASE src.dir # "absent"
      <4>1. /\ pc' \in {"done", "failed"} /\ rows' = CollectTests.rows
            /\ manifest' = [QT3!NoPlan EXCEPT !.cases = Len(rows'), !.runnable = Len(rows')]
        BY <2>3, <3>1, <3>3 DEF Tabulate
      <4>2. CountsRows(manifest', rows')
        BY <4>1 DEF QT3!NoPlan, CountsRows
      <4> QED BY <1>1, <1>2, <3>1, <4>1, <4>2
    <3> QED BY <3>2, <3>3
  <2>4. CASE Collect
    <3>1. /\ pc = "collect" /\ rows' = CollectTests.rows /\ UNCHANGED manifest
          /\ \/ pc' = "done" /\ CollectTests.ok
             \/ pc' = "failed"
      BY <1>3, <2>4 DEF Collect
    <3> QED BY <1>1, <1>2, <1>3, <3>1
  <2>5. CASE Judge
    BY <1>1, <1>2, <1>3, <2>5 DEF Judge
  <2>6. CASE UNCHANGED vars
    BY <1>1, <1>2, <1>3, <2>6 DEF vars
  <2> QED BY <2>1, <2>2, <2>3, <2>4, <2>5, <2>6 DEF Next
<1> QED BY <1>1, <1>3 DEF CountsInv

\* Of a suite with one walk for both, the manifest counts the rows.
LEMMA OneWalkAgrees ==
  ASSUME NEW q, AllRun(q), NEW plan, CountsRows(plan, q)
  PROVE  CountsAgree(plan, q)
<1> DEFINE X == {i \in DOMAIN q : q[i].skip # ""}
           Y == {i \in DOMAIN q : q[i].skip \in LateReasons}
<1>1. X = {} /\ Y = {}
  BY DEF AllRun, LateReasons
<1>2. Cardinality(X) = 0 /\ Cardinality(Y) = 0
  <2> HIDE DEF X, Y
  <2> QED BY <1>1, FS_EmptySet
<1> DEFINE n == Len(q)
           x == Cardinality(X)
           y == Cardinality(Y)
<1>3. n \in Nat /\ plan.cases = n /\ plan.runnable = n /\ plan.skipped = 0 /\ plan.excluded = 0
  BY DEF AllRun, CountsRows
<1>4. x = 0 /\ y = 0
  BY <1>2
<1> HIDE DEF n, x, y, X, Y
<1>5. plan.cases = plan.excluded + n /\ plan.runnable + plan.skipped = n /\ plan.skipped \in (x - y)..x
  BY <1>3, <1>4
<1> QED BY <1>5 DEF CountsAgree, n, x, y, X, Y

\* The counts of what was generated agree with it.
LEMMA CountsSuffice == ASSUME CountsInv, SourceInv PROVE CountsMatchTables
<1> SUFFICES ASSUME cmd = "generate", pc = "done", src.top = "good",
                    IsXSLT => src.stray = "absent" /\ ~XSLT!StrmExcluded(src)
             PROVE  CountsAgree(manifest, rows)
  BY DEF CountsMatchTables, CountsAgree, Skipped
<1>1. IsQT3 \/ IsXSLT \/ IsXSTS \/ IsXML
  BY CheckoutAssumption DEF SourceInv, IsQT3, IsXSLT, IsXSTS, IsXML
<1>2. CASE IsQT3
  <2>1. manifest = QT3!ReadCatalogPlan(src) /\ QT3!ReadCatalogPlan(src).ok
    BY <1>2 DEF CountsInv, Rebuilt, Plan
  <2>2. rows = QT3!CollectTests(src).rows /\ QT3!CollectTests(src).ok /\ QT3!IsCheckout(src)
    BY <1>2, TheCheckout DEF CountsInv, Rebuilt
  <2> QED BY <2>1, <2>2, QT3CountsAgree
<1>3. CASE IsXSLT
  <2>1. manifest = XSLT!ReadCatalogPlan(src) /\ XSLT!ReadCatalogPlan(src).ok
    BY <1>3 DEF CountsInv, Rebuilt, Plan, IsQT3, IsXSLT
  <2>2. rows = XSLT!CollectTests(src).rows /\ XSLT!CollectTests(src).ok /\ XSLT!IsCheckout(src)
    BY <1>3, TheCheckout DEF CountsInv, Rebuilt
  <2> QED BY <1>3, <2>1, <2>2, XSLTCountsAgree
<1>4. CASE IsXSTS \/ IsXML
  <2>1. ~Rebuilt
    BY <1>4 DEF Rebuilt, IsQT3, IsXSLT, IsXSTS, IsXML
  <2>2. AllRun(CollectTests.rows)
    BY <1>4, TheCheckout, XSTSRuns, XMLRuns
  <2>3. AllRun(<<>>)
    BY DEF AllRun
  <2>4. AllRun(rows) /\ CountsRows(manifest, rows)
    BY <2>1, <2>2, <2>3 DEF CountsInv
  <2> QED BY <2>4, OneWalkAgrees
<1> QED BY <1>1, <1>2, <1>3, <1>4

\* "The manifest's runnable/skipped counts stay consistent with the emitted case
\* tables" (plan.go): no case is lost between the walk that counts and the one that
\* makes tables, and they skip the same but for what the second alone looks at.
THEOREM CountsAlwaysMatchTables == Spec => []CountsMatchTables
<1>1. Init => CountsInv /\ SourceInv
  BY CountsInit, CopiedInit
<1>2. CountsInv /\ SourceInv /\ [Next]_vars => (CountsInv /\ SourceInv)'
  <2>1. SourceInv /\ [Next]_vars => SourceInv'
    BY DEF SourceInv, Next, vars, RemoveAll, WriteManifest, Tabulate, Collect, CopyFiles, PopulateFixtures, CopyOverlay, Judge
  <2> QED BY <2>1, CountsStep
<1>3. CountsInv /\ SourceInv => CountsMatchTables
  BY CountsSuffice
<1> QED BY <1>1, <1>2, <1>3, PTL DEF Spec

-------------------------------------------------------------------------------
(* Rows and what the catalogs of xsd11 state *)

\* The catalogs of xsd11 and xml use the helpers of paths and lists.
LEMMA SamePaths ==
  /\ \A q : XML!Clean(q) = Clean(q) /\ XSTS!Clean(q) = Clean(q)
  /\ \A p : XML!ContainedPath(p) = ContainedPath(p) /\ XSTS!ContainedPath(p) = ContainedPath(p)
  /\ \A q : XML!IsPath(q) = (q \in Seq(STRING))
<1>1. \A p, n : XML!Onto(p, n) = Onto(p, n) /\ XSTS!Onto(p, n) = Onto(p, n)
  BY DEF Onto, XML!Onto, XSTS!Onto, Last, XML!Last, XSTS!Last, Front, XML!Front, XSTS!Front
<1>2. \A q : XML!Clean(q) = Clean(q) /\ XSTS!Clean(q) = Clean(q)
  BY <1>1 DEF Clean, XML!Clean, XSTS!Clean
<1>3. \A p : XML!ContainedPath(p) = ContainedPath(p) /\ XSTS!ContainedPath(p) = ContainedPath(p)
  BY DEF ContainedPath, XML!ContainedPath, XSTS!ContainedPath
<1>4. \A q : XML!IsPath(q) = (q \in Seq(STRING))
  BY DEF XML!IsPath
<1> QED BY <1>2, <1>3, <1>4

\* The verdict picked for a version is one the catalog states for it, where that
\* decides.
LEMMA PickIs ==
  ASSUME NEW exps, IsList(exps), NEW v, XSTS!Decides(exps, v)
  PROVE  XSTS!PickValidity(exps, v) \in XSTS!Stated(exps, v) /\ XSTS!PickValidity(exps, v) \in {"valid", "invalid"}
<1> DEFINE none == [validity |-> "none", version |-> ""]
           Of(w) == {e \in ToSet(exps) : e.version = w}
           T == ToSet(exps) \cup {none}
           a == Among(exps, Of(v))
           b == Among(exps, Of(""))
           c == Append(exps, none)
           chosen == Head((a \o b) \o c)
           Verdicts(w) == {e.validity : e \in Of(w)}
<1>1. /\ XSTS!PickValidity(exps, v) = IF chosen.validity \in {"valid", "invalid"} THEN chosen.validity ELSE "none"
      /\ XSTS!Stated(exps, v) = IF Verdicts(v) # {} THEN Verdicts(v) ELSE Verdicts("")
  BY SameHelpers, Zenon DEF XSTS!PickValidity, XSTS!Stated
<1>2. a \in Seq(T) /\ b \in Seq(T) /\ c \in Seq(T)
  <2>1. \A S : Among(exps, S) \in Seq(ToSet(exps) \cap S)
    BY AmongIs
  <2>2. \A S : \A q \in Seq(ToSet(exps) \cap S) : q \in Seq(T)
    <3> HIDE DEF none
    <3> QED OBVIOUS
  <2>3. exps \in Seq(ToSet(exps))
    BY DEF IsList
  <2>4. \A q \in Seq(ToSet(exps)) : Append(q, none) \in Seq(T)
    <3> HIDE DEF none
    <3> QED OBVIOUS
  <2> HIDE DEF none, T
  <2> QED BY <2>1, <2>2, <2>3, <2>4, Zenon
<1>3. ToSet(a) = Of(v) /\ ToSet(b) = Of("")
  <2>1. \A S : ToSet(Among(exps, S)) = ToSet(exps) \cap S
    BY AmongIs
  <2>2. \A w : ToSet(exps) \cap Of(w) = Of(w)
    OBVIOUS
  <2> HIDE DEF Of
  <2> QED BY <2>1, <2>2, Zenon
<1>4. XSTS!Stated(exps, v) # {} /\ XSTS!Stated(exps, v) \subseteq {"valid", "invalid"}
  BY DEF XSTS!Decides
<1>5. ToSet(<<>>) = {}
  BY Single
<1> HIDE DEF none, c, T
<1>6. /\ a # <<>> => chosen \in ToSet(a)
      /\ a = <<>> /\ b # <<>> => chosen \in ToSet(b)
  <2> HIDE DEF a, b
  <2> QED BY <1>2, HeadOfThree
<1> HIDE DEF a, b, Of, chosen
<1>7. chosen.validity \in XSTS!Stated(exps, v)
  <2>1. CASE a # <<>>
    <3>1. chosen.validity \in Verdicts(v)
      BY <1>3, <1>6, <2>1, Zenon
    <3> QED BY <1>1, <3>1, Zenon
  <2>2. CASE a = <<>>
    <3>1. Verdicts(v) = {}
      BY <1>3, <1>5, <2>2, Zenon
    <3>2. Verdicts("") # {}
      BY <1>1, <1>4, <3>1, Zenon
    <3>3. b # <<>>
      BY <1>3, <1>5, <3>2, Zenon
    <3>4. chosen.validity \in Verdicts("")
      BY <1>3, <1>6, <2>2, <3>3, Zenon
    <3> QED BY <1>1, <3>1, <3>4, Zenon
  <2> QED BY <2>1, <2>2
<1>8. chosen.validity \in {"valid", "invalid"}
  BY <1>4, <1>7
<1> QED BY <1>1, <1>7, <1>8, Zenon

\* The set referred to and the group in it, which make the rows of their names.
RowsNamed(rs, t, g) == {i \in DOMAIN rs : rs[i].set = t.href /\ rs[i].name = g.name}
OneRow(rs, t, g, runs, r) ==
  /\ runs => Cardinality(RowsNamed(rs, t, g)) = 1
  /\ \A i \in RowsNamed(rs, t, g) : runs /\ rs[i] = r

\* parts are the rows of each of the sets, part those of the set t.
PartsOf(parts, sets, T, t, part) ==
  /\ parts \in Seq(Seq(T)) /\ Len(parts) = Len(sets)
  /\ \A i \in 1..Len(parts) : \A r \in ToSet(parts[i]) : r.set = sets[i].href
  /\ \A i \in 1..Len(parts) : sets[i] = t => parts[i] = part

\* t is one of the sets that count, whose rows alone have its name.
OneOfSet(s, Here, sets, T, parts, t, part, S) ==
  /\ XSTS!IsCheckout(s) /\ Here \subseteq XSTS!PresentSets(s, s.files) /\ t \in Here /\ sets = Among(s.sets, Here)
  /\ PartsOf(parts, sets, T, t, part) /\ \A r \in S : r.set = t.href

\* Then the whole has of that name what the part has.
LEMMA OneSet ==
  ASSUME NEW s, NEW Here, NEW sets, NEW T, NEW parts, NEW t, NEW part, NEW S, OneOfSet(s, Here, sets, T, parts, t, part, S)
  PROVE  /\ Count(FlattenSeq(parts), S) = Count(part, S)
         /\ ToSet(FlattenSeq(parts)) \cap S = ToSet(part) \cap S
<1>h. /\ XSTS!IsCheckout(s) /\ Here \subseteq XSTS!PresentSets(s, s.files) /\ t \in Here /\ sets = Among(s.sets, Here)
      /\ PartsOf(parts, sets, T, t, part) /\ \A r \in S : r.set = t.href
  BY DEF OneOfSet
<1> DEFINE R == {u \in ToSet(s.sets) : u.href = t.href}
<1>p. /\ parts \in Seq(Seq(T)) /\ Len(parts) = Len(sets)
      /\ \A i \in 1..Len(parts) : \A r \in ToSet(parts[i]) : r.set = sets[i].href
      /\ \A i \in 1..Len(parts) : sets[i] = t => parts[i] = part
  BY <1>h DEF PartsOf
<1>1. IsList(s.sets) /\ \A u \in Here : u \in ToSet(s.sets) /\ u.href # <<>>
  BY <1>h, SameHelpers DEF XSTS!PresentSets, XSTS!IsCheckout
<1>2. ASSUME NEW i \in DOMAIN s.sets, NEW j \in DOMAIN s.sets, s.sets[i] \in R, s.sets[j] \in R PROVE i = j
  <2>1. s.sets[i].href = t.href /\ s.sets[j].href = t.href /\ t.href # <<>>
    BY <1>h, <1>1, <1>2
  <2> QED BY <1>h, <2>1 DEF XSTS!IsCheckout
<1>3. \A i, j \in DOMAIN sets : sets[i] \in R /\ sets[j] \in R => i = j
  <2> HIDE DEF R
  <2> QED BY <1>h, <1>1, <1>2, AmongAlone
<1>4. sets \in Seq(ToSet(s.sets) \cap Here) /\ ToSet(sets) = ToSet(s.sets) \cap Here
  BY <1>h, <1>1, AmongIs
<1>5. IsList(sets)
  <2> QED BY <1>4, AList
<1>6. /\ DOMAIN sets = 1..Len(sets) /\ \A i \in DOMAIN sets : sets[i] \in ToSet(sets)
      /\ \E i \in DOMAIN sets : sets[i] = t
  <2>1. t \in ToSet(sets)
    BY <1>h, <1>1, <1>4
  <2> QED BY <1>5, <2>1, Places
<1>7. PICK k \in DOMAIN sets : sets[k] = t
  BY <1>6
<1>8. k \in 1..Len(parts) /\ parts[k] = part
  BY <1>p, <1>6, <1>7
<1>9. ASSUME NEW i \in 1..Len(parts), i # k PROVE ToSet(parts[i]) \cap S = {}
  <2>1. i \in DOMAIN sets
    BY <1>p, <1>6
  <2>2. sets[i] \in ToSet(s.sets) /\ sets[k] \in ToSet(s.sets)
    BY <1>4, <1>6, <1>7, <2>1
  <2>3. sets[i].href # t.href
    BY <1>3, <1>7, <1>9, <2>1, <2>2
  <2>4. \A r \in ToSet(parts[i]) : r.set = sets[i].href
    BY <1>p
  <2> QED BY <1>h, <2>3, <2>4
<1> QED
  <2>1. PICK ss \in Seq(Seq(T)) : ss = parts
    BY <1>p
  <2>2. k \in 1..Len(ss) /\ \A i \in 1..Len(ss) : i # k => ToSet(ss[i]) \cap S = {}
    BY <1>8, <1>9, <2>1
  <2>3. /\ Count(FlattenSeq(ss), S) = Count(ss[k], S)
        /\ ToSet(FlattenSeq(ss)) \cap S = ToSet(ss[k]) \cap S
    BY <2>2, OnePart
  <2> QED BY <1>8, <2>1, <2>3

\* Of rows all from T, those of the name of t and g are in S, and are r if there is one.
NamedRows(rs, T, S, t, g, runs, r) ==
  /\ rs \in Seq(T) /\ runs \in BOOLEAN /\ \A x : x \in S <=> x \in T /\ x.set = t.href /\ x.name = g.name
  /\ runs => Count(rs, S) = 1
  /\ ToSet(rs) \cap S \subseteq {x \in {r} : runs}

\* Of rows all from T, what counts and what there is of a name say which they are.
LEMMA NamedIs ==
  ASSUME NEW rs, NEW T, NEW S, NEW t, NEW g, NEW runs, NEW r, NamedRows(rs, T, S, t, g, runs, r)
  PROVE  OneRow(rs, t, g, runs, r)
<1>n. /\ rs \in Seq(T) /\ \A x : x \in S <=> x \in T /\ x.set = t.href /\ x.name = g.name
      /\ runs => Count(rs, S) = 1
      /\ ToSet(rs) \cap S \subseteq {x \in {r} : runs}
  BY DEF NamedRows
<1>1. \A i \in DOMAIN rs : rs[i] \in T /\ rs[i] \in ToSet(rs)
  BY <1>n DEF ToSet
<1>2. RowsNamed(rs, t, g) = {i \in DOMAIN rs : rs[i] \in S}
  BY <1>n, <1>1 DEF RowsNamed
<1>3. runs => Cardinality(RowsNamed(rs, t, g)) = 1
  BY <1>n, <1>2 DEF Count
<1>4. \A i \in RowsNamed(rs, t, g) : runs /\ rs[i] = r
  BY <1>n, <1>1, <1>2
<1> QED BY <1>3, <1>4 DEF OneRow

\* Groups of a set that have one name are the same.
LEMMA SameGroup ==
  ASSUME NEW s, XSTS!IsCheckout(s), NEW t \in ToSet(s.sets)
  PROVE  /\ IsList(t.groups)
         /\ \A i, j \in DOMAIN t.groups : t.groups[i].name = t.groups[j].name => i = j
         /\ \A g, h \in ToSet(t.groups) : g.name = h.name => g = h
<1>1. IsList(t.groups) /\ \A i, j \in DOMAIN t.groups : t.groups[i].name = t.groups[j].name => i = j
  BY SameHelpers DEF XSTS!IsCheckout
<1>2. \A g \in ToSet(t.groups) : \E i \in DOMAIN t.groups : t.groups[i] = g
  BY <1>1, Places
<1> QED BY <1>1, <1>2

\* When a group makes a row of XSD 1.1, and which.
Runs11(s, t, g) ==
  XSTS!Applies11(g, t) /\ XSTS!Usable(g, "1.1") /\ XSTS!Docs(t, g)[1] \in XSTS!SchemaClosure(s, XSTS!ToSet(XSTS!Docs(t, g)))
Row11(s, t, g) == XSTS!Row(t, g, "1.1", XSTS!Kept(s, t, g))

\* Each group has that row of its name and no other.
LEMMA Rows11 ==
  ASSUME NEW s, XSTS!IsCheckout(s), NEW t \in XSTS!PresentSets(s, s.files), NEW g \in ToSet(t.groups)
  PROVE  OneRow(XSTS!ReadCases(s), t, g, Runs11(s, t, g), Row11(s, t, g))
<1> DEFINE Part(u, h) == IF Runs11(s, u, h) THEN <<Row11(s, u, h)>> ELSE <<>>
           Of(u) == FlattenSeq([i \in DOMAIN u.groups |-> Part(u, u.groups[i])])
           Here == XSTS!PresentSets(s, s.files)
           sets == Among(s.sets, Here)
           parts == [i \in DOMAIN sets |-> Of(sets[i])]
           T == UNION {{Row11(s, u, h) : h \in ToSet(u.groups)} : u \in Here}
           S == {x \in T : x.set = t.href /\ x.name = g.name}
<1>1. XSTS!ReadCases(s) = FlattenSeq(parts)
  <2>1. \A u, h : Part(u, h) = IF XSTS!Applies11(h, u) THEN XSTS!BuildCase(s, u, h) ELSE <<>>
    BY DEF Runs11, Row11, XSTS!BuildCase
  <2>2. XSTS!ReadCases(s) = FlattenSeq([i \in DOMAIN sets |-> FlattenSeq([k \in DOMAIN sets[i].groups |->
          IF XSTS!Applies11(sets[i].groups[k], sets[i]) THEN XSTS!BuildCase(s, sets[i], sets[i].groups[k]) ELSE <<>>])])
    BY SameHelpers DEF XSTS!ReadCases, XSTS!Present
  <2> HIDE DEF Part, sets
  <2> QED BY <2>1, <2>2
<1>2. Here \subseteq ToSet(s.sets) /\ IsList(s.sets) /\ t \in Here
  BY SameHelpers DEF XSTS!PresentSets, XSTS!IsCheckout
<1>3. ASSUME NEW u \in Here, NEW h \in ToSet(u.groups)
      PROVE  /\ Part(u, h) \in Seq(T)
             /\ \A r \in ToSet(Part(u, h)) : Runs11(s, u, h) /\ r = Row11(s, u, h) /\ r.set = u.href /\ r.name = h.name
  <2> DEFINE r == Row11(s, u, h)
             q == <<r>>
  <2>1. r \in T
    <3> HIDE DEF Here
    <3> QED OBVIOUS
  <2>2. r.set = u.href /\ r.name = h.name
    BY DEF Row11, XSTS!Row
  <2> HIDE DEF r, T
  <2>3. q \in Seq(T) /\ <<>> \in Seq(T)
    BY <2>1
  <2>4. ToSet(q) = {r} /\ ToSet(<<>>) = {}
    BY Single
  <2> HIDE DEF q
  <2>5. Part(u, h) = IF Runs11(s, u, h) THEN q ELSE <<>>
    BY DEF q, r
  <2> HIDE DEF Part
  <2> QED BY <2>2, <2>3, <2>4, <2>5 DEF r
<1> HIDE DEF Part, T
<1>4. ASSUME NEW u \in Here
      PROVE  LET ps == [i \in DOMAIN u.groups |-> Part(u, u.groups[i])]
             IN ps \in Seq(Seq(T)) /\ Len(ps) = Len(u.groups) /\ DOMAIN u.groups = 1..Len(u.groups)
                /\ Of(u) \in Seq(T) /\ \A r \in ToSet(Of(u)) : r.set = u.href
  <2> DEFINE ps == [i \in DOMAIN u.groups |-> Part(u, u.groups[i])]
  <2>1. Len(u.groups) \in Nat /\ DOMAIN u.groups = 1..Len(u.groups) /\ \A i \in DOMAIN u.groups : u.groups[i] \in ToSet(u.groups)
    BY <1>2, SameGroup, Places
  <2>2. ps \in [1..Len(u.groups) -> Seq(T)]
    <3> HIDE DEF Here
    <3> QED BY <1>3, <2>1
  <2>3. \A i \in DOMAIN u.groups : ps[i] = Part(u, u.groups[i])
    OBVIOUS
  <2>4. Of(u) = FlattenSeq(ps)
    OBVIOUS
  <2> HIDE DEF ps, Of
  <2>5. ps \in Seq(Seq(T)) /\ Len(ps) = Len(u.groups) /\ DOMAIN ps = DOMAIN u.groups
    BY <2>1, <2>2, ListOf
  <2>6. Of(u) \in Seq(T) /\ ToSet(Of(u)) = UNION {ToSet(ps[i]) : i \in DOMAIN ps}
    BY <2>4, <2>5, FlattenIs
  <2>7. ASSUME NEW r \in ToSet(Of(u)) PROVE r.set = u.href
    <3>1. PICK i \in DOMAIN ps : r \in ToSet(ps[i])
      BY <2>6
    <3> HIDE DEF Here
    <3> QED BY <1>3, <2>1, <2>3, <2>5, <3>1
  <2> QED BY <2>1, <2>5, <2>6, <2>7 DEF ps
<1>5. /\ Count(Of(t), S) = Count(Part(t, g), S)
      /\ ToSet(Of(t)) \cap S = ToSet(Part(t, g)) \cap S
  <2> DEFINE ps == [i \in DOMAIN t.groups |-> Part(t, t.groups[i])]
  <2>1. ps \in Seq(Seq(T)) /\ Len(ps) = Len(t.groups) /\ DOMAIN t.groups = 1..Len(t.groups)
    BY <1>4
  <2>2. IsList(t.groups) /\ t \in ToSet(s.sets)
    BY <1>2, SameGroup
  <2>3. PICK k \in DOMAIN t.groups : t.groups[k] = g
    BY <2>2, Places
  <2>4. ASSUME NEW i \in DOMAIN t.groups, i # k PROVE ToSet(Part(t, t.groups[i])) \cap S = {}
    <3>1. t.groups[i].name # g.name /\ t.groups[i] \in ToSet(t.groups)
      <4>1. \A j, l \in DOMAIN t.groups : t.groups[j].name = t.groups[l].name => j = l
        BY <2>2, SameGroup
      <4>2. t.groups[i] \in ToSet(t.groups)
        BY <2>2, Places
      <4> QED BY <2>3, <2>4, <4>1, <4>2
    <3>2. \A r \in ToSet(Part(t, t.groups[i])) : r.name = t.groups[i].name
      BY <1>3, <3>1
    <3> QED BY <3>1, <3>2
  <2>5. \A i \in DOMAIN t.groups : ps[i] = Part(t, t.groups[i])
    OBVIOUS
  <2>6. k \in 1..Len(ps) /\ ps[k] = Part(t, g) /\ \A i \in 1..Len(ps) : i # k => ToSet(ps[i]) \cap S = {}
    <3> HIDE DEF ps, S
    <3> QED BY <2>1, <2>3, <2>4, <2>5
  <2>7. Of(t) = FlattenSeq(ps)
    OBVIOUS
  <2> HIDE DEF ps, S, Of
  <2>8. /\ Count(FlattenSeq(ps), S) = Count(ps[k], S)
        /\ ToSet(FlattenSeq(ps)) \cap S = ToSet(ps[k]) \cap S
    BY <2>1, <2>6, OnePart
  <2> QED BY <2>6, <2>7, <2>8
<1>6. parts \in Seq(Seq(T)) /\ Len(parts) = Len(sets) /\ DOMAIN sets = 1..Len(sets) /\ \A i \in DOMAIN sets : sets[i] \in Here
  <2>1. sets \in Seq(ToSet(s.sets) \cap Here)
    BY <1>2, AmongIs
  <2>2. Len(sets) \in Nat /\ DOMAIN sets = 1..Len(sets) /\ \A i \in DOMAIN sets : sets[i] \in Here
    <3> HIDE DEF sets, Here
    <3> QED BY <2>1
  <2>3. parts \in [1..Len(sets) -> Seq(T)]
    <3> HIDE DEF sets, Here, Of
    <3> QED BY <1>4, <2>2
  <2> HIDE DEF parts, sets
  <2> QED BY <2>2, <2>3, ListOf
<1>7. /\ Count(FlattenSeq(parts), S) = Count(Of(t), S)
      /\ ToSet(FlattenSeq(parts)) \cap S = ToSet(Of(t)) \cap S
  <2>1. \A i \in DOMAIN sets : parts[i] = Of(sets[i])
    OBVIOUS
  <2>2. \A i \in 1..Len(parts) : \A r \in ToSet(parts[i]) : r.set = sets[i].href
    <3> HIDE DEF parts, sets, Here, Of
    <3> QED BY <1>4, <1>6, <2>1
  <2>3. \A i \in 1..Len(parts) : sets[i] = t => parts[i] = Of(t)
    <3> HIDE DEF parts, sets, Here, Of
    <3> QED BY <1>6, <2>1
  <2>4. \A r \in S : r.set = t.href
    OBVIOUS
  <2>5. parts \in Seq(Seq(T)) /\ Len(parts) = Len(sets) /\ sets = Among(s.sets, Here) /\ Here \subseteq XSTS!PresentSets(s, s.files)
    BY <1>6
  <2> DEFINE part == Of(t)
  <2>6. \A i \in 1..Len(parts) : sets[i] = t => parts[i] = part
    BY <2>3
  <2> HIDE DEF parts, S, Of, sets, part
  <2>8. PartsOf(parts, sets, T, t, part)
    BY <2>2, <2>5, <2>6 DEF PartsOf
  <2>7. /\ Count(FlattenSeq(parts), S) = Count(part, S)
        /\ ToSet(FlattenSeq(parts)) \cap S = ToSet(part) \cap S
    <3>1. t \in Here
      BY <1>2
    <3> HIDE DEF Here
    <3>2. OneOfSet(s, Here, sets, T, parts, t, part, S)
      BY <2>4, <2>5, <2>8, <3>1 DEF OneOfSet
    <3> QED BY <3>2, OneSet
  <2> QED BY <2>7 DEF part
<1> DEFINE rs == FlattenSeq(parts)
<1>8. rs \in Seq(T)
  <2> HIDE DEF parts
  <2> QED BY <1>6, FlattenIs
<1>9. Runs11(s, t, g) => Count(Part(t, g), S) = 1
  <2>1. ASSUME Runs11(s, t, g) PROVE Part(t, g) = <<Row11(s, t, g)>> /\ Row11(s, t, g) \in S
    <3>1. Part(t, g) = <<Row11(s, t, g)>>
      BY <2>1 DEF Part
    <3>2. Row11(s, t, g).set = t.href /\ Row11(s, t, g).name = g.name
      BY DEF Row11, XSTS!Row
    <3>3. Row11(s, t, g) \in T
      <4> HIDE DEF Here
      <4> QED BY <1>2 DEF T
    <3> QED BY <3>1, <3>2, <3>3
  <2> HIDE DEF S
  <2> QED BY <2>1, Single
<1>10. ToSet(Part(t, g)) \subseteq {x \in {Row11(s, t, g)} : Runs11(s, t, g)}
  BY <1>3
<1>11. Runs11(s, t, g) \in BOOLEAN
  BY DEF Runs11, XSTS!Applies11, XSTS!Usable
<1> HIDE DEF rs, parts, Of
<1>12. /\ Runs11(s, t, g) => Count(rs, S) = 1
       /\ ToSet(rs) \cap S \subseteq {x \in {Row11(s, t, g)} : Runs11(s, t, g)}
  <2> HIDE DEF S
  <2> QED BY <1>5, <1>7, <1>9, <1>10 DEF rs
<1>13. \A x : x \in S <=> x \in T /\ x.set = t.href /\ x.name = g.name
  OBVIOUS
<1> DEFINE runs == Runs11(s, t, g)
           row == Row11(s, t, g)
<1>14. runs \in BOOLEAN /\ (runs => Count(rs, S) = 1) /\ ToSet(rs) \cap S \subseteq {x \in {row} : runs}
  BY <1>11, <1>12
<1> HIDE DEF S, runs, row
<1>15. NamedRows(rs, T, S, t, g, runs, row)
  BY <1>8, <1>13, <1>14 DEF NamedRows
<1>16. OneRow(rs, t, g, runs, row)
  BY <1>15, NamedIs
<1> QED BY <1>1, <1>16 DEF rs, runs, row

\* When a group makes a row of XSD 1.0, and which.
Runs10(t, g) == XSTS!Applies10(g, t) /\ XSTS!Usable(g, "1.0")
Row10(t, g) == XSTS!Row(t, g, "1.0", XSTS!Decided(g, "1.0"))

\* The groups of a set that make a row of XSD 1.0, each of its name.
Gs10(u) == Among(u.groups, {h \in ToSet(u.groups) : Runs10(u, h)})
OneEach(gs, u) ==
  /\ Len(gs) \in Nat /\ DOMAIN gs = 1..Len(gs)
  /\ \A i \in DOMAIN gs : gs[i] \in ToSet(u.groups) /\ Runs10(u, gs[i])
  /\ \A g \in ToSet(u.groups) : Runs10(u, g) => \E i \in DOMAIN gs : gs[i] = g
  /\ \A i, j \in DOMAIN gs : gs[i].name = gs[j].name => i = j

\* Of a name there is one group at most.
LEMMA Groups10 == ASSUME NEW s, XSTS!IsCheckout(s), NEW u \in ToSet(s.sets) PROVE OneEach(Gs10(u), u)
<1> DEFINE gs == Gs10(u)
           G == {h \in ToSet(u.groups) : Runs10(u, h)}
<1>1. IsList(u.groups) /\ \A i, j \in DOMAIN u.groups : u.groups[i].name = u.groups[j].name => i = j
  BY SameGroup
<1>2. gs = Among(u.groups, G)
  BY DEF Gs10
<1> HIDE DEF gs
<1>0. gs \in Seq(ToSet(u.groups) \cap G) /\ ToSet(gs) = ToSet(u.groups) \cap G
  BY <1>1, <1>2, AmongIs
<1>3. IsList(gs)
  <2> HIDE DEF G
  <2> QED BY <1>0, AList
<1>4. /\ Len(gs) \in Nat /\ DOMAIN gs = 1..Len(gs) /\ \A i \in DOMAIN gs : gs[i] \in ToSet(gs)
      /\ \A x \in ToSet(gs) : \E i \in DOMAIN gs : gs[i] = x
  BY <1>3, Places
<1>5. ASSUME NEW n PROVE \A i, j \in DOMAIN gs : gs[i].name = n /\ gs[j].name = n => i = j
  <2> DEFINE R == {h \in ToSet(u.groups) : h.name = n}
  <2>1. \A i, j \in DOMAIN u.groups : u.groups[i] \in R /\ u.groups[j] \in R => i = j
    BY <1>1
  <2>2. \A i, j \in DOMAIN gs : gs[i] \in R /\ gs[j] \in R => i = j
    <3> HIDE DEF R, G
    <3> QED BY <1>1, <1>2, <2>1, AmongAlone
  <2>3. \A i \in DOMAIN gs : gs[i] \in ToSet(u.groups)
    BY <1>0, <1>4
  <2> QED BY <2>2, <2>3
<1> QED BY <1>0, <1>4, <1>5 DEF OneEach, gs

\* Each group has that row of its name and no other.
LEMMA Rows10 ==
  ASSUME NEW s, XSTS!IsCheckout(s), XSTS!Readable(s), NEW t \in XSTS!PresentSets(s, s.files), NEW g \in ToSet(t.groups)
  PROVE  OneRow(XSTS!BuildXSD10Cases(s, s.files), t, g, Runs10(t, g), Row10(t, g))
<1> DEFINE Of(u) == [i \in DOMAIN Gs10(u) |-> Row10(u, Gs10(u)[i])]
           Here == XSTS!PresentSets(s, s.files)
           sets == Among(s.sets, Here)
           parts == [i \in DOMAIN sets |-> Of(sets[i])]
           T == UNION {{Row10(u, h) : h \in ToSet(u.groups)} : u \in Here}
           S == {x \in T : x.set = t.href /\ x.name = g.name}
<1>1. XSTS!BuildXSD10Cases(s, s.files) = FlattenSeq(parts)
  <2>1. {u \in Here : u.parses} = Here
    BY DEF XSTS!Readable
  <2>2. XSTS!SuiteXML \in s.files
    BY DEF XSTS!Readable
  <2>3. \A u : Of(u) = LET groups == XSTS!Among(u.groups, {h \in XSTS!ToSet(u.groups) : XSTS!Applies10(h, u) /\ XSTS!Usable(h, "1.0")})
                       IN [i \in DOMAIN groups |-> XSTS!Row(u, groups[i], "1.0", XSTS!Decided(groups[i], "1.0"))]
    BY SameHelpers DEF Runs10, Row10, Gs10
  <2> HIDE DEF Of
  <2> QED BY <2>1, <2>2, <2>3, SameHelpers DEF XSTS!BuildXSD10Cases
<1>2. Here \subseteq ToSet(s.sets) /\ IsList(s.sets) /\ t \in Here
  BY SameHelpers DEF XSTS!PresentSets, XSTS!IsCheckout
<1>3. ASSUME NEW u \in Here, NEW h \in ToSet(u.groups)
      PROVE  Row10(u, h) \in T /\ Row10(u, h).set = u.href /\ Row10(u, h).name = h.name
  <2>1. Row10(u, h) \in T
    <3> HIDE DEF Here
    <3> QED OBVIOUS
  <2>2. Row10(u, h).set = u.href /\ Row10(u, h).name = h.name
    BY DEF Row10, XSTS!Row
  <2> QED BY <2>1, <2>2
<1> HIDE DEF T
<1>4. ASSUME NEW u \in Here
      PROVE  /\ Len(Gs10(u)) \in Nat /\ DOMAIN Gs10(u) = 1..Len(Gs10(u))
             /\ \A i \in DOMAIN Gs10(u) : Gs10(u)[i] \in ToSet(u.groups) /\ Runs10(u, Gs10(u)[i])
             /\ \A x \in ToSet(u.groups) : Runs10(u, x) => \E i \in DOMAIN Gs10(u) : Gs10(u)[i] = x
             /\ \A i, j \in DOMAIN Gs10(u) : Gs10(u)[i].name = Gs10(u)[j].name => i = j
  <2>1. u \in ToSet(s.sets)
    BY <1>2
  <2>2. OneEach(Gs10(u), u)
    BY <2>1, Groups10
  <2> QED BY <2>2 DEF OneEach
<1>5. ASSUME NEW u \in Here
      PROVE  Of(u) \in Seq(T) /\ \A r \in ToSet(Of(u)) : r.set = u.href
  <2>1. \A i \in DOMAIN Gs10(u) : Row10(u, Gs10(u)[i]) \in T /\ Row10(u, Gs10(u)[i]).set = u.href
    <3> HIDE DEF Here
    <3> QED BY <1>3, <1>4
  <2>2. Of(u) \in [1..Len(Gs10(u)) -> T]
    <3> HIDE DEF Here
    <3> QED BY <1>4, <2>1
  <2>3. \A r \in ToSet(Of(u)) : r.set = u.href
    BY <2>1 DEF ToSet
  <2> HIDE DEF Of, Here
  <2> QED BY <1>4, <2>2, <2>3, ListOf
<1>6. /\ Runs10(t, g) => Count(Of(t), S) = 1
      /\ ToSet(Of(t)) \cap S \subseteq {x \in {Row10(t, g)} : Runs10(t, g)}
  <2> DEFINE gs == Gs10(t)
             of == Of(t)
  <2>1. DOMAIN of = DOMAIN gs /\ \A i \in DOMAIN gs : of[i] = Row10(t, gs[i])
    OBVIOUS
  <2>2. ASSUME NEW i \in DOMAIN gs
        PROVE of[i] \in S <=> gs[i].name = g.name
    <3>1. of[i] \in T /\ of[i].set = t.href /\ of[i].name = gs[i].name
      <4> HIDE DEF Here
      <4> QED BY <1>2, <1>3, <1>4, <2>1
    <3> HIDE DEF of
    <3> QED BY <3>1
  <2>3. /\ \A i \in DOMAIN gs : gs[i] \in ToSet(t.groups) /\ Runs10(t, gs[i])
        /\ Runs10(t, g) => \E i \in DOMAIN gs : gs[i] = g
        /\ \A i, j \in DOMAIN gs : gs[i].name = gs[j].name => i = j
    BY <1>2, <1>4
  <2>4. t \in ToSet(s.sets)
    BY <1>2
  <2>5. \A h \in ToSet(t.groups) : h.name = g.name => h = g
    BY <2>4, SameGroup
  <2> HIDE DEF S, of, gs
  <2>6. ASSUME Runs10(t, g) PROVE Count(of, S) = 1
    <3>1. PICK k \in DOMAIN gs : gs[k] = g
      BY <2>3, <2>6
    <3>2. k \in DOMAIN of /\ \A i \in DOMAIN of : of[i] \in S <=> i = k
      BY <2>1, <2>2, <2>3, <3>1
    <3> QED BY <3>2, OneCounts
  <2>7. \A i \in DOMAIN of : of[i] \in S => Runs10(t, g) /\ of[i] = Row10(t, g)
    BY <2>1, <2>2, <2>3, <2>5
  <2>8. ToSet(of) \cap S \subseteq {x \in {Row10(t, g)} : Runs10(t, g)}
    BY <2>7 DEF ToSet
  <2> QED BY <2>6, <2>8 DEF of
<1>7. parts \in Seq(Seq(T)) /\ Len(parts) = Len(sets) /\ DOMAIN sets = 1..Len(sets) /\ \A i \in DOMAIN sets : sets[i] \in Here
  <2>1. sets \in Seq(ToSet(s.sets) \cap Here)
    BY <1>2, AmongIs
  <2>2. Len(sets) \in Nat /\ DOMAIN sets = 1..Len(sets) /\ \A i \in DOMAIN sets : sets[i] \in Here
    <3> HIDE DEF sets, Here
    <3> QED BY <2>1
  <2>3. parts \in [1..Len(sets) -> Seq(T)]
    <3> HIDE DEF sets, Here, Of
    <3> QED BY <1>5, <2>2
  <2> HIDE DEF parts, sets
  <2> QED BY <2>2, <2>3, ListOf
<1>8. /\ Count(FlattenSeq(parts), S) = Count(Of(t), S)
      /\ ToSet(FlattenSeq(parts)) \cap S = ToSet(Of(t)) \cap S
  <2>1. \A i \in DOMAIN sets : parts[i] = Of(sets[i])
    OBVIOUS
  <2>2. \A i \in 1..Len(parts) : \A r \in ToSet(parts[i]) : r.set = sets[i].href
    <3> HIDE DEF parts, sets, Here, Of
    <3> QED BY <1>5, <1>7, <2>1
  <2>3. \A i \in 1..Len(parts) : sets[i] = t => parts[i] = Of(t)
    <3> HIDE DEF parts, sets, Here, Of
    <3> QED BY <1>7, <2>1
  <2>4. \A r \in S : r.set = t.href
    OBVIOUS
  <2>5. parts \in Seq(Seq(T)) /\ Len(parts) = Len(sets) /\ sets = Among(s.sets, Here) /\ Here \subseteq XSTS!PresentSets(s, s.files) /\ t \in Here
    BY <1>2, <1>7
  <2> DEFINE part == Of(t)
  <2>6. \A i \in 1..Len(parts) : sets[i] = t => parts[i] = part
    BY <2>3
  <2> HIDE DEF parts, S, Of, sets, part, Here
  <2>7. PartsOf(parts, sets, T, t, part)
    BY <2>2, <2>5, <2>6 DEF PartsOf
  <2>8. OneOfSet(s, Here, sets, T, parts, t, part, S)
    BY <2>4, <2>5, <2>7 DEF OneOfSet
  <2>9. /\ Count(FlattenSeq(parts), S) = Count(part, S)
        /\ ToSet(FlattenSeq(parts)) \cap S = ToSet(part) \cap S
    BY <2>8, OneSet
  <2> QED BY <2>9 DEF part
<1> DEFINE rs == FlattenSeq(parts)
<1>9. rs \in Seq(T)
  <2> HIDE DEF parts
  <2> QED BY <1>7, FlattenIs
<1>10. Runs10(t, g) \in BOOLEAN
  BY DEF Runs10, XSTS!Applies10, XSTS!Usable
<1> HIDE DEF rs, parts, Of
<1>11. \A x : x \in S <=> x \in T /\ x.set = t.href /\ x.name = g.name
  OBVIOUS
<1> DEFINE runs == Runs10(t, g)
           row == Row10(t, g)
<1>12. runs \in BOOLEAN /\ (runs => Count(rs, S) = 1) /\ ToSet(rs) \cap S \subseteq {x \in {row} : runs}
  <2> HIDE DEF S
  <2> QED BY <1>6, <1>8, <1>10 DEF rs
<1> HIDE DEF S, runs, row
<1>13. NamedRows(rs, T, S, t, g, runs, row)
  BY <1>9, <1>11, <1>12 DEF NamedRows
<1>14. OneRow(rs, t, g, runs, row)
  BY <1>13, NamedIs
<1> QED BY <1>1, <1>14 DEF rs, runs, row

\* What the rows hold of a group, as the catalog states it.
GroupFollows(s, rs, t, g, v) ==
  LET mine == RowsNamed(rs, t, g)
      there == {it \in XSTS!ToSet(g.instances) : XSTS!Rel(t, it) \in s.files /\ XSTS!Decides(it.expected, v)} IN
  /\ XSTS!Concerns(g, t, v) /\ g.docs # <<>> /\ XSTS!ToSet(XSTS!Docs(t, g)) \subseteq s.files /\ XSTS!Decides(g.expected, v)
       => Cardinality(mine) = 1
  /\ \A r \in {rs[i] : i \in mine} :
       /\ XSTS!Concerns(g, t, v)
       /\ XSTS!Decides(g.expected, v) => r.valid \in XSTS!Stated(g.expected, v)
       /\ \A it \in there : \E x \in XSTS!ToSet(r.instances) :
            x.rel = XSTS!Rel(t, it) /\ x.valid \in XSTS!Stated(it.expected, v)

\* Lists of a group.
LEMMA ListsOf ==
  ASSUME NEW s, XSTS!IsCheckout(s), NEW t \in XSTS!PresentSets(s, s.files), NEW g \in ToSet(t.groups)
  PROVE  /\ t \in ToSet(s.sets) /\ IsList(g.docs) /\ IsList(g.expected) /\ IsList(g.instances)
         /\ \A it \in ToSet(g.instances) : IsList(it.expected)
<1>1. t \in XSTS!ToSet(s.sets) /\ g \in XSTS!ToSet(t.groups)
  BY SameHelpers DEF XSTS!PresentSets
<1>2. /\ XSTS!IsList(g.docs) /\ XSTS!IsList(g.expected) /\ XSTS!IsList(g.instances)
      /\ \A it \in XSTS!ToSet(g.instances) : XSTS!IsList(it.expected)
  BY <1>1 DEF XSTS!IsCheckout
<1> QED BY <1>1, <1>2, SameHelpers

\* its are the instances a row is made of: all that are there and decided.
Holds(s, t, g, v, its) ==
  \A it \in ToSet(g.instances) : XSTS!Rel(t, it) \in s.files /\ XSTS!Decides(it.expected, v) => it \in ToSet(its)

\* If there is a row just for the groups that concern the version and are decided,
\* with all instances, it is the row the catalog states.
LEMMA GroupFollowsIf ==
  ASSUME NEW s, XSTS!IsCheckout(s), NEW t \in XSTS!PresentSets(s, s.files), NEW g \in ToSet(t.groups),
         NEW rs, NEW v, NEW runs, NEW its, OneRow(rs, t, g, runs, XSTS!Row(t, g, v, its)), Holds(s, t, g, v, its),
         runs => XSTS!Concerns(g, t, v),
         XSTS!Concerns(g, t, v) /\ g.docs # <<>> /\ ToSet(XSTS!Docs(t, g)) \subseteq s.files /\ XSTS!Decides(g.expected, v) => runs
  PROVE  GroupFollows(s, rs, t, g, v)
<1> DEFINE row == XSTS!Row(t, g, v, its)
           mine == RowsNamed(rs, t, g)
<1>1. /\ runs => Cardinality(mine) = 1
      /\ \A i \in mine : runs /\ rs[i] = row
  BY DEF OneRow
<1>2. /\ row.valid = XSTS!PickValidity(g.expected, v)
      /\ row.instances = [i \in DOMAIN its |->
           [rel |-> XSTS!Rel(t, its[i]), valid |-> XSTS!PickValidity(its[i].expected, v)]]
  BY Zenon DEF XSTS!Row
<1> HIDE DEF row, mine
<1>3. /\ IsList(g.expected) /\ \A it \in ToSet(g.instances) : IsList(it.expected)
  BY ListsOf
<1>4. XSTS!Decides(g.expected, v) => row.valid \in XSTS!Stated(g.expected, v)
  BY <1>2, <1>3, PickIs
<1>5. ASSUME NEW it \in ToSet(g.instances), XSTS!Rel(t, it) \in s.files, XSTS!Decides(it.expected, v)
      PROVE  \E x \in ToSet(row.instances) : x.rel = XSTS!Rel(t, it) /\ x.valid \in XSTS!Stated(it.expected, v)
  <2>1. it \in ToSet(its)
    BY <1>5 DEF Holds
  <2>2. PICK i \in DOMAIN its : its[i] = it
    BY <2>1 DEF ToSet
  <2>3. i \in DOMAIN row.instances
    BY <1>2
  <2>4. /\ row.instances[i].rel = XSTS!Rel(t, it)
        /\ row.instances[i].valid = XSTS!PickValidity(it.expected, v)
    BY <1>2, <2>2
  <2>5. XSTS!PickValidity(it.expected, v) \in XSTS!Stated(it.expected, v)
    BY <1>3, <1>5, PickIs
  <2>6. row.instances[i] \in ToSet(row.instances)
    BY <2>3 DEF ToSet
  <2> QED BY <2>4, <2>5, <2>6
<1>6. XSTS!Concerns(g, t, v) /\ g.docs # <<>> /\ XSTS!ToSet(XSTS!Docs(t, g)) \subseteq s.files /\ XSTS!Decides(g.expected, v)
        => Cardinality(mine) = 1
  BY <1>1, SameHelpers
<1>7. ASSUME NEW i \in mine
      PROVE  /\ XSTS!Concerns(g, t, v)
             /\ XSTS!Decides(g.expected, v) => rs[i].valid \in XSTS!Stated(g.expected, v)
             /\ \A it \in {x \in XSTS!ToSet(g.instances) : XSTS!Rel(t, x) \in s.files /\ XSTS!Decides(x.expected, v)} :
                  \E x \in XSTS!ToSet(rs[i].instances) : x.rel = XSTS!Rel(t, it) /\ x.valid \in XSTS!Stated(it.expected, v)
  <2>1. runs /\ rs[i] = row
    BY <1>1
  <2>2. \A it \in XSTS!ToSet(g.instances) : XSTS!Rel(t, it) \in s.files /\ XSTS!Decides(it.expected, v) =>
          \E x \in XSTS!ToSet(row.instances) : x.rel = XSTS!Rel(t, it) /\ x.valid \in XSTS!Stated(it.expected, v)
    BY <1>5, SameHelpers
  <2> QED BY <1>4, <2>1, <2>2
<1> QED BY <1>6, <1>7 DEF GroupFollows, mine

\* All groups follow the catalog: the rows do.
LEMMA GroupsFollow ==
  ASSUME NEW s, NEW rs, NEW v, \A t \in XSTS!PresentSets(s, s.files) : \A g \in ToSet(t.groups) : GroupFollows(s, rs, t, g, v)
  PROVE  XSTS!RowsFollowCatalog(s, rs, v)
<1>1. \A q : XSTS!Cardinality(q) = Cardinality(q)
  BY DEF Cardinality, XSTS!Cardinality
<1> QED BY <1>1, SameHelpers DEF GroupFollows, RowsNamed, XSTS!RowsFollowCatalog

\* What the rows of XSD 1.0 say is what the catalog states.
LEMMA Follows10 ==
  ASSUME NEW s, XSTS!IsCheckout(s), XSTS!Readable(s)
  PROVE  XSTS!RowsFollowCatalog(s, XSTS!BuildXSD10Cases(s, s.files), "1.0")
<1> SUFFICES ASSUME NEW t \in XSTS!PresentSets(s, s.files), NEW g \in ToSet(t.groups)
             PROVE  GroupFollows(s, XSTS!BuildXSD10Cases(s, s.files), t, g, "1.0")
  BY GroupsFollow
<1> DEFINE rs == XSTS!BuildXSD10Cases(s, s.files)
           its == XSTS!Decided(g, "1.0")
           v == "1.0"
           runs == Runs10(t, g)
<1>1. OneRow(rs, t, g, runs, XSTS!Row(t, g, v, its))
  BY Rows10 DEF Row10
<1>2. IsList(g.expected) /\ IsList(g.instances) /\ \A it \in ToSet(g.instances) : IsList(it.expected)
  BY ListsOf
<1>3. Holds(s, t, g, v, its)
  <2> DEFINE D == {it \in ToSet(g.instances) : XSTS!PickValidity(it.expected, v) # "none"}
  <2>1. its = Among(g.instances, D)
    BY SameHelpers DEF XSTS!Decided
  <2>2. ToSet(its) = ToSet(g.instances) \cap D
    <3> HIDE DEF D, its
    <3> QED BY <1>2, <2>1, AmongIs
  <2>3. \A it \in ToSet(g.instances) : XSTS!Decides(it.expected, v) => it \in D
    BY <1>2, PickIs
  <2> HIDE DEF D, its, v
  <2> QED BY <2>2, <2>3 DEF Holds
<1>4. XSTS!Concerns(g, t, v) = ~XSTS!Is11(g, t)
  BY DEF XSTS!Concerns
<1>5. XSTS!Decides(g.expected, v) /\ g.docs # <<>> => XSTS!Usable(g, v)
  BY <1>2, PickIs DEF XSTS!Usable
<1>6. runs <=> ~XSTS!Is11(g, t) /\ XSTS!Usable(g, v)
  BY DEF Runs10, XSTS!Applies10
<1> HIDE DEF rs, its, v, runs
<1>7. GroupFollows(s, rs, t, g, v)
  BY <1>1, <1>3, <1>4, <1>5, <1>6, GroupFollowsIf
<1> QED BY <1>7 DEF rs, v

\* What the tables of XSD 1.1 say is what the catalog states.
LEMMA Follows11 ==
  ASSUME NEW s, XSTS!IsCheckout(s), IsFiniteSet(s.files)
  PROVE  XSTS!RowsFollowCatalog(s, XSTS!ReadCases(s), "1.1")
<1> SUFFICES ASSUME NEW t \in XSTS!PresentSets(s, s.files), NEW g \in ToSet(t.groups)
             PROVE  GroupFollows(s, XSTS!ReadCases(s), t, g, "1.1")
  BY GroupsFollow
<1> DEFINE rs == XSTS!ReadCases(s)
           its == XSTS!Kept(s, t, g)
           v == "1.1"
           runs == Runs11(s, t, g)
           docs == XSTS!Docs(t, g)
<1>1. OneRow(rs, t, g, runs, XSTS!Row(t, g, v, its))
  BY Rows11 DEF Row11
<1>2. /\ IsList(g.docs) /\ IsList(g.expected) /\ IsList(g.instances)
      /\ \A it \in ToSet(g.instances) : IsList(it.expected)
  BY ListsOf
<1>c. \A p \in s.files : XSTS!ContainedPath(p)
  BY DEF XSTS!IsCheckout
<1>3. Holds(s, t, g, v, its)
  <2> DEFINE D == {it \in ToSet(g.instances) : XSTS!PickValidity(it.expected, v) # "none"}
             K == {it \in ToSet(g.instances) : XSTS!ContainedPath(XSTS!Rel(t, it)) /\ XSTS!Rel(t, it) \in s.files}
             d == XSTS!Decided(g, v)
  <2>1. d = Among(g.instances, D)
    BY SameHelpers DEF XSTS!Decided
  <2>2. its = Among(d, K)
    BY SameHelpers DEF XSTS!Kept
  <2>3. \A it \in ToSet(g.instances) : XSTS!Decides(it.expected, v) => it \in D
    BY <1>2, PickIs
  <2>4. \A it \in ToSet(g.instances) : XSTS!Rel(t, it) \in s.files => it \in K
    BY <1>c
  <2> HIDE DEF D, K, d, its, v
  <2>5. d \in Seq(ToSet(g.instances) \cap D) /\ ToSet(d) = ToSet(g.instances) \cap D
    BY <1>2, <2>1, AmongIs
  <2>6. IsList(d)
    BY <2>5, AList
  <2>7. ToSet(its) = ToSet(d) \cap K
    BY <2>2, <2>6, AmongIs
  <2> QED BY <2>3, <2>4, <2>5, <2>7 DEF Holds
<1>4. XSTS!Concerns(g, t, v) = XSTS!Applies11(g, t)
  <2>1. XSTS!Concerns(g, t, v) <=>
          XSTS!Is11(g, t) \/ \E exps \in {g.expected} \cup {it.expected : it \in XSTS!ToSet(g.instances)} :
                               XSTS!HasExpected11(exps)
    BY DEF XSTS!Concerns, XSTS!HasExpected11
  <2>2. XSTS!Applies11(g, t) <=>
          XSTS!Is11(g, t) \/ \E exps \in {g.expected} \cup {it.expected : it \in XSTS!ToSet(g.instances)} :
                               XSTS!HasExpected11(exps)
    BY DEF XSTS!Applies11
  <2>3. XSTS!Concerns(g, t, v) \in BOOLEAN /\ XSTS!Applies11(g, t) \in BOOLEAN
    BY DEF XSTS!Concerns, XSTS!Applies11, XSTS!Is11
  <2> QED BY <2>1, <2>2, <2>3
<1>5. XSTS!Decides(g.expected, v) /\ g.docs # <<>> => XSTS!Usable(g, v)
  BY <1>2, PickIs DEF XSTS!Usable
<1>6. g.docs # <<>> /\ ToSet(docs) \subseteq s.files => docs[1] \in XSTS!SchemaClosure(s, XSTS!ToSet(docs))
  <2> SUFFICES ASSUME g.docs # <<>>, ToSet(docs) \subseteq s.files
               PROVE  docs[1] \in XSTS!SchemaClosure(s, ToSet(docs))
    BY SameHelpers
  <2>1. docs[1] \in ToSet(docs)
    <3>1. 1 \in DOMAIN g.docs
      BY <1>2 DEF IsList
    <3>2. 1 \in DOMAIN docs
      BY <3>1 DEF XSTS!Docs
    <3> QED BY <3>2 DEF ToSet
  <2> DEFINE There2(u) == {p \in u : XSTS!ContainedPath(p) /\ p \in s.files}
             next == [p \in s.files |-> There2(XSTS!SchemaRefs(s, p))]
             start == There2(ToSet(docs))
  <2>2. XSTS!SchemaClosure(s, ToSet(docs)) = Reached(start, next)
    BY SameHelpers DEF XSTS!SchemaClosure
  <2>3. docs[1] \in start
    <3> HIDE DEF docs
    <3> QED BY <1>c, <2>1
  <2>4. IsFiniteSet(DOMAIN next)
    OBVIOUS
  <2>5. start \subseteq Reached(start, next)
    <3> HIDE DEF start, next
    <3> QED BY <2>4, ReachedClosed
  <2> QED BY <2>2, <2>3, <2>5
<1>7. runs <=> XSTS!Applies11(g, t) /\ XSTS!Usable(g, v) /\ docs[1] \in XSTS!SchemaClosure(s, XSTS!ToSet(docs))
  BY DEF Runs11
<1> HIDE DEF rs, its, v, runs
<1>8. GroupFollows(s, rs, t, g, v)
  BY <1>1, <1>3, <1>4, <1>5, <1>6, <1>7, GroupFollowsIf
<1> QED BY <1>8 DEF rs, v

-------------------------------------------------------------------------------
(* Rows and what the catalogs of xml state *)

\* Where the bases of a test lead, and whether it is one to have a row.
Place(u) == Clean(FlattenSeq(u.bases) \o u.uri)
Counted(u) == u.id # "" /\ u.uri # <<>>

\* The row of a test.
Made(s, r, u) ==
  /\ r.id = u.id /\ r.type = u.type /\ (r.output = <<>> <=> u.output = <<>>)
  /\ Place(u) \in s.files => r.uri = Place(u)
  /\ {r.uri, r.output} \ {<<>>} \subseteq s.files

\* What a walk through the tests D has made: one row for each ID, of some test.
Goes(s, w, D) ==
  /\ w = [ok |-> w.ok, rows |-> w.rows]
  /\ w.ok => /\ IsList(w.rows)
             /\ \A i, j \in DOMAIN w.rows : w.rows[i].id = w.rows[j].id => i = j
             /\ \A i \in DOMAIN w.rows : \E u \in XML!Tests(s) : Made(s, w.rows[i], u)
             /\ \A u \in D : Counted(u) => \E i \in DOMAIN w.rows : w.rows[i].id = u.id

\* A list with one more, place by place.
LEMMA AppendAt ==
  ASSUME NEW q, IsList(q), NEW e
  PROVE  /\ IsList(Append(q, e)) /\ Len(q) \in Nat /\ DOMAIN q = 1..Len(q)
         /\ DOMAIN Append(q, e) = 1..(Len(q) + 1)
         /\ \A i \in 1..Len(q) : Append(q, e)[i] = q[i]
         /\ Append(q, e)[Len(q) + 1] = e
<1> DEFINE T == ToSet(q) \cup {e}
<1>1. q \in Seq(T) /\ e \in T
  <2>1. q \in Seq(ToSet(q))
    BY DEF IsList
  <2> DEFINE A == ToSet(q)
  <2> HIDE DEF A
  <2>2. \A B : A \subseteq B => Seq(A) \subseteq Seq(B)
    OBVIOUS
  <2> QED BY <2>1, <2>2 DEF A
<1> HIDE DEF T
<1>2. Append(q, e) \in Seq(T)
  BY <1>1, OneMore
<1>3. IsList(Append(q, e))
  BY <1>2, AList
<1>4. /\ Len(q) \in Nat /\ DOMAIN q = 1..Len(q) /\ DOMAIN Append(q, e) = 1..(Len(q) + 1)
      /\ \A i \in 1..Len(q) : Append(q, e)[i] = q[i]
      /\ Append(q, e)[Len(q) + 1] = e
  BY <1>1
<1> QED BY <1>3, <1>4

\* One row more, of a test whose ID is new.
LEMMA GoesOn ==
  ASSUME NEW s, NEW w, NEW D, Goes(s, w, D), w.ok, NEW u \in XML!Tests(s), NEW r, Made(s, r, u),
         \A i \in DOMAIN w.rows : w.rows[i].id # u.id
  PROVE  Goes(s, [ok |-> w.ok, rows |-> Append(w.rows, r)], D \cup {u})
<1> DEFINE q == w.rows
           p == Append(q, r)
           n == Len(q)
           v == [ok |-> w.ok, rows |-> p]
<1>1. /\ IsList(q)
      /\ \A i, j \in DOMAIN q : q[i].id = q[j].id => i = j
      /\ \A i \in DOMAIN q : \E x \in XML!Tests(s) : Made(s, q[i], x)
      /\ \A x \in D : Counted(x) => \E i \in DOMAIN q : q[i].id = x.id
  BY DEF Goes
<1>2. /\ IsList(p) /\ n \in Nat /\ DOMAIN q = 1..n /\ DOMAIN p = 1..(n + 1)
      /\ \A i \in 1..n : p[i] = q[i]
      /\ p[n + 1] = r
  BY <1>1, AppendAt
<1>3. r.id = u.id
  BY DEF Made
<1>4. \A i \in 1..n : q[i].id # u.id
  BY <1>2
<1>5. v.ok = w.ok /\ v.rows = p
  OBVIOUS
<1> HIDE DEF q, p, n, v
<1>6. (n + 1) \in 1..(n + 1) /\ (\A i \in 1..n : i \in 1..(n + 1)) /\ \A i \in 1..(n + 1) : i \in 1..n \/ i = n + 1
  BY <1>2
<1>7. \A i, j \in DOMAIN p : p[i].id = p[j].id => i = j
  <2> SUFFICES ASSUME NEW i \in 1..(n + 1), NEW j \in 1..(n + 1), p[i].id = p[j].id PROVE i = j
    BY <1>2
  <2>1. CASE i \in 1..n /\ j \in 1..n
    BY <1>1, <1>2, <2>1
  <2>2. CASE i = n + 1 /\ j \in 1..n
    BY <1>2, <1>3, <1>4, <2>2
  <2>3. CASE i \in 1..n /\ j = n + 1
    BY <1>2, <1>3, <1>4, <2>3
  <2> QED BY <1>6, <2>1, <2>2, <2>3
<1>8. \A i \in DOMAIN p : \E x \in XML!Tests(s) : Made(s, p[i], x)
  <2>1. \A i \in 1..n : \E x \in XML!Tests(s) : Made(s, p[i], x)
    BY <1>1, <1>2
  <2> QED BY <1>2, <1>6, <2>1
<1>9. \A x \in D \cup {u} : Counted(x) => \E i \in DOMAIN p : p[i].id = x.id
  <2> SUFFICES ASSUME NEW x \in D \cup {u}, Counted(x) PROVE \E i \in DOMAIN p : p[i].id = x.id
    OBVIOUS
  <2>1. CASE x \in D
    BY <1>1, <1>2, <1>6, <2>1
  <2>2. CASE x = u
    BY <1>2, <1>3, <1>6, <2>2
  <2> QED BY <2>1, <2>2
<1>10. v = [ok |-> v.ok, rows |-> v.rows]
  BY DEF v
<1> QED BY <1>2, <1>5, <1>7, <1>8, <1>9, <1>10 DEF Goes, v, p, q

\* What is found is a file, and the one below the base if there is one.
LEMMA Resolved ==
  ASSUME NEW s, XML!IsCheckout(s), NEW b, NEW d, NEW ref, XML!ResolveFixture(s, b, d, ref) # <<>>
  PROVE  /\ XML!ResolveFixture(s, b, d, ref) \in s.files
         /\ XML!JoinBase(b, ref) \in s.files => XML!ResolveFixture(s, b, d, ref) = XML!JoinBase(b, ref)
<1> DEFINE x == XML!ResolveFixture(s, b, d, ref)
           y == XML!JoinBase(b, ref)
           z == XML!JoinBase(d, ref)
           found == {p \in {y, z} : XML!FileExists(s, p)}
<1>1. x = CASE XML!IsURL(ref) \/ found = {} -> <<>>
            [] ~XML!IsURL(ref) /\ y \in found -> y
            [] OTHER -> z
  BY DEF XML!ResolveFixture
<1>2. \A p \in s.files : XML!FileExists(s, p)
  BY DEF XML!FileExists, XML!IsCheckout
<1>3. \A p : XML!FileExists(s, p) => p \in s.files
  BY DEF XML!FileExists
<1> HIDE DEF x, y, z
<1>4. ~XML!IsURL(ref) /\ found # {}
  BY <1>1 DEF x
<1> QED BY <1>1, <1>2, <1>3, <1>4 DEF x, y

\* Names below the base of a test lead to its place.
LEMMA BaseIs ==
  ASSUME NEW b \in Seq(STRING), NEW bs \in Seq(Seq(STRING)), NEW v \in Seq(STRING),
         NEW ref, ref.base = b, NEW t, t.bases = bs
  PROVE  XML!JoinBase(XML!BaseOf(ref, t), v) = Clean(FlattenSeq(<<b>> \o bs) \o v)
<1> DEFINE Rec(g) == [n \in 0..Len(bs) |-> IF n = 0 THEN b ELSE Clean(g[n - 1] \o bs[n])]
           base == CHOOSE g : g = Rec(g)
<1>1. XML!BaseOf(ref, t) = base[Len(bs)]
  BY SamePaths DEF XML!BaseOf, XML!JoinBase
<1>2. \E g : Bases(g, b, bs)
  BY BasesJoin
<1>3. \E g : g = Rec(g)
  BY <1>2 DEF Bases
<1>4. base = Rec(base)
  <2> HIDE DEF Rec
  <2> QED BY <1>3
<1> HIDE DEF base
<1>5. Bases(base, b, bs)
  BY <1>4 DEF Bases
<1>6. Clean(base[Len(bs)] \o v) = Clean(FlattenSeq(<<b>> \o bs) \o v)
  BY <1>5, BasesJoin
<1> QED BY <1>1, <1>6, SamePaths DEF XML!JoinBase

\* One test more.
LEMMA AppendGoes ==
  ASSUME NEW s, XML!IsCheckout(s), NEW w, NEW D, Goes(s, w, D), NEW u \in XML!Tests(s), NEW b, NEW d, NEW t,
         t.id = u.id, t.type = u.type, t.uri = u.uri, t.output = u.output, XML!JoinBase(b, t.uri) = Place(u)
  PROVE  Goes(s, XML!AppendTest(s, w, b, d, t), D \cup {u})
<1> DEFINE uri == XML!ResolveFixture(s, b, d, t.uri)
           output == XML!ResolveFixture(s, b, d, t.output)
           out == IF t.output = <<>> THEN <<>> ELSE output
           row == [id |-> t.id, type |-> t.type, uri |-> uri, output |-> out, skip |-> ""]
           passed == ~w.ok \/ t.uri = <<>> \/ t.id = "" \/ \E r \in ToSet(w.rows) : r.id = t.id
           failed == uri = <<>> \/ (t.output # <<>> /\ output = <<>>)
           v == XML!AppendTest(s, w, b, d, t)
<1>1. v = IF passed THEN w ELSE IF failed THEN [w EXCEPT !.ok = FALSE] ELSE [w EXCEPT !.rows = Append(@, row)]
  BY SameHelpers, Zenon DEF XML!AppendTest
<1>2. w = [ok |-> w.ok, rows |-> w.rows]
  BY DEF Goes
<1>3. CASE passed
  <2>1. v = w
    BY <1>1, <1>3, Zenon
  <2>2. CASE ~w.ok
    BY <1>2, <2>1, <2>2 DEF Goes
  <2>3. CASE w.ok /\ ~Counted(u)
    <3>1. \A x \in D \cup {u} : Counted(x) => x \in D
      BY <2>3
    <3> QED BY <1>2, <2>1, <3>1 DEF Goes
  <2>4. CASE w.ok /\ Counted(u)
    <3>1. \E r \in ToSet(w.rows) : r.id = t.id
      BY <1>3, <2>4, Zenon DEF Counted
    <3>2. \E i \in DOMAIN w.rows : w.rows[i].id = u.id
      BY <3>1 DEF ToSet
    <3> QED BY <1>2, <2>1, <3>2 DEF Goes
  <2> QED BY <2>2, <2>3, <2>4
<1>4. CASE ~passed /\ failed
  <2>1. v = [w EXCEPT !.ok = FALSE]
    BY <1>1, <1>4, Zenon
  <2>2. v = [ok |-> FALSE, rows |-> w.rows]
    BY <1>2, <2>1
  <2> HIDE DEF v
  <2>3. v = [ok |-> v.ok, rows |-> v.rows] /\ ~v.ok
    BY <2>2
  <2> QED BY <2>3 DEF Goes, v
<1>5. CASE ~passed /\ ~failed
  <2>1. v = [w EXCEPT !.rows = Append(@, row)]
    BY <1>1, <1>5, Zenon
  <2>2. /\ row.id = t.id /\ row.type = t.type /\ row.uri = uri /\ row.output = out
    BY Zenon
  <2>3. w.ok /\ (\A r \in ToSet(w.rows) : r.id # t.id)
    BY <1>5, Zenon
  <2>4. uri # <<>> /\ (t.output = <<>> \/ output # <<>>)
    BY <1>5, Zenon
  <2>5. uri \in s.files /\ (Place(u) \in s.files => uri = Place(u))
    BY <2>4, Resolved
  <2>6. t.output # <<>> => output \in s.files /\ output # <<>>
    BY <2>4, Resolved
  <2> HIDE DEF row, v, uri, output
  <2>7. Made(s, row, u)
    BY <2>2, <2>5, <2>6 DEF Made
  <2>8. v = [ok |-> w.ok, rows |-> Append(w.rows, row)]
    BY <1>2, <2>1
  <2>9. \A i \in DOMAIN w.rows : w.rows[i].id # u.id
    BY <2>3 DEF ToSet
  <2>10. Goes(s, v, D \cup {u})
    BY <2>3, <2>7, <2>8, <2>9, GoesOn
  <2> QED BY <2>10 DEF v
<1> QED BY <1>3, <1>4, <1>5, Zenon

\* The reference of a block, and a test of its catalog, as Tests has it.
RefOf(s, b, e) == [base |-> b.base, file |-> XML!Clean(s.entities[e])]
TestOf(base, t) == [id |-> t.id, type |-> t.type, uri |-> t.uri, output |-> t.output, bases |-> <<base>> \o t.bases]
TestsAt(s, ref) == {TestOf(ref.base, t) : t \in ToSet(s.catalogs[ref.file])}

\* All tests are those of the catalogs.
LEMMA TestsAre ==
  ASSUME NEW s
  PROVE  XML!Tests(s) = UNION {UNION {TestsAt(s, RefOf(s, b, e)) : e \in ToSet(b.entities)} : b \in ToSet(s.blocks)}
<1>1. XML!Tests(s) = UNION {UNION {{TestOf(b.base, t) : t \in XML!ToSet(s.catalogs[XML!Clean(s.entities[e])])}
                                  : e \in XML!ToSet(b.entities)} : b \in XML!ToSet(s.blocks)}
  BY DEF XML!Tests, TestOf
<1> DEFINE In(x, b, e) == \E t \in ToSet(s.catalogs[XML!Clean(s.entities[e])]) : x = TestOf(b.base, t)
<1>2. \A x : x \in XML!Tests(s) <=> \E b \in ToSet(s.blocks) : \E e \in ToSet(b.entities) : In(x, b, e)
  <2>1. \A l : XML!ToSet(l) = ToSet(l)
    BY SameHelpers
  <2> DEFINE At(b, e) == {TestOf(b.base, t) : t \in XML!ToSet(s.catalogs[XML!Clean(s.entities[e])])}
  <2>2. \A x, b, e : x \in At(b, e) <=> In(x, b, e)
    BY <2>1
  <2>3. XML!Tests(s) = UNION {UNION {At(b, e) : e \in XML!ToSet(b.entities)} : b \in XML!ToSet(s.blocks)}
    BY <1>1
  <2> HIDE DEF At, In
  <2>4. \A x : x \in XML!Tests(s) <=> \E b \in XML!ToSet(s.blocks) : x \in UNION {At(b, e) : e \in XML!ToSet(b.entities)}
    BY <2>3
  <2>5. \A x : x \in XML!Tests(s) <=> \E b \in XML!ToSet(s.blocks) : \E e \in XML!ToSet(b.entities) : x \in At(b, e)
    BY <2>4
  <2> QED BY <2>1, <2>2, <2>5
<1>3. \A x, b, e : x \in TestsAt(s, RefOf(s, b, e)) <=> In(x, b, e)
  BY DEF TestsAt, RefOf
<1> HIDE DEF In
<1>4. \A x : x \in XML!Tests(s) <=> \E b \in ToSet(s.blocks) : \E e \in ToSet(b.entities) : x \in TestsAt(s, RefOf(s, b, e))
  BY <1>2, <1>3
<1> QED BY <1>4

\* One catalog more.
LEMMA CollectedGoes ==
  ASSUME NEW s, XML!IsCheckout(s), NEW w, NEW D, Goes(s, w, D), NEW v, NEW ref, Collected(s, w, ref, v),
         NEW b \in ToSet(s.blocks), NEW e \in ToSet(b.entities), ref = RefOf(s, b, e)
  PROVE  Goes(s, v, D \cup TestsAt(s, ref))
<1> DEFINE tests == s.catalogs[ref.file]
           N == Len(tests)
           none == ~XML!FileExists(s, ref.file) \/ ref.file \notin DOMAIN s.catalogs
<1>1. ref.base = b.base
  BY DEF RefOf
<1>2. CASE none
  <2>1. v = [w EXCEPT !.ok = FALSE]
    BY <1>2 DEF Collected
  <2>2. w = [ok |-> w.ok, rows |-> w.rows]
    BY DEF Goes
  <2>3. v = [ok |-> FALSE, rows |-> w.rows]
    BY <2>1, <2>2
  <2>4. v = [ok |-> v.ok, rows |-> v.rows] /\ ~v.ok
    BY <2>3
  <2> QED BY <2>4 DEF Goes
<1>3. CASE ~none
  <2>1. PICK read : TestRounds(s, ref, w, read) /\ v = read[N]
    BY <1>3 DEF Collected
  <2>2. /\ read[0] = w
        /\ \A n \in 1..N : read[n] = XML!AppendTest(s, read[n - 1], XML!BaseOf(ref, tests[n]), XML!Front(ref.file), tests[n])
    BY <2>1 DEF TestRounds
  <2>3. IsList(tests) /\ \A t \in ToSet(tests) : t.bases \in Seq(Seq(STRING)) /\ t.uri \in Seq(STRING)
    BY <1>3, SameHelpers, SamePaths DEF XML!IsCheckout
  <2>4. ref.base \in Seq(STRING)
    BY <1>1, SameHelpers, SamePaths DEF XML!IsCheckout
  <2>5. TestsAt(s, ref) = {TestOf(ref.base, t) : t \in ToSet(tests)}
    BY DEF TestsAt
  <2>6. /\ N \in Nat /\ DOMAIN tests = 1..N
        /\ \A n \in 1..N : tests[n] \in ToSet(tests)
        /\ \A t \in ToSet(tests) : \E n \in 1..N : tests[n] = t
    <3> HIDE DEF tests
    <3> QED BY <2>3, Places
  <2>7. \A t \in ToSet(tests) : TestOf(ref.base, t) \in XML!Tests(s)
    <3>1. TestsAt(s, ref) \subseteq XML!Tests(s)
      BY TestsAre
    <3> HIDE DEF tests
    <3> QED BY <2>5, <3>1
  <2> HIDE DEF tests, none
  <2>8. ASSUME NEW n \in 1..N, NEW E, Goes(s, read[n - 1], E) PROVE Goes(s, read[n], E \cup {TestOf(ref.base, tests[n])})
    <3> DEFINE t == tests[n]
               u == TestOf(ref.base, t)
               base == XML!BaseOf(ref, t)
    <3>1. t \in ToSet(tests) /\ u \in XML!Tests(s) /\ t.bases \in Seq(Seq(STRING)) /\ t.uri \in Seq(STRING)
      BY <2>3, <2>6, <2>7
    <3>2. u.id = t.id /\ u.type = t.type /\ u.uri = t.uri /\ u.output = t.output /\ u.bases = <<ref.base>> \o t.bases
      BY DEF TestOf
    <3>3. XML!JoinBase(base, t.uri) = Clean(FlattenSeq(<<ref.base>> \o t.bases) \o t.uri)
      <4> HIDE DEF t
      <4> QED BY <1>1, <2>4, <3>1, BaseIs
    <3>4. read[n] = XML!AppendTest(s, read[n - 1], base, XML!Front(ref.file), t)
      BY <2>2
    <3> HIDE DEF t, u, base
    <3>5. XML!JoinBase(base, t.uri) = Place(u)
      BY <3>2, <3>3 DEF Place
    <3>6. Goes(s, read[n], E \cup {u})
      BY <2>8, <3>1, <3>2, <3>4, <3>5, AppendGoes
    <3> QED BY <3>6 DEF t, u
  <2> DEFINE Done(n) == D \cup {TestOf(ref.base, tests[m]) : m \in 1..n}
             X == {read[m] : m \in 0..N}
             Inv == [n \in 0..N |-> {x \in X : Goes(s, x, Done(n))}]
  <2>9. \A n \in 0..N : read[n] \in X /\ \A x : x \in Inv[n] <=> x \in X /\ Goes(s, x, Done(n))
    OBVIOUS
  <2>10. Done(0) = D
    OBVIOUS
  <2>11. ASSUME NEW n \in 1..N PROVE Done(n) = Done(n - 1) \cup {TestOf(ref.base, tests[n])}
    <3>1. \A m : m \in 1..n <=> m \in 1..(n - 1) \/ m = n
      BY <2>6
    <3> QED BY <3>1
  <2>12. Done(N) = D \cup TestsAt(s, ref)
    BY <2>5, <2>6
  <2> HIDE DEF Done, X, Inv
  <2>13. read[0] \in Inv[0]
    <3>1. 0 \in 0..N
      BY <2>6
    <3> QED BY <2>2, <2>9, <2>10, <3>1
  <2>14. ASSUME NEW n \in 1..N, read[n - 1] \in Inv[n - 1] PROVE read[n] \in Inv[n]
    <3>1. n - 1 \in 0..N /\ n \in 0..N
      BY <2>6
    <3>2. Goes(s, read[n - 1], Done(n - 1))
      BY <2>9, <2>14, <3>1
    <3>3. Goes(s, read[n], Done(n - 1) \cup {TestOf(ref.base, tests[n])})
      BY <2>8, <3>2
    <3> QED BY <2>9, <2>11, <3>1, <3>3
  <2>15. read[N] \in Inv[N]
    <3> HIDE DEF N
    <3> QED BY <2>6, <2>13, <2>14, Stages
  <2>16. N \in 0..N
    BY <2>6
  <2> QED BY <2>1, <2>9, <2>12, <2>15, <2>16
<1> QED BY <1>2, <1>3

\* The tables of xml have the rows the catalogs state.
LEMMA FollowsXML ==
  ASSUME NEW s, XML!IsCheckout(s), XML!CollectTests(s).ok
  PROVE  XML!RowsFollowCatalog(s, XML!CollectTests(s).rows)
<1> DEFINE top == XML!ParseTopCatalog(s)
           N == Len(top.refs)
           w == XML!ReadCases(s)
           q == w.rows
<1>1. w.ok /\ XML!CollectTests(s).rows = q
  <2> HIDE DEF w
  <2>1. XML!CollectTests(s) = IF w.ok THEN [ok |-> TRUE, rows |-> w.rows, files |-> UNION {XML!FixtureRels(s, r) : r \in XML!ToSet(w.rows)}]
                              ELSE [ok |-> FALSE, rows |-> <<>>, files |-> {}]
    BY DEF XML!CollectTests, w
  <2> QED BY <2>1
<1>2. PICK read : RefRounds(s, read)
  BY XMLWalk
<1>3. /\ read[0] = [ok |-> top.ok, rows |-> <<>>] /\ w = read[N]
      /\ \A n \in 1..N : Collected(s, read[n - 1], top.refs[n], read[n])
  BY <1>2 DEF RefRounds
<1>4. N \in Nat /\ top.ok \in BOOLEAN /\ (~top.ok => top.refs = <<>>)
  BY XMLRefs
<1>5. top.ok
  <2> SUFFICES ASSUME ~top.ok PROVE FALSE
    OBVIOUS
  <2>1. N = 0
    BY <1>4
  <2>2. w.ok = top.ok
    BY <1>3, <2>1
  <2> QED BY <1>1, <2>2
<1>6. /\ \A n \in 1..N : \E b \in ToSet(s.blocks) : \E e \in ToSet(b.entities) : top.refs[n] = RefOf(s, b, e)
      /\ \A b \in ToSet(s.blocks) : \A e \in ToSet(b.entities) : \E n \in 1..N : top.refs[n] = RefOf(s, b, e)
  BY <1>5, XMLRefs DEF RefOf
<1>7. ASSUME NEW n \in 1..N, NEW E, Goes(s, read[n - 1], E) PROVE Goes(s, read[n], E \cup TestsAt(s, top.refs[n]))
  <2>1. PICK b \in ToSet(s.blocks) : \E e \in ToSet(b.entities) : top.refs[n] = RefOf(s, b, e)
    BY <1>6
  <2>2. PICK e \in ToSet(b.entities) : top.refs[n] = RefOf(s, b, e)
    BY <2>1
  <2> QED BY <1>3, <1>7, <2>2, CollectedGoes
<1> DEFINE Done(n) == UNION {TestsAt(s, top.refs[m]) : m \in 1..n}
           X == {read[m] : m \in 0..N}
           Inv == [n \in 0..N |-> {x \in X : Goes(s, x, Done(n))}]
<1>8. \A n \in 0..N : read[n] \in X /\ \A x : x \in Inv[n] <=> x \in X /\ Goes(s, x, Done(n))
  OBVIOUS
<1>9. Done(0) = {}
  OBVIOUS
<1>10. ASSUME NEW n \in 1..N PROVE Done(n) = Done(n - 1) \cup TestsAt(s, top.refs[n])
  <2>1. \A m : m \in 1..n <=> m \in 1..(n - 1) \/ m = n
    BY <1>4
  <2> QED BY <2>1
<1>11. Done(N) = XML!Tests(s)
  <2>1. ASSUME NEW x \in Done(N) PROVE x \in XML!Tests(s)
    <3>1. PICK n \in 1..N : x \in TestsAt(s, top.refs[n])
      OBVIOUS
    <3> QED BY <1>6, <3>1, TestsAre
  <2>2. ASSUME NEW x \in XML!Tests(s) PROVE x \in Done(N)
    <3>1. PICK b \in ToSet(s.blocks) : x \in UNION {TestsAt(s, RefOf(s, b, e)) : e \in ToSet(b.entities)}
      BY TestsAre
    <3>2. PICK e \in ToSet(b.entities) : x \in TestsAt(s, RefOf(s, b, e))
      BY <3>1
    <3>3. PICK n \in 1..N : top.refs[n] = RefOf(s, b, e)
      BY <1>6
    <3> QED BY <3>2, <3>3
  <2> HIDE DEF Done
  <2> QED BY <2>1, <2>2
<1> HIDE DEF Done, X, Inv
<1>12. read[0] \in Inv[0]
  <2>1. 0 \in 0..N
    BY <1>4
  <2>2. Goes(s, read[0], {})
    <3>1. read[0].ok = top.ok /\ read[0].rows = <<>>
      BY <1>3
    <3>2. IsList(<<>>) /\ DOMAIN <<>> = {}
      BY DEF IsList
    <3> QED BY <1>3, <3>1, <3>2 DEF Goes
  <2> QED BY <1>8, <1>9, <2>1, <2>2
<1>13. ASSUME NEW n \in 1..N, read[n - 1] \in Inv[n - 1] PROVE read[n] \in Inv[n]
  <2>1. n - 1 \in 0..N /\ n \in 0..N
    BY <1>4
  <2>2. Goes(s, read[n - 1], Done(n - 1))
    BY <1>8, <1>13, <2>1
  <2>3. Goes(s, read[n], Done(n - 1) \cup TestsAt(s, top.refs[n]))
    BY <1>7, <2>2
  <2> QED BY <1>8, <1>10, <2>1, <2>3
<1>14. read[N] \in Inv[N]
  <2> HIDE DEF N
  <2> QED BY <1>4, <1>12, <1>13, Stages
<1>15. Goes(s, w, XML!Tests(s))
  <2>1. N \in 0..N
    BY <1>4
  <2> HIDE DEF w, N
  <2> QED BY <1>3, <1>8, <1>11, <1>14, <2>1
<1> HIDE DEF w
<1>16. /\ \A i, j \in DOMAIN q : q[i].id = q[j].id => i = j
       /\ \A i \in DOMAIN q : \E u \in XML!Tests(s) : Made(s, q[i], u)
       /\ \A u \in XML!Tests(s) : Counted(u) => \E i \in DOMAIN q : q[i].id = u.id
  BY <1>1, <1>15 DEF Goes
<1> HIDE DEF q
<1>17. ASSUME NEW t \in XML!Tests(s), Counted(t)
       PROVE \E i \in DOMAIN q :
               /\ {j \in DOMAIN q : q[j].id = t.id} = {i}
               /\ \E u \in XML!Tests(s) :
                    /\ u.id = t.id /\ q[i].type = u.type /\ (q[i].output = <<>> <=> u.output = <<>>)
                    /\ Place(u) \in s.files => q[i].uri = Place(u)
               /\ {q[i].uri, q[i].output} \ {<<>>} \subseteq s.files
  <2>1. PICK i \in DOMAIN q : q[i].id = t.id
    BY <1>16, <1>17
  <2>2. PICK u \in XML!Tests(s) : Made(s, q[i], u)
    BY <1>16
  <2>3. {j \in DOMAIN q : q[j].id = t.id} = {i}
    BY <1>16, <2>1
  <2> QED BY <2>1, <2>2, <2>3 DEF Made
<1>18. \A u : XML!Clean(XML!FlattenSeq(u.bases) \o u.uri) = Place(u)
  BY SameHelpers, SamePaths DEF Place
<1>19. XML!RowsFollowCatalog(s, q)
  <2> DEFINE S == {u \in XML!Tests(s) : u.id # "" /\ u.uri # <<>>}
  <2>1. \A t \in S : t \in XML!Tests(s) /\ Counted(t)
    BY Zenon DEF Counted
  <2> HIDE DEF S
  <2>2. \A t \in S : \E i \in DOMAIN q :
          /\ {j \in DOMAIN q : q[j].id = t.id} = {i}
          /\ \E u \in XML!Tests(s) :
               LET place == XML!Clean(XML!FlattenSeq(u.bases) \o u.uri) IN
               /\ u.id = t.id /\ q[i].type = u.type /\ (q[i].output = <<>> <=> u.output = <<>>)
               /\ place \in s.files => q[i].uri = place
          /\ {q[i].uri, q[i].output} \ {<<>>} \subseteq s.files
    BY <1>17, <1>18, <2>1
  <2> QED BY <2>2, Zenon DEF XML!RowsFollowCatalog, S
<1> QED BY <1>1, <1>19

\* Of a suite that copies over what is there, once its catalog has been read: the
\* rows are those of the checkout.
RowsInv ==
  pc \in {"copy", "overlay", "done"} /\ ~Rebuilt /\ src.dir # "absent" => rows = CollectTests.rows /\ CollectTests.ok

\* Each step keeps the rows.
LEMMA RowsStep == ASSUME RowsInv, [Next]_vars PROVE RowsInv'
<1>1. src' = src
  BY DEF Next, vars, RemoveAll, WriteManifest, Tabulate, Collect, CopyFiles, PopulateFixtures, CopyOverlay, Judge
<1>2. CollectTests' = CollectTests /\ Rebuilt' = Rebuilt
  BY <1>1 DEF CollectTests, Rebuilt, IsQT3, IsXSLT, IsXSTS, IsXML
<1> USE DEF RowsInv
<1>3. CASE RemoveAll
  BY <1>3 DEF RemoveAll
<1>4. CASE WriteManifest \/ CopyFiles
  BY <1>2, <1>4 DEF WriteManifest, CopyFiles
<1>5. CASE Tabulate
  <2>1. src.dir # "absent" => rows' = CollectTests.rows /\ pc' = IF CollectTests.ok THEN "done" ELSE "failed"
    BY <1>5 DEF Tabulate
  <2> QED BY <1>1, <1>2, <2>1
<1>6. CASE Collect
  <2>1. rows' = CollectTests.rows /\ (pc' = "failed" \/ CollectTests.ok)
    BY <1>6 DEF Collect
  <2> QED BY <1>1, <1>2, <2>1
<1>7. CASE PopulateFixtures \/ CopyOverlay \/ Judge \/ UNCHANGED vars
  <2>1. rows' = rows /\ (pc \in {"copy", "overlay"} \/ pc' = pc)
    BY <1>7 DEF PopulateFixtures, CopyOverlay, Judge, vars
  <2> QED BY <1>1, <1>2, <2>1
<1> QED BY <1>3, <1>4, <1>5, <1>6, <1>7 DEF Next

\* The rows of a checkout follow its catalog.
LEMMA RowsSuffice == ASSUME RowsInv, SourceInv PROVE RowsFollowCatalog
<1> SUFFICES ASSUME pc = "done", src.dir = "dir"
             PROVE  /\ IsXML => XML!RowsFollowCatalog(src, rows)
                    /\ IsXSTS => /\ XSTS!RowsFollowCatalog(src, rows, "1.1")
                                 /\ XSTS!RowsFollowCatalog(src, XSTS!BuildXSD10Cases(src, src.files), "1.0")
  BY DEF RowsFollowCatalog
<1>1. ASSUME IsXML \/ IsXSTS PROVE rows = CollectTests.rows /\ CollectTests.ok
  BY <1>1 DEF RowsInv, Rebuilt, IsQT3, IsXSLT, IsXSTS, IsXML
<1>2. ASSUME IsXML PROVE XML!RowsFollowCatalog(src, rows)
  <2>1. XML!IsCheckout(src) /\ rows = XML!CollectTests(src).rows /\ XML!CollectTests(src).ok
    BY <1>1, <1>2, TheCheckout
  <2> QED BY <2>1, FollowsXML
<1>3. ASSUME IsXSTS
      PROVE  /\ XSTS!RowsFollowCatalog(src, rows, "1.1")
             /\ XSTS!RowsFollowCatalog(src, XSTS!BuildXSD10Cases(src, src.files), "1.0")
  <2>1. /\ XSTS!IsCheckout(src) /\ IsFiniteSet(src.files)
        /\ rows = XSTS!CollectTests(src).rows /\ XSTS!CollectTests(src).ok
    BY <1>1, <1>3, TheCheckout
  <2>2. XSTS!Readable(src) /\ rows = XSTS!ReadCases(src)
    BY <2>1 DEF XSTS!CollectTests
  <2> QED BY <2>1, <2>2, Follows10, Follows11
<1> QED BY <1>2, <1>3

\* Every group of xsd11 that concerns a version and every test of xml with an ID and
\* a document has one row, with the verdict, the document and the instances that the
\* catalog states, whatever versions, bases and duplicates there are in it
\* (pickValidity, joinBase, appendTest).
THEOREM RowsAlwaysFollowCatalog == Spec => []RowsFollowCatalog
<1>1. Init => RowsInv /\ SourceInv
  BY DEF Init, RowsInv, SourceInv
<1>2. RowsInv /\ SourceInv /\ [Next]_vars => (RowsInv /\ SourceInv)'
  <2>1. SourceInv /\ [Next]_vars => SourceInv'
    BY DEF SourceInv, Next, vars, RemoveAll, WriteManifest, Tabulate, Collect, CopyFiles, PopulateFixtures, CopyOverlay, Judge
  <2> QED BY <2>1, RowsStep
<1>3. RowsInv /\ SourceInv => RowsFollowCatalog
  BY RowsSuffice
<1> QED BY <1>1, <1>2, <1>3, PTL DEF Spec
================================================================================
