-------------------------------- MODULE SuiteGen --------------------------------
(***************************************************************************)
(* One run of Generate, or of the part of Fetch that fills testdata, on    *)
(* one checkout of a suite: the tables, the counts in the manifest, the    *)
(* fixtures and what a harness will look for are derived from one catalog  *)
(* by several walks.  qt3 and xslt30 rebuild their tree, xsd11 and xml     *)
(* copy over it.  The harnesses of qt3 and xslt30 then judge rows of the   *)
(* tables by what helium delivers (CaseHarness has that of xsd11).         *)
(* (What kills and failed writes do to the files is SuiteTree's.)          *)
(***************************************************************************)
EXTENDS CatalogPaths

CONSTANTS
  QT3Assertion, XSLTAssertion,  \* assertions of either suite
  StrmUnlockLimit,  \* how many cases of the category strm run
  Sources,          \* checkouts
  Overlay,          \* committed curated fixtures
  Outcomes          \* what helium makes of a case: an error or none, what
                    \* holds of the result, and whether there is a raw one

\* An assertion is [type, what, file, children], an element with those below it
\* (of xslt30, listed in order); an outcome is [error, holds, raw].
ASSUME AssertionAssumption ==
  /\ IsTree(QT3Assertion, [a \in QT3Assertion |-> a.children])
  /\ IsTree(XSLTAssertion, [a \in XSLTAssertion |-> ToSet(a.children)])
  /\ \A a \in XSLTAssertion : IsList(a.children)

QT3 == INSTANCE QT3Catalog WITH Assertion <- QT3Assertion
XSLT == INSTANCE XSLTCatalog WITH Assertion <- XSLTAssertion
XSTS == INSTANCE XSTSCatalog
XML == INSTANCE XMLCatalog

\* A file of an earlier fetch, which no catalog of today names as one of its sets.
Leftover == <<"left", "over">>
ASSUME LeftoverAssumption ==
  \A s \in Sources : s.suite = "xsd11" => \A t \in ToSet(s.sets) : XSTS!Clean(t.href) # Leftover

\* What there is to copy is finite, and each checkout is one of its suite.
ASSUME CheckoutAssumption ==
  /\ IsFiniteSet(Overlay)
  /\ \A s \in Sources :
       /\ IsFiniteSet(s.files) /\ s.suite \in {"qt3", "xslt30", "xsd11", "xml"}
       /\ CASE s.suite = "qt3" -> QT3!IsCheckout(s) [] s.suite = "xslt30" -> XSLT!IsCheckout(s)
            [] s.suite = "xsd11" -> XSTS!IsCheckout(s) [] s.suite = "xml" -> XML!IsCheckout(s)

VARIABLES
  src,       \* the checkout of the suite src.suite
  cmd,       \* "fetch" or "generate"
  pc,        \* control point
  manifest,  \* counts in the manifest
  rows,      \* the tables, one after the other
  files,     \* what collectTests wants copied
  testdata,  \* files below testdata
  verdict    \* the last row judged

vars == <<src, cmd, pc, manifest, rows, files, testdata, verdict>>

NoVerdict == [row |-> 0, outcome |-> "none", listed |-> {}, setUp |-> "none", status |-> "none"]

Init ==
  /\ src \in Sources
  /\ cmd \in {"fetch", "generate"}
  /\ pc = CASE cmd = "generate" -> "plan"
            [] cmd = "fetch" /\ src.suite \in {"xsd11", "xml"} -> "collect"
            [] OTHER -> "remove"
  /\ manifest = QT3!NoPlan
  /\ rows = <<>> /\ files = {}
  /\ testdata = {Leftover}
  /\ verdict = NoVerdict

IsQT3 == src.suite = "qt3"
IsXSLT == src.suite = "xslt30"
IsXSTS == src.suite = "xsd11"
IsXML == src.suite = "xml"
Rebuilt == IsQT3 \/ IsXSLT

CollectTests ==
  CASE IsQT3 -> QT3!CollectTests(src) [] IsXSLT -> XSLT!CollectTests(src)
    [] IsXSTS -> XSTS!CollectTests(src) [] IsXML -> XML!CollectTests(src)

RemoveAll ==
  /\ pc = "remove"
  /\ testdata' = {}
  /\ pc' = "collect"
  /\ UNCHANGED <<src, cmd, manifest, rows, files, verdict>>

\* The manifest is written, then the tables if the top-level catalog is there.
WriteManifest ==
  /\ pc = "plan" /\ Rebuilt
  /\ LET plan == IF IsQT3 THEN QT3!ReadCatalogPlan(src) ELSE XSLT!ReadCatalogPlan(src) IN
       /\ manifest' = IF plan.ok THEN plan ELSE manifest
       /\ pc' = CASE ~plan.ok -> "failed"
                  [] plan.ok /\ src.top = "absent" -> "done"
                  [] OTHER -> "collect"
  /\ UNCHANGED <<src, cmd, rows, files, testdata, verdict>>

\* xsd11 and xml have one walk for both; without a checkout the manifest alone
\* is written.
Tabulate ==
  /\ pc = "plan" /\ ~Rebuilt
  /\ IF src.dir = "absent" THEN pc' = "done" /\ UNCHANGED <<manifest, rows>>
     ELSE LET walk == CollectTests IN
       /\ rows' = walk.rows
       /\ manifest' = [manifest EXCEPT !.cases = Len(rows'), !.runnable = Len(rows')]
       /\ pc' = IF walk.ok THEN "done" ELSE "failed"
  /\ UNCHANGED <<src, cmd, files, testdata, verdict>>

Collect ==
  /\ pc = "collect"
  /\ LET walk == CollectTests IN
       /\ rows' = walk.rows
       /\ files' = walk.files
       /\ pc' = CASE ~walk.ok -> "failed"
                  [] walk.ok /\ cmd = "fetch" -> "copy"
                  [] OTHER -> "done"
  /\ UNCHANGED <<src, cmd, manifest, testdata, verdict>>

\* The paths xslt30 has recorded are rid of fragments where they are copied.
Wanted == IF IsQT3 THEN files ELSE XSLT!Assets(files)

\* Slip: every file wanted is taken to be there.
CopyFilesSlip ==
  /\ pc = "copy" /\ Rebuilt /\ pc' = "overlay"
  /\ testdata' = Wanted
  /\ UNCHANGED <<src, cmd, manifest, rows, files, verdict>>

\* A file the checkout lacks is passed over; an unsafe path ends the fetch
\* somewhere in the middle (the files are copied in no order).
CopyFiles ==
  /\ pc = "copy" /\ Rebuilt
  /\ LET there == {p \in Wanted : IF IsQT3 THEN p \in src.files ELSE XSLT!Available(src, p)} IN
       IF \A p \in Wanted : QT3!ContainedPath(p)
       THEN testdata' = there /\ pc' = "overlay"
       ELSE testdata' \in SUBSET there /\ pc' = "failed"
  /\ UNCHANGED <<src, cmd, manifest, rows, files, verdict>>

\* xsd11 and xml copy over what is there, in order, up to the first file they
\* cannot.
PopulateFixtures ==
  /\ pc = "copy" /\ ~Rebuilt
  /\ IF files \subseteq src.files
     THEN testdata' = testdata \cup files /\ pc' = "done"
     ELSE (\E s \in SUBSET (files \cap src.files) : testdata' = testdata \cup s) /\ pc' = "failed"
  /\ UNCHANGED <<src, cmd, manifest, rows, files, verdict>>

CopyOverlay ==
  /\ pc = "overlay"
  /\ testdata' = testdata \cup Overlay
  /\ pc' = "done"
  /\ UNCHANGED <<src, cmd, manifest, rows, files, verdict>>

-------------------------------------------------------------------------------
(* The harness *)

\* What expectations/qt3.json may list; TestQT3W3C ends at one that is not valid.
Listings ==
  LET names == {rows[i].name : i \in DOMAIN rows} IN
  {e \in [skip : SUBSET names, xfail : SUBSET names] : QT3!ValidExpectations(e, rows)}

\* The cases run in parallel, but share nothing that one of them writes.
JudgeQT3 ==
  /\ IsQT3
  /\ \E e \in Listings, i \in DOMAIN rows, o \in Outcomes :
       LET listed == {l \in {"skip", "xfail"} : rows[i].name \in e[l]} IN
       \E u \in QT3!SetUps(rows[i]) :
         verdict' = [row |-> i, outcome |-> o, listed |-> listed, setUp |-> u,
                     status |-> QT3!RunCase(rows[i], listed, u, o)]

\* What comes before and after the assertions of a case is in XSLTRunner.
JudgeXSLT ==
  /\ IsXSLT
  /\ \E i \in DOMAIN rows, o \in Outcomes :
       /\ rows[i].skip = ""
       /\ verdict' = [row |-> i, outcome |-> o, listed |-> {}, setUp |-> "ready",
                      status |-> IF XSLT!Passes(rows[i], o) THEN "pass" ELSE "fail"]

Judge ==
  /\ pc = "done" /\ cmd = "generate" /\ verdict = NoVerdict
  /\ JudgeQT3 \/ JudgeXSLT
  /\ UNCHANGED <<src, cmd, pc, manifest, rows, files, testdata>>

Next ==
  RemoveAll \/ WriteManifest \/ Tabulate \/ Collect \/ CopyFiles \/ PopulateFixtures \/ CopyOverlay \/ Judge

Spec == Init /\ [][Next]_vars

-------------------------------------------------------------------------------
(* Properties *)

\* What can be copied.  (Reached is what finds the files of rows, too; where x
\* leads to is said here by itself.)
Copyable == src.files \cup (IF Rebuilt THEN Overlay ELSE {})

\* What a case opens: its documents, what the server serves for it, schemas with
\* what they include (qt3RunTests, qt3SchemaOpts) ...
QT3Opens(row) ==
  row.docs \cup row.resources
    \cup Reached(row.schemas, [p \in Copyable |-> QT3!SchemaLocations(src, p) \cap Copyable])

\* ... or stylesheets and packages, each file read as what refers to it has it
\* (w3cCompileCached and helium's own loader), documents and schemas.  What an
\* import, an include or a schema location names with a fragment counts, but not
\* what that file refers to in turn: the generator does not look for it.
XSLTOpens(row) ==
  LET read(x) == {r \in ToSet(XSLT!Refs(src, x.path)) : x.as = "sheet" \/ (x.as = "schema" /\ r.kind = "location")}
      next(x) == {[path |-> Join(x.path[1], XSLT!NormalizeAssetPath(r.to)),
                   as |-> IF r.kind = "document" \/ r.to \in DOMAIN XSLT!Bare THEN "data" ELSE XSLT!As(r.kind)] :
                    r \in read(x)}
  IN {x.path : x \in Reached({[path |-> p, as |-> "sheet"] : p \in row.sheets},
                       [x \in [path : Copyable, as : {"sheet", "schema", "data"}] |-> next(x)])} \cup row.docs

\* The files a row needs; the reader of XSD 1.0 shares the tree of xsd11.
Opens(row) ==
  CASE IsQT3 -> QT3Opens(row) [] IsXSLT -> XSLTOpens(row)
    [] IsXSTS -> XSTS!Opens(src, row) [] IsXML -> XML!Opens(src, row)
Runnable ==
  {row \in ToSet(rows) : row.skip = ""}
    \cup (IF IsXSTS THEN ToSet(XSTS!BuildXSD10Cases(src, src.files)) ELSE {})

\* A tree fetched to its end holds, for every case that runs, each file the case
\* opens that the checkout or the overlay has: the derivation of the rows, that
\* of the files and the searches through them must agree.  (For xslt30, behind a
\* reference with a fragment nothing is promised but the file it names.)
RunnableCasesFindFiles ==
  cmd = "fetch" /\ pc = "done" =>
    \A row \in Runnable : Opens(row) \cap Copyable \subseteq testdata

Skipped(reasons) == Cardinality({i \in DOMAIN rows : rows[i].skip \in reasons})

\* "The manifest's runnable/skipped counts stay consistent with the emitted
\* case tables" (both plan.go): no case is lost between the two walks, and they
\* differ only where the generator alone looks at stylesheets and assertions.  (A
\* case left out of the tables counts towards the limit of strm in one walk only;
\* none of the catalog is both.)
LateReasons == {"assert-xml file", "no stylesheet", "unsupported assertion", "placeholder"}
CountsMatchTables ==
  cmd = "generate" /\ pc = "done" /\ src.top = "good" /\ (IsXSLT => src.stray = "absent" /\ ~XSLT!StrmExcluded(src)) =>
    LET skipped == Cardinality({i \in DOMAIN rows : rows[i].skip # ""}) IN
    /\ manifest.cases = manifest.excluded + Len(rows)
    /\ manifest.runnable + manifest.skipped = Len(rows)
    /\ manifest.skipped \in (skipped - Skipped(LateReasons))..skipped

\* A case whose expression was evaluated agrees with its catalog: it is never
\* failed for an outcome the catalog accepts and never passed for one it rejects.
\* The assertions emitted, the flags for errors and the skips say together what
\* the result element says, in the shapes of result each suite's FairTo and
\* StrictOn name (emitAssertion, classifyError).
FollowsCatalog(passes, row, o) ==
  IF IsQT3 THEN (passes \/ QT3!FairTo(row, o)) /\ (passes => QT3!StrictOn(row, o))
           ELSE (passes \/ XSLT!FairTo(row, o)) /\ (passes => XSLT!StrictOn(row, o))

\* The verdicts follow the catalog, turned round where expectations/qt3.json
\* expects a failure.  Such a case is watched to its end once the suite has
\* started: it is not skipped but for its schema, since else "the case is skipped
\* before qt3RunXFail, so its tripwire never runs" (qt3ValidateExpectations), and a
\* fixture or parameter that cannot be read is no failure that was expected.
VerdictsFollowCatalog ==
  LET xfail == "xfail" \in verdict.listed IN
  /\ verdict.setUp = "ready" /\ verdict.status # "skip" =>
       FollowsCatalog((verdict.status = "pass") # xfail, rows[verdict.row], verdict.outcome)
  /\ verdict.setUp = "fatal" => verdict.status \in {"fail", "skip"}
  /\ verdict.setUp = "skip" => verdict.status = "skip"
  /\ xfail /\ verdict.status = "skip" => verdict.setUp = "skip"

\* A case marked as a false-pass risk passes whatever result it gets: the mark
\* is never a false alarm (isFalsePassRisk; TestQT3WeakNoOpGuard counts marks).
RiskMeansCannotFail ==
  IsQT3 /\ verdict.setUp = "ready" /\ verdict.listed = {} /\ verdict.outcome.error = "" =>
    (rows[verdict.row].falsePassRisk => verdict.status = "pass")

\* "Can actually fail on a wrong result (i.e. is not a no-op/unconditional
\* check)" (assertionIsReal of qt3): a case not marked fails on some result.
UnmarkedCasesCanFail ==
  cmd = "generate" /\ pc = "done" /\ IsQT3 =>
    \A row \in ToSet(rows) : row.skip = "" /\ ~row.falsePassRisk =>
      \E o \in Outcomes : o.error = "" /\ ~QT3!Passes(row, o)

\* No test is lost or held to another verdict between the catalogs of xsd11 and
\* xml and the rows made of them, those of XSD 1.0 included: whatever way versions,
\* bases and duplicates are stated (pickValidity, joinBase, appendTest).
RowsFollowCatalog ==
  pc = "done" /\ src.dir = "dir" =>
    /\ IsXML => XML!RowsFollowCatalog(src, rows)
    /\ IsXSTS => /\ XSTS!RowsFollowCatalog(src, rows, "1.1")
                 /\ XSTS!RowsFollowCatalog(src, XSTS!BuildXSD10Cases(src, src.files), "1.0")

\* The harness of XSD 1.0, which walks testdata and passes in silence over what is
\* missing there, finds after a fetch the very cases of the checkout: "the
\* xsd11 fetch must copy the catalog too" (readXSD10FixtureRels).
XSD10ReadsSameCases ==
  IsXSTS /\ cmd = "fetch" /\ pc = "done" =>
    XSTS!BuildXSD10Cases(src, testdata) = XSTS!BuildXSD10Cases(src, src.files)

\* Types of the variables.
TypeOK ==
  /\ cmd \in {"fetch", "generate"}
  /\ pc \in {"remove", "plan", "collect", "copy", "overlay", "done", "failed"}
  /\ testdata \subseteq src.files \cup Overlay \cup DOMAIN XSLT!AssetSource \cup {Leftover}
  /\ verdict.row \in {0} \cup DOMAIN rows
  /\ verdict.status \in {"none", "pass", "fail", "skip"}
===============================================================================
