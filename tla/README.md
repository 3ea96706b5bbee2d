# Verification of the helium W3C conformance harness

This directory models the program that runs helium against the W3C test suites:
the tools that fetch a suite and turn it into fixtures and Go tables, the test
binaries that judge helium case by case, and the command that turns a run into
committed evidence. helium itself is another repository; its verdict on a
document is a nondeterministic choice everywhere.

Contents: [inventory](#1-inventory) · [plan](#2-plan) · [modules](#3-modules) ·
[runs](#4-runs) · [fairness](#5-fairness) · [proofs](#6-proofs) ·
[disagreements with the code's own comments](#7-where-the-code-and-its-comments-disagree) ·
[not modelled](#8-what-is-not-modelled)

## 1. Inventory

```
suites.lock.json ──▶ w3cgen fetch ──▶ sources/<suite> ──▶ testdata/<suite>
                        │                    │ catalog          │ fixtures
                        │                    ▼                  ▼
                        └──────────▶ w3cgen generate ──▶ *_gen_test.go ──▶ test binary
                                     w3cgen verify                            │ go test -json
              expectations/*.json ────────────────────────────────────────────┤
                                                                              ▼
                                                       w3ctest ──▶ JUnit file, summary file, exit code
```

| component | source | state | operations | hard behaviour | correct when |
|---|---|---|---|---|---|
| report folds | `internal/junit` | records by test name, last terminal action wins | `ConvertGoTestJSON`, `Summarize` | streams that end early, cases without a status, a package that fails before any case | the two reports agree and lose no case |
| XML Schema harnesses | `xsd/*_harness_test.go` | running case, its failures held back, its `testing.T` | read, compile, validate, skip, invert | missing and unreadable fixtures, panics, death of the process, expected failures | a reported pass was earned; a missing fixture is no failure |
| w3ctest | `cmd/w3ctest` | captured stream, two files, exit code | `run`, `writeSummary` | a failed or torn write beside an old file, a killed `go test` | exit code 0 only for a complete, clean run |
| zip and git fetch | `internal/generator/fetch.go` | source directory, temporary directory | `fetchZip`, `fetchGit` | kills between calls, two invocations at once, a changing pin, checkouts shared by three suites | the directory is whole, pinned and installed at once |
| w3cgen | `cmd/w3cgen`, `registry.go`, `lock.go` | lock file read once | `fetch`, `generate`, `verify`, in order of names | stops at the first error | later suites are untouched by an error |
| generated files | `write.go`, `manifest.go`, `catalog.go` | files under the package directories | `WriteGoFile`, manifest | not atomic, never removes | a green verify means that every file generate would write is there and current |
| suites xml, xsd11 | `internal/suites/{xml,xsd11}` | fixture trees | `populateFixtures`, `Generate`, the closure searches, `pickValidity` | copies over an old tree, cycles of references | every fixture a case reads is copied |
| suites qt3, xslt30 | `internal/suites/{qt3,xslt30}` | fixture trees | `populateFixtures` after `RemoveAll`, overlay, `collectTests` | removal before the catalog is read | as above |
| signature suites | `internal/suites/{xmldsig2ed,xmldsig11,xmlenc11,merlinxmldsig}` | fixture trees | enumerate, copy | shared checkout | as above |
| XML harness | `xml/xml_harness_test.go` | as XML Schema | one document per case, edition gate | as XML Schema | as XML Schema |
| QT3 harness | `xpath3/qt3_helpers_test.go`, `qt3_skip_ledger_test.go` | shared server and its resource map, parallel cases, expectations by name | register, validate expectations, run, recorder of expected failures | early ends bypass the recorder; names are not unique | verdicts follow the catalog, an expected failure is watched |
| XSLT harness | `xslt3/w3c_helpers_test.go` | semaphore, caches, shared output definitions | `w3cRunOne` and its checks | 20 parallel cases over shared state | slots are returned, cases do not disturb each other |
| skip ledgers | `*_skip_ledger_test.go` | committed ledger files | rebuild and compare | drift from the runner | ledger = the runner's decision |

The hazards, each at its line, are in `PROJECT.json`; a hazard without a property
says why none covers it.

## 2. Plan

In order, the behaviour that decides what the evidence is worth coming first:

1. **Run and report** (done): `TestStream`, `CaseHarness`, `W3CTest`.
2. **Zip fetch** (done): `FetchZip`, its abstraction `AtomicInstall`.
3. **Proofs of the core** (done): `W3CTest_proofs` proves every safety invariant of
   `W3CTest`.
4. **Fixtures and tables** (done): `SuiteTree`, proved in `SuiteTree_proofs`. Left
   for later: `SuiteTree` feeding the fixture states of `CaseHarness`.
5. **Closure search** (done): `Closure`, proved in `Closure_proofs`; the depth-first
   closures of qt3 and xslt30 (`collectSchemaFilesRec`, `collectDepsRecursive`)
   are in the catalogs below.
6. **Catalogs of qt3 and xslt30** (done): `QT3Catalog`, `XSLTCatalog`, joined with
   the copying of fixtures and the judgement of rows in `SuiteGen`.
7. **Catalogs of xsd11 and xml** (done): `XSTSCatalog`, with the reader of XSD 1.0,
   and `XMLCatalog`, in `SuiteGen` too. Left for later: `editionApplies`.
8. **XSLT runner** (done): `XSLTRunner`, proved in `XSLTRunner_proofs`; the algebra of
   the checks (`w3cAnyOf`, `w3cNot`) is in `XSLTCatalog`. Left for later: the skip
   decision.
9. **QT3 runner** (done): `RunCase` and the validation of expectations in `QT3Catalog`,
   run by `SuiteGen` on the rows of the catalog. The shared server is left out.
10. **Git fetch and signature suites** (done): `SharedCheckout`, with clone, fetch and
   checkout over one shared directory and the loop of w3cgen, proved in
   `SharedCheckout_proofs`.
11. **XML harness** (done): the third suite of `CaseHarness`.

Runs stay at two or three actors and cases: each hazard listed is a matter of at
most two of them. Every safety property of a passing run is proved; what is left is
liveness, which stays with the runs.

## 3. Modules

### TestStream

The stream of `go test -json` as a sequence of events and the folds over it.
A subtest is the number of its case, so `Order(s)` is the set of names with the
prefix `RootTest + "/"`; `WithStatus(s, a)` is the set of tests whose last
terminal event is `a` (the code overwrites `Status` at each), and a test with no
terminal event is in none of them, as the code's `Status == ""` leaves it out of
the report. `Summarize` divides the passes by the `xfail (` marker in the
output. Both folds add one failure for a package that failed without any case
(`NoCases`).

### CaseHarness

`TestXSD11W3C`, `TestXSD10W3C` and `TestXMLW3C`, as w3ctest is asked for one of
`Suites`, over one of the tables that `Catalogs` has for it.

| variable | code |
|---|---|
| `cases`, `cur`, `inst` | the table ranged over, the running case, the next of `c.Instances` |
| `pc` | where the running test function is |
| `tstate.failed`, `tstate.collected` | `t.Failed()`, `len(o.fails) > 0` |
| `rootFailed` | the parent's failed flag |
| `stream`, `binary` | what the process has printed, how it ended |
| `suite` | the suite of the run, and whether `testdata/xsd11/suite.xml` exists |
| `seen` | history: what really happened to each case; read by properties only |

One action per step of the code: `ListedSkip`, `SchemaRead`/`SchemaUnread` (all
the reads before the parse, in order: the primary, then, for a valid
multi-document schema, every document for the wrapper), `Compile`,
`Validate`, the two suites' different treatment of an instance that cannot be
read (`MissingInstance11`, `UnreadableInstance11`, `PassOverInstance10`), and
`FinishCase` with the inversion of an expected failure. A case of xml has one document
and no instances: `Compile` is its parse, `expect` follows from its TYPE (open for
"error"), `UnknownType` is the fatal end of a TYPE not known, and a case that
`gatedReason` rules out is one more listed skip. `t.Skipf` and `t.Fatalf`
are `runtime.Goexit`: they end the case without the inversion, and a test that
has failed is reported failed even if it then skips (`EndCase`). A panic of helium
is turned into an `errorf` by the deferred recover and ends the case function;
a fatal error of the runtime or the `-timeout` alarm is `Die`, after which the
running case never gets a terminal event.

### W3CTest

`run()` of `cmd/w3ctest` around the harness: `GoTest*` is `cmd.Run` (the binary
steps, dies, is killed within an event or between two, or there is no `go`);
then the JUnit file and the summary file, each in state `stale` (not written by this
run), `partial` (truncated by `os.Create`, then an error) or `fresh`; then
`Verdict` with the exit code. A stream cut inside an event fails the
conversion. The fold is applied to the stream in one step, since the buffer no
longer changes.

### FetchZip and AtomicInstall

Any number of `w3cgen fetch` invocations over one source directory. An archive
stands for its bytes, hence also for its digest. `Start` reads the lock;
`StatPresent`/`StatAbsent`, `Download`, `Verified`/`Rejected`, `MkdirTemp`,
`ExtractZipEntry`, `ExtractDone`, `Rename` are the calls of `fetchZip` in order;
`FailEarly` and `FailLate` are its error returns without and with the deferred
`RemoveAll`; `Crash` kills an invocation between two calls; `Repin` edits
`suites.lock.json`. `os.Rename` is external: it moves a directory onto nothing
or onto an empty directory, and fails otherwise.

`AtomicInstall` is what an observer of the directory is promised: nothing, then
all of one acceptable archive, in one step, left alone from then on.

### SuiteTree

One suite's working tree, and `w3cgen fetch`, `generate` and `verify` as commands
that follow one another. The content of a file is the revision it was copied or
generated from; `torn` is a file truncated by `os.Create` or `os.WriteFile` and
not yet written.

| variable | code |
|---|---|
| `pin`, `lock` | `suites.lock.json`; what `LoadLock` read of it at the start of the command |
| `source`, `rev` | the checkout at `sourceDir`; what the command works from |
| `fixtures` | `testdata/<suite>` |
| `manifest`, `gen` | `*_manifest_gen_test.go` as pin and case count; the tables of cases |
| `cmd`, `pc`, `todo`, `open` | the running command, its call, the files left in its loop, the one being written |
| `tree` | history: the revision of the last successful fetch, read by properties only |

`Rebuilt` chooses the family. qt3 and xslt30 (`TRUE`): `RemoveAll`, entry by
entry, before the catalog is read; `SkipMissing` for `os.IsNotExist`;
`StartOverlay` and the second copy loop. xml, xsd11, signatures (`FALSE`): no
removal, `StopAtMissing`. `Zip` says that `FetchSource` leaves an existing source
alone instead of checking out the pin. `Catalog` says of each revision
which tables it yields, what their cases read, what else is copied (the
XSD 1.0 reader's files, resources), what the checkout holds and how many cases the
manifest counts: two revisions of the same count have the same manifest.
`Abort` is any error return and any kill: neither undoes anything.

### CatalogPaths, QT3Catalog, XSLTCatalog

What `gen.go` and `plan.go` of the two large suites derive from a checkout, as
operators. A checkout is a record of what the code finds there: `dir`, `top` and
`stray` for the source directory, its `catalog.xml` and another file of such a name
that the scan may meet first; the test sets with their cases; the files; the references in
them. `Join` and `ContainedPath` keep of a path what the code asks of it: which
directory, and whether it leaves the root. `IsCheckout` of each suite says what such a
record is (the lists are lists, the files finite and below the root, results made of the
assertions there are), and for xslt30 that no file is both a stylesheet and a schema: the
two searches share one set of visited files (`gen.go:1036-1041`), so a file met first as a
schema would not be followed as a stylesheet, and that no file has a fragment in its name.
A fragment is cut off where the code cuts it off: from what the catalog names and from
an `xsl:source-document` before the search (`NormalizeAssetPath` in `CatalogRelPaths` and
`ResolveDep`), from any other reference only when the files are copied (`Assets`). `Reached` is the closure of a finite graph and
`Among` the elements of a list that lie in a set, both by recursive functions.

| operator | code |
|---|---|
| `ReadCatalogInfo`, `ReadCatalogPlan` | the manifest's walk and counts |
| `CollectTests` | the generator's walk: the rows and the files to copy |
| `GeneratedTest`, `Row` | what the walk keeps of a case, what is written of it to a table |
| `SkipReason`, `Applies` (qt3); `DependencySkip`, `GatedSkip` (xslt30) | the chains of gates, in the code's order |
| `ResolveEnvironment`, `EnvSchemas`, `StylesheetPath`, `PackageDeps`, ... | which files a row names |
| `CollectSchemaFiles`, `Visit` | the two depth-first closures; `Visit` is one recursive call with the set of visited files both of xslt30's searches share |
| `AssertionsExpectError`, `ExpectError`, `AcceptErrors`, `EmitAssertion`, `EmitCheck` | what becomes of a result element |
| `AssertionIsReal`, `IsFalsePassRisk` | the mark of a case that no result fails |
| `Holds`, `Meets`, `Passes` | how the harness evaluates the checks of a row: `rawFn` against `fn`, what `all-of` and `any-of` pass over in raw mode |

An assertion is `[type, what, file, children]`; of what it compares only `what`
remains, a letter that an outcome of helium has or has not. Assertions form trees of any
depth (`IsTree`, assumed as `AssertionAssumption`). Names of cases and values
of dependencies stand for the code's lists, one or two of each.

### XSTSCatalog, XMLCatalog

The same for `xsd11` and `xml`, where a path is the sequence of its names and `Clean`
is `path.Clean`, since both follow relative references through several directories.

| operator | code |
|---|---|
| `Readable`, `ReadCases`, `BuildCase` (xsd11) | `readCases`, `buildCase`: what is an error, what is passed over, what drops a group or an instance |
| `Applies11`, `Applies10`, `PickValidity(exps, version)` | which groups a version has, `pickValidity` and `pickValidity10` |
| `ReadXSD10FixtureRels`, `BuildXSD10Cases(src, files)` | what is copied for the reader of XSD 1.0, and that reader over the files it finds |
| `ParseTopCatalog`, `ParseCollectionCatalog`, `AppendTest` (xml) | entities and bases of `xmlconf.xml`, the walk of a collection with the IDs seen so far |
| `ResolveFixture` | below the base, else next to the catalog, else an error |
| `SchemaClosure`, `CollectClosure` | what the searches of `Closure` find, step by step |

### SuiteGen

One fetch (`RemoveAll`, `Collect`, `CopyFiles`, `CopyOverlay`, or `Collect` and
`PopulateFixtures` for xsd11 and xml) or one generate (`WriteManifest`, `Collect`, or
`Tabulate`) of a suite on one checkout, and `Judge`, the harness of qt3 or xslt30 on one
row with one outcome of helium. For qt3 it is a subtest of `qt3RunTests` with what
`expectations/qt3.json` lists of the case (`Listings`: any file that
`qt3ValidateExpectations` lets through, names given twice included), the way its set-up
ends (`SetUps`) and, only if that is "ready", `qt3CheckResult`, turned round by
`qt3RunXFail` for an expected failure. One step is enough for a case: the cases run in
parallel but share only the server's map, which is filled before any of them goes on. Its properties compare what the code
derives twice: rows and copied files, manifest and tables, result element and
checks. `Accepts` says what a result element means by the suites' own
definition; `FairTo` and `StrictOn` name the shapes of result in which the checks
emitted say the same. Outside of these the code is known to say less: alternatives
below alternatives in qt3, errors below `all-of`, and in xslt30 (`Regular`) errors
elsewhere than outermost or among outermost alternatives, empty groups, a `not` of
what is never checked, and parts that mix what is asked of the raw result, of a text and of
messages, since in raw mode `all-of` passes over the rest and `any-of` shows it no
messages (`Views`, `Untangled`).

### SharedCheckout

w3cgen over `xmldsig11`, `xmlenc11`, `merlinxmldsig` and `xmldsig2ed`: `Start` is the
command line with the lock it reads, `NextSuite` the loop over suites. The first
three share `sourceDir`, a git repository: `repo`, `work`, `head` and `locked` are its
directory, working tree, HEAD and index lock. `StatSource` to `GitCheckedOut` are
`fetchGit`, git's part in it external: a clone under way is a directory git cannot use, a
checkout holds the index and writes path by path, and is refused while another, living
or dead, holds it. `ListFixtures`, `CopyFile` and `FetchDone` are the rest of
`Fetch`, `Enumerate` and `WriteGoFile` are `Generate`. A tree is a set of paths,
`Copies` and `Cases` say what each suite copies and names. `Kill` tears the clone,
checkout, copy or table under way; `fetched` and `verified` are history.

### Closure

`collectClosure` (xml) and `schemaClosure` (xsd11): a queue, the set of
what was ever enqueued, and `links`, the references of the file just read that
the inner loop still has to look at. A file is scanned only when its extension
says so (`scanned`; in `schemaClosure` all files are). `Reachable` defines the
transitive closure apart from the search, as the least closed set of readable files.

### XSLTRunner

`w3cRunTests` and `w3cRunOne`: parallel subtests, of which `go test -parallel` lets
`GoParallel` run and `w3cSem` lets `MaxParallel` past its acquisition.

| variable | code |
|---|---|
| `tc` | `xslt30AllCases`, as records of what the runner's control flow asks of a case |
| `pc` | where `w3cRunOne` is |
| `sem` | tokens in `w3cSem` |
| `sources`, `sheets` | `w3cSourceBytesCache`, `w3cStylesheetCache`: whose compilation a path has |
| `outDefs` | `w3cResultDocOutputDefs`: under which key, delivered by whose transform |
| `loc` | the locals of `w3cRunOne` (stylesheet, secondary results, assertions left) and the flags of its `testing.T` |
| `log` | history: errors raised, fixtures missed, assertions that failed, definitions used |

The two caches are `sync.Map`s: a load and the `LoadOrStore` after a miss are
actions of their own (`LoadSource`/`ReadSource`, `LoadSheet`/`StoreSheet`), and
other cases step between. `CompileEmbedded` and `CompileDirect` are the two routes that
cache nothing. `Deliver` is `inv.Do` as far as it calls back: the receiver's
handlers store output definitions, the HTTP client asks for pages. `Judge` is its return.
Each early return goes through `Fatal`, `Return`, `Raise` or
`RaiseInDocument` to the label `cleanup`, where `Release` is the `t.Cleanup` that
gives the token back. helium is external: each of its calls may succeed or
raise any of the errors the case tells apart.

A file can be missing in two ways. What the runner reads itself (`imports`, the source,
the stylesheet, a collection) ends in a `Miss`, and so does a page nobody serves; what the
processor opens by calling back (`loads`: the packages of `w3cPackageResolver`, the modules
of `w3cTestCompileResolver`, the documents of `w3cTestFileResolver` and of a permissive
FS) is `ResolveFile`: the error goes to the processor, not to `testing.T`, and
it is the processor that raises an error for it or does without. A processor
that recovers is allowed for, since nothing in the runner would notice.

## 4. Runs

| run | question | bounds |
|---|---|---|
| `w3ctest` | do reports and exit code tell the truth, and does the run end, for the two suites of XML Schema and that of XML | every single case (3 expectations × 2 validities × 6 document lists × up to 2 instances in 3 states), every pair of cases with one document and at most one instance; of xml every case (3 expectations × 4 kinds of verdict × 3 states of its document), alone and before one that should be accepted |
| `w3ctest_lost` | does dead evidence ever read clean and empty (violated) | same, XSD 1.1 |
| `fetch_zip` | is the archive installed at once, whole and pinned; does a fetch end | 2 invocations, 3 archives (two entries, none, not a zip), pins over all of them and none, `MaxCrashes = 1` |
| `suite_tree_overlaid` | do fetch and verify keep their promises over an old, torn or stale tree (xml: zip, copied over) | 2 files, 2 tables, 3 revisions: one loses a table, two have the same count, one names a file its checkout lacks |
| `suite_tree_rebuilt` | the same, and is the tree clean (qt3, xslt30: git, removed first, overlay) | 3 files, one of them curated, 2 tables, 2 revisions, one of which lacks a file |
| `closure` | does the search find exactly the reachable files, read each once, and end | every graph of 3 files with 8 lists of references each (none, one, two, a repeated one, a remote one), each file missing, read or scanned |
| `xslt_shared` | do parallel cases leave each other alone, is every token given back, does every case end | 3 cases, 2 tokens, one stylesheet, one URI of secondary results, one error |
| `xslt_shapes` | is a pass earned, does a miss fail | 1 case of 762 shapes: route, source, imports, files the processor opens, collections, pages, expected and accepted errors, assertions |
| `xslt_unread` | does every missing fixture fail (violated) | as `xslt_shapes` |
| `suite_gen` | do fixtures, tables, manifest and checks agree with the catalog | some 5300 checkouts of the four suites. qt3 and xslt30: of one to three cases that vary in one respect at a time: every dependency of a list of 12 to 14 with every other, every environment of 11 (qt3) and 20 (xslt30), every assertion of 28 (qt3) and 89 (xslt30), nested to depth 3; with and without some of the files; references from one file to another, some with a fragment; 10 outcomes. xsd11: one or two sets of one or two groups, 9 lists of expectations for schema and instance, tags of set and group, missing schemas, instances and sets, cycles of locations. xml: one or two blocks and collections, 6 combinations of bases, references that lead to the base, to the catalog, nowhere or out, IDs given twice |
| `suite_gen_unmarked` | does every unmarked qt3 case fail on some result (violated) | same |
| `shared_checkout` | do invocations that share a checkout copy what they pinned, do fetch and verify agree, does every command end | 2 invocations started (all suites, one, an unknown one), one kill or failing call, 2 commits, one of which lacks a collection and a key; 3 locks: one pin, two pins, a missing and an unknown one |

Why these bounds are enough: a case interacts with another only through `rootFailed`
and its place in the stream, so two cases meet every interaction; a case
interacts with its own documents one at a time, and two instances show what one
does to the next. Two invocations show every race for one directory, and one kill leaves
what a rerun must cope with; the proofs cover every other number. `SuiteTree`
has no bound on the number of commands: its files, tables and revisions are
finite, so every sequence of commands is explored (types and the end of commands are
checked in one of its runs only, as are the promises of either command alone); two files show a loop
interrupted between them, a third the overlay. Three files make every shape of graph
the search could trip over: a cycle, a shared target, a target behind one that is
missing or not scanned. The cases of `XSLTRunner` meet in the semaphore, the caches
and the output definitions only: three cases over two tokens have one wait while
two race, and everything else is decided within a case, which `xslt_shapes`
varies. The walks of `SuiteGen` decide case by case, and what one case does to another
is the limit of strm and the set of files: two cases meet both. The gates of a case
read its dependencies, its environment and its result apart from each other, so a
checkout varies one of them. The proofs of `XSLTRunner` cover any number of cases, tokens and shapes.

The properties, in the order of their weight:

* `GreenRunIsComplete` — exit code 0 means both files are of this run, every
  case of the catalog is in them, and none failed.
* `PassIsEarned` — what the reports call passed met no wrong verdict, unless it
  was an expected failure, which then really failed.
* `ReportsAgree` — the JUnit file and the summary tell the same story.
* `MissingFixtureNeverFails` — a fixture not fetched never makes a failure of XSD
  1.1 or XML (the harness of XSD 1.0 breaks the promise, section 7).
* `Terminates`, `FetchEnds` — a run and a fetch end.
* `InstallsAtomically`, `SourceIsComplete`, `SourceIsPinned`, `OutcomeIsHonest` —
  the promises of `fetchZip`.
* `VerifiedCasesHaveFixtures` — a fetch and a verify, run apart and each green,
  together promise that the compiled cases find their files, whole and of one
  revision.
* `FetchedTreeIsWhole`, `RebuiltTreeIsClean`, `VerifyIsHonest`, `CommandsEnd` — what
  each command promises alone.
* `FindsReachable`, `ReadsOnce` — the closure search is neither short nor wasteful.
* `PassIsEarned`, `MissIsAFailure` (XSLT) — a passed case saw the error it expects,
  or none it does not accept and no assertion fail. A case that could not read a
  fixture itself or fetch a page fails, save for the stylesheet of section 7; one
  whose package, module or document a resolver could not open fails if the processor
  raises an error for it and the case neither expects an error nor accepts this one.
* `SlotsBalanced`, `OneSheetPerPath`, `ReadsOwnOutputDef`, `EveryCaseEnds` — the
  parallel cases: no token lost or given back twice on any way out, one
  compilation per path whoever wins the race, no other case's output definition,
  no case left waiting.
* `RunnableCasesFindFiles` — a fetched tree holds every file a case that is not skipped
  will open, with what it includes, if checkout or overlay have it: the rows, the
  list of files and the searches are three derivations. Behind a reference of
  xslt30 with a fragment it promises the file named and no more (section 7).
* `RowsFollowCatalog` — between the catalogs of xsd11 and xml and their rows (those
  of XSD 1.0 too) no test is lost, doubled or held to a verdict not stated for its version.
* `XSD10ReadsSameCases` — after a fetch the reader of XSD 1.0, silent on what it
  misses, finds in testdata what the checkout says. A set the checkout lacks and an
  earlier one left in testdata is read as well; that is outside of the property.
* `CountsMatchTables` — no case is lost between the manifest's walk and the tables'.
* `VerdictsFollowCatalog` — a row passes exactly the outcomes its result element
  accepts, in the shapes named in section 3; where qt3 expects a failure, the other way
  round, and such a case is neither skipped (but for a schema that does not compile or
  validate, which the code's validation of the file cannot foresee) nor taken to have
  failed as expected because a fixture or a parameter could not be read.
* `FetchedIsPinned` — after a green fetch nobody disturbed, every file of the pinned
  commit is in place and of that commit, after any history of other commits, broken
  clones and torn copies.
* `VerifiedCasesFindVectors` — a table a green verify accepts has the cases of the
  commit it read, and if a green fetch was of the same commit, each case finds vector
  and key: the files copied and the files named are derived apart.
* `CommandsEnd` (of `SharedCheckout` too) — a checkout somebody holds, or died holding,
  makes a command fail and none wait.
* `RiskMeansCannotFail` — a case marked as a false-pass risk is one.

`CHECK_DEADLOCK FALSE` in the `W3CTest` and `SuiteGen` configurations: one invocation
ends and the model stops with it. `FetchZip` never stops (the lock can always
be edited), nor does `SuiteTree` (a command can always be started): their runs
check deadlock. `SharedCheckout` stops when the bounded number
of invocations has ended. A `Closure` search stops when it is done, and `XSLTRunner` when
all cases have ended; there `EveryCaseEnds` rules out a deadlock before that.

## 5. Fairness

`WFairness` asks that a running test binary makes progress (helium's calls return
or panic) and that w3ctest, which from `cmd.Run` on only computes and writes
files, goes on. It asks for no death, kill or failed write: termination does
not rest on the alarm of `go test -timeout`. `Fairness` of `FetchZip` is weak
fairness of `Advance(p)`, an invocation's own steps; starting one, killing one and
editing the lock are never forced. A download that hangs for ever is therefore
excluded by assumption: the code passes a context without a deadline.
`FairSpec` of `SuiteTree` is weak fairness of `Fetch` and of `Generate`, the calls
of a running command; starting one, aborting one, repinning and removing the
checkout are never forced. `FairSpec` of `Closure` is weak fairness of the one
sequential loop. `FairSpec` of `SharedCheckout` is weak fairness of the steps of each
invocation: git returns, and starting, killing and failing calls are never
forced. `Spec` of `XSLTRunner` is weak fairness of each case's goroutine:
the scheduler runs it and helium's calls return. Tokens are not promised to a
waiting case (that would take strong fairness): each case takes one once, so the
waiting one gets its turn when the others have ended.

## 6. Proofs

Checked by TLAPS, for every value of the constants under the named assumptions.

* `W3CTest_proofs` (assumes `NamesDiffer`, `SuitesAssumption`,
  `CatalogsAssumption`): `TypeCorrect` and `PassesAreEarned`. A pass is printed
  when its case ends and read when the stream is folded, much later. `IInv`
  follows the evidence: `RunningInv` relates the marks of the running case to
  the flags that bar it from passing; `PassesInv` says that every pass in the
  stream is of a case that has ended and earned it, whose marks cannot change any
  more; `TestsInv` bounds the names in the stream by the cases started, which
  also makes the summary's counts numbers (a cardinality is a number only of
  a finite set); `FreshInv` lets a new case start unmarked; `ReportInv` carries
  the fold into the file. Four lemmas (`RootStep`, `QuietStep`, `EndStep`,
  `RunCaseStep`) cover the four ways a step may treat the stream, so that each
  action of the harness is a short case.

  `ReportsAlwaysAgree`, `GreenRunsAreComplete` and `MissingFixturesNeverFail` are
  about the files at the end of a run. `EndsInv` says that the loop leaves no case
  behind without its terminal event, and that `go test` says "ok" only after all of
  them or when the root test skipped; `FailsInv` that a case that failed has failed the
  root test with it, and for something else than a missing fixture; `DocsInv` that
  a fresh report and a fresh summary are the folds of the same stream, which is why
  they agree, and that the exit code is 0 only behind both. The status of a test is
  that of its last event: `LeastNat` (a non-empty set of naturals has a least
  element, from the library's `WFMin`) finds such an event.
* `FetchZip_proofs` (assumes `FetchAssumption`): `TypeCorrect`,
  `SourceAlwaysComplete`, `SourceAlwaysPinned`, `OutcomeAlwaysHonest` and
  `ImplementsAtomicInstall`, for any number of invocations, kills and repins. What
  `Rename` moves is whole and acceptable because of what the invocation
  established on its way: `WantInv` (its digest was once in the lock),
  `CheckedInv` (its data passed the check), `TmpInv` (its tree is of that data
  and complete before the rename).

* `SuiteTree_proofs` (assumes `SuiteTreeAssumption`): `TypeCorrect`,
  `FetchedTreeAlwaysWhole`, `RebuiltTreeAlwaysClean`, `VerifyAlwaysHonest` and
  `VerifiedCasesAlwaysHaveFixtures`, for every catalog, both families, any
  sequence of commands and kills. A promise about the whole tree is won file by
  file: `CopyInv` says that what is off the list is in place (and in the overlay
  loop, that the curated files are laid over and the rest still in place),
  `CleanInv` that since the removal nothing but copies has come, `VerifyInv` that
  what is off the list has been compared; `JobInv` ties list, open file and
  revision to the control point. The last theorem joins the two: the table on
  disk reads what the catalog's table reads, and that was copied.
* `Closure_proofs` (assumes `ClosureAssumption`): `TypeCorrect`, `AlwaysReadsOnce`
  and `AlwaysFindsReachable`, for every set of graphs. `SetsInv` says that a file
  enqueued is either in the queue or dealt with, `SeenInv` that the
  references of a file already read are enqueued or still among `links`, `KnownInv`
  that whatever is known so far lies in every closed set if it can be read; at the
  end queue and links are empty, so the result is closed and least.

* `XSLTRunner_proofs` (assumes `XSLTRunnerAssumption`): `TypeCorrect`,
  `SlotsAlwaysBalanced`, `AlwaysOneSheetPerPath`, `AlwaysReadsOwnOutputDef`,
  `PassesAreEarned` and `MissesAreFailures` (both kinds of missing files, with what excuses
  each), for any number of cases of any shape. A token is held
  exactly between two labels, so the balance follows from which labels a
  step leads to (`WorkKeepsToken`). A cached compilation is never replaced, which
  makes `OneSheetPerPath` inductive. `DefsInv` says that a definition is stored under
  the case whose transform delivered it. `VerdictOf` says at each label what is
  known of the case: no error before the case is done with, a failed flag for
  every wrong assertion and every miss, and at `cleanup` the promise itself.
  `OthersKeep` confines a step to its own case.

* `SharedCheckout_proofs` (assumes `SharedCheckoutAssumption`): `TypeCorrect`,
  `FetchesArePinned` and `VerifiedCasesAlwaysFindVectors`, for any number of
  invocations, commits, suites and files, kills and edits of the lock. The two say what
  holds of an invocation nobody disturbed, so the invariant (`PInv`) says of each
  invocation that still counts as alone what it has established so far: `PinInv`
  where its checkout stands, `TreeInv` that the working tree is then that of the
  commit, `CopyInv` which files are already copied, `CasesInv` where the cases
  it is about to tabulate come from. It is not inductive by itself: two checkouts under
  way at once would each leave files of the other, hence `HolderInv` (git's own lock
  lets one through, and a killed one leaves the lock behind). `Others` carries an invocation over the steps of the others: such
  a step leaves alone what it relies on, or ends its being alone. `FetchedInv` and
  `VerifiedInv` keep the promises when the invocation has ended. `SortSet` and
  `CopiesCoverCases` are about the data: sorting loses no file, and the files copied
  are those the cases name.
* `SuiteGen_proofs` (assumes `LeftoverAssumption`, `CheckoutAssumption` and
  `AssertionAssumption`): `TypeCorrect`, `XSD10AlwaysReadsSameCases`,
  `ExpectedFailuresAreWatched`, `RunnableCasesAlwaysFindFiles`, `RisksCannotFail`,
  `VerdictsAlwaysFollowCatalog`, `CountsAlwaysMatchTables` and `RowsAlwaysFollowCatalog`,
  for all checkouts.
  The second joins two walks written apart: `FixturesInv` says that a fetch of xsd11
  wants what the other reader opens and, if it ends well, has all it wanted; the
  reader looks at nothing but which set files are there (`SameSets`). The
  assumption is needed because xsd11 copies over the old tree: a set file that an
  earlier fetch left, named by a catalog whose checkout lacks it, would give the
  reader cases which the checkout has not. The third is the part of
  `VerdictsFollowCatalog` that does not look into assertions, without a run of its own.

  `RunnableCasesAlwaysFindFiles` is about all four suites. `CopiedInv` says that a fetch
  that ended well has every file wanted that there is to copy. The rest is about the
  walks: each row is the row of a case of the catalog, the files its case wants
  include what the row names, and the searches of the walk end with a set closed under
  the references that `Opens` follows. The searches of xml, xsd11 and qt3 repeat a step
  as often as there are files, which is often enough because a step that is not the last finds
  a file. xslt30 searches by calls: each either finds its file visited, and the list
  of calls is shorter, or visits it and calls for some of its references, so the
  calls to come and the references of files not visited are together at most the bound,
  and fewer after each step. The search knows a file by the reference as written, the copy
  by its name without the fragment: the two agree on every file that is opened and
  followed (`WithoutFragment`), and what is opened behind a fragment is copied.

  `RisksCannotFail` rests on `JudgedInv`: the rows are none or those of the checkout, and the
  verdict is what the harness makes of a row. Then a row marked is the row of a case none of
  whose assertions is real, and by induction over the tree of an assertion
  (`UnrealHolds`) what is emitted for one that is not real holds of every result.

  `VerdictsAlwaysFollowCatalog` rests on `JudgedInv`, too, and compares two readings of a
  result element: `Accepts`, by recursion over the assertions, and `Holds`, by
  recursion over the checks emitted for them. Both read an assertion by its children, so
  the induction is over the tree of assertions; that of the checks has no order of its own,
  and `CheckRank` gives it that of the assertions they come from. In qt3 two lemmas go
  along the tree, one for "no more" (`QT3ChecksFair`) and one for "no less"
  (`QT3ChecksStrict`). In xslt30 the harness looks at a result in one of three ways,
  as text, as typed value or without messages, and picks one for the children of
  each composite: `Says` is a check seen in one of them, `SaysText`, `Unsaid` and
  `SaysTyped` say which assertions each tells the truth about, and `PartHolds` that
  `Untangled` leaves no composite a choice that lies. `PartsJoin` takes a result element
  apart at its all-of, where the checks are joined; `OneAssertion` reads the flags for
  errors off the same element, and `NoReason` that a row which runs is none whose
  checks were all passed over.

  `CountsAlwaysMatchTables` rests on `CountsInv`: the manifest is the plan, and the rows are
  those of the walk that makes them. Both go through the same cases in the same order, but
  they take apart what to keep and what to skip at different places: the plan counts
  places of one list of cases, the tables are lists of rows, one for each set, joined. A case
  skipped by the plan is skipped in its row (`QT3SkipIs`, `XSLTSkipIs`, `SameGate` for the
  limit of streaming cases), a row skipped beyond that has a reason only the generator
  knows, and counting the places of a list agrees with counting among its parts
  (`FlatCount`) and among what is kept of it (`CountAmong`). For xsd11 and xml, with one walk,
  it is enough that no row has a reason to skip (`XSTSRuns`, `XMLRuns`).

  `RowsAlwaysFollowCatalog` rests on `RowsInv`: the rows are those of the walk. What is left is
  about the walks. In xsd11 each group makes at most one row, under its set and its name,
  and the rows are joined set by set. Sets and names are unique in a checkout, so the
  places of a row with this set and name are those of one group's part (`NamedRows`,
  `Rows11`, `Rows10`); `PickIs` says that the verdict picked is one stated for the
  version, for all, or else the first. In xml the walk drops the second test of an ID,
  so the property says that the one row of an ID is the row of some test of it. `Goes` is the
  invariant of the walk, stated for any set of tests already read: the IDs seen are the IDs of the
  rows, no ID has two, each row is of one of these tests, and a test with ID and document
  has a row unless the walk has failed. `GoesOn` and `AppendGoes` carry it over one test,
  `CollectedGoes` over the blocks and entities, and `BaseIs` says that the bases joined one
  after the other lead where all of them joined at once do, cleaned.
  `XSTS!IsCheckout` assumes that a catalog names a set once and a set no two groups
  alike, `XML!IsCheckout` that bases and documents are lists of names.
* `CatalogPaths_proofs`: lemmas about the operators of the catalogs, by which the
  former proves what recursion computes. A recursive function over numbers is what its
  equation says (`Iterate`: what it computes up to each number exists), hence `ReachedClosed` and `ReachedWithin`, `AmongIs`, `FlattenIs`, `ReadUpTo`; counts
  of places (`Count`) are carried along such lists by `AmongPlaces` and `AsMany`; cleaning a path
  step by step comes to what cleaning it at the end does; the
  elements of a tree have ranks below which their children lie (`TreeRank`), hence induction
  over trees (`TreeInd`) and the equation of a recursive function over one (`TreeRec`). Each
  is by a least counterexample.

Only model-checked:

* liveness (`Terminates` of both modules, `FetchEnds`, `CommandsEnd`,
  `EveryCaseEnds`), which the proof system does not reach.

## 7. Where the code and its comments disagree

1. **A lost case reads clean.** `summary.go:84` records a synthetic failure only
   when no case was seen; a package that dies in its first case has been seen.
   Its summary is 0 failed of 0, against `summary.go:81-83`. (w3ctest's exit code
   is still 1, which `GreenRunIsComplete` confirms.)
2. **A case that cannot fail is not marked.** `assertionIsReal`
   (`qt3/gen.go:1591`) takes an `any-of` with composite branches for real, though each
   is emitted as a check that always holds, and the error inside an `all-of`, for which
   nothing is emitted, against "can actually fail on a wrong result" (`gen.go:1587`).
   The committed case collection-004 is one.
3. **A missing stylesheet passes a case that expects an error.**
   `w3cCompileCached` returns the error of `os.ReadFile` (`w3c_helpers_test.go:2741`) as
   it returns a compile error, and `w3cRunOne` takes any error for the expected one,
   against the property named at `xslt30.go:39-41`: "a missing needed fixture fails
   loudly at test time". The same becomes of a package (`2564-2654`), an imported module
   (`143-166`) or a document the transform reads: the resolver's error comes back as the
   processor's, and passes a case that expects any error (`1159-1161`, `1373-1375`) or
   accepts this one. `MissIsAFailure` says what is left of the promise; the run
   shows the stylesheet.

Met on the way, without a run of their own: a run of XSD 1.1 whose fixtures were never
fetched skips case by case and exits 0, against `main.go:202-204` ("a conformance run
must execute cases"); the XSD 1.0 harness passes over an instance it cannot read, so an
expected failure is then reported as unexpectedly passed, against the comment on
`caseOutcome`; `fetch.go:41-43` takes any existing directory for the pinned archive,
so a repinned lock fetches nothing; the plan of xslt30 counts as runnable the cases
that only the generator skips (`gen.go:478-480`, `622-628`), though "the manifest's
runnable/skipped counts stay consistent with the emitted case tables" (`plan.go:10-12`),
which is why `CountsMatchTables` leaves these reasons room (the committed manifest has
13048 runnable cases, the tables 13047); the three suites on one
checkout generate from whatever is checked out, whatever pin they have
(`xmlenc11/suite.go:110-119`), against "deterministically from that pinned source" (`6-7`);
without a checkout xmldsig11 writes an empty table and no "skip-only manifest"
(`xmldsig11/suite.go:10`); git checkout leaves local changes alone at the commit it is
at, so a fetch of that commit after one that died changing to another ends green over
a mixture, which `FetchedIsPinned` excepts; the second test of an ID is dropped before its
document is looked for (`xml/catalog.go:238`), though a missing document "is a hard
error" (`230-233`); the generator counts an excluded case toward the limit of
strm (`xslt30/gen.go:353-356`; excluded ones are removed only at 647), the plan does not
(`plan.go:55-65`): the counts agree because no excluded case is of that category; the
`RawCheck` of `w3cAnyOf` calls its textual alternatives without messages
(`w3c_helpers_test.go:349-362`), so an `assert-message` beside a typed alternative sees
none, and neither does one below an `all-of` that reads a document (`840-862`); the search
for dependencies passes references other than those of `xsl:source-document` on as
written (`xslt30/gen.go:1116`, `1130`, `1144`, `1209`), so what `href="a#f"` names is copied,
as `a`, while opening `a#f` fails (1090) and what `a` refers to is not collected: without
its exception `RunnableCasesFindFiles` fails in `suite_gen`; the manifest carries commit
and URL but no digest (`manifest.go:28-34`), so `verify` does not notice a lock repinned in
its `sha256` alone: the pins of `SuiteTree` are what the manifest records.

## 8. What is not modelled

Parsing of arguments, the provenance header and the rendering of the reports
(layout). In `CaseHarness` the table of cases is a constant: it is not joined to the
rows of `XSTSCatalog` and `XMLCatalog`. Tables that no present
catalog names: `generate` and `verify` open only the files of the present one, and
the code promises nothing of others. The XSD 1.0 tallies, which are only logged.
The skip ledgers: `TestQT3SkipLedger` and `TestXSLT30SkipLedger` rebuild a file from the
tables and compare bytes, so that all there is to say of them restates the comparison
(the validation of expectations that the former shares is in `QT3Catalog`). Of the QT3
runner: the shared server, and the base URIs by which relative resources reach it; they
depend on the text of the expression (`qt3NeedsRelativeUnparsedTextBaseURI`), which the
model has not. A URI that two cases gave different files would be served by the later
registration: the committed tables have none. `qt3RunTests` without a fetched
`catalog.xml` skips as a whole.
`internal/harness` (a search for `go.mod`), the generators' rendering of Go
source, the signature and encryption harnesses (straight-line checks of
helium's cryptography) and the value comparisons of the QT3 and XSLT harnesses
that are pure functions of helium's values.

Of the catalogs of xsd11 and xml: the recoding of UTF-16 and UCS-4 files before the
search for references, and instances without a document. Of those of qt3 and xslt30: namespaces, decimal formats, parameters, initial
templates and modes, collations, base URIs and the spelling of Go source, all of
which the walk hands through unlooked at; the assignment of a case to a table by the
name of its category.

Of the XSLT harness: the order of the tests in `w3cSkipDecision`, the resolution
of packages and the conversion of parameters, and what an assertion compares. A
code the case expects (`ErrorCode`) is never compared with the error raised, hence is
in the model only for the two kinds that change the control flow. Whether the output
definition that line 1404 changes is the cached stylesheet's or a copy is decided in
helium. `w3cCheckAllOf` tries a check that fails on the text on each message, too
(`w3c_helpers_test.go:835-847`); the model does not tell what holds of a text from what holds of
messages. Assertions that look at the raw result only are passed over when the
transform delivers none, as in the code.
