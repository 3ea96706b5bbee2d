-------------------------------- MODULE W3CTest --------------------------------
(***************************************************************************)
(* One invocation of cmd/w3ctest: it runs `go test -json` on a suite (the  *)
(* test binary is CaseHarness), converts the captured stream to a JUnit    *)
(* file, rolls it up into a summary file, and derives its own exit code.   *)
(* Either file may be left over from an earlier invocation, either write   *)
(* may fail, and `go test` may be killed half way through an event.        *)
(***************************************************************************)
EXTENDS CaseHarness, Integers

VARIABLES
  wpc,      \* control point of run()
  cut,      \* the captured stream ends inside an event
  junit,    \* the JUnit file: its state and, when fresh, its document
  summary,  \* the summary file, likewise
  code      \* exit code of w3ctest, Unset until it exits

wvars == <<wpc, cut, junit, summary, code>>
vars == <<hvars, wvars>>

Unset == -100

NoJUnit   == [failures |-> {}, skipped |-> {}, passed |-> {}]
NoSummary == [passed |-> 0, xfailed |-> 0, failed |-> 0, skipped |-> 0, total |-> 0]

WInit ==
  /\ Init
  /\ wpc = "test"
  /\ cut = FALSE
  /\ junit = [state |-> "stale", doc |-> NoJUnit]
  /\ summary = [state |-> "stale", doc |-> NoSummary]
  /\ code = Unset

Exit(n) == wpc' = "exited" /\ code' = n

-------------------------------------------------------------------------------
(* cmd.Run                                                                 *)

\* The test binary takes a step of its own, or dies.
GoTestRuns ==
  /\ wpc = "test"
  /\ HarnessStep
  /\ UNCHANGED wvars

GoTestDies ==
  /\ wpc = "test"
  /\ Die
  /\ UNCHANGED wvars

\* `go test' is killed; what it had written may end inside an event.
GoTestKilled ==
  /\ wpc = "test"
  /\ binary = "running"
  /\ binary' = "killed"
  /\ pc' = "exited"
  /\ cut' \in BOOLEAN
  /\ UNCHANGED <<cases, suite, cur, inst, tstate, rootFailed, stream, seen>>
  /\ UNCHANGED <<wpc, junit, summary, code>>

\* There is no `go' to run: err is not an *exec.ExitError.
GoTestMissing ==
  /\ wpc = "test"
  /\ pc = "setup"
  /\ binary' = "nostart"
  /\ pc' = "exited"
  /\ UNCHANGED <<cases, suite, cur, inst, tstate, rootFailed, stream, seen>>
  /\ UNCHANGED wvars

GoTestEnds ==
  /\ wpc = "test"
  /\ binary # "running"
  /\ wpc' = "junit"
  /\ UNCHANGED <<hvars, cut, junit, summary, code>>

-------------------------------------------------------------------------------
(* The two files.                                                          *)

\* MkdirAll or os.Create fails: the old file, if any, is untouched.
JUnitNotCreated ==
  /\ wpc = "junit"
  /\ Exit(1)
  /\ UNCHANGED <<hvars, cut, junit, summary>>

\* os.Create has truncated the file when the conversion, or a write, fails.
JUnitNotConverted ==
  /\ wpc = "junit"
  /\ junit' = [state |-> "partial", doc |-> NoJUnit]
  /\ Exit(1)
  /\ UNCHANGED <<hvars, cut, summary>>

WriteJUnit ==
  /\ wpc = "junit"
  /\ ~cut
  /\ junit' = [state |-> "fresh", doc |-> ConvertGoTestJSON(stream)]
  /\ wpc' = "summary"
  /\ UNCHANGED <<hvars, cut, summary, code>>

SummaryNotCreated ==
  /\ wpc = "summary"
  /\ Exit(1)
  /\ UNCHANGED <<hvars, cut, junit, summary>>

SummaryNotWritten ==
  /\ wpc = "summary"
  /\ summary' = [state |-> "partial", doc |-> NoSummary]
  /\ Exit(1)
  /\ UNCHANGED <<hvars, cut, junit>>

WriteSummary ==
  /\ wpc = "summary"
  /\ summary' = [state |-> "fresh", doc |-> Summarize(stream)]
  /\ wpc' = "verdict"
  /\ UNCHANGED <<hvars, cut, junit, code>>

-------------------------------------------------------------------------------
(* The exit code: an empty report is a failure; otherwise that of go test. *)

\* Slip: the error of cmd.Run is not forwarded.
ExitCodeSlip == IF summary.doc.total = 0 THEN 1 ELSE 0

ExitCode ==
  CASE binary = "ok" -> (IF summary.doc.total = 0 THEN 1 ELSE 0)
    [] binary = "fail" -> 1
    [] binary = "killed" -> -1
    [] binary = "nostart" -> 1

Verdict ==
  /\ wpc = "verdict"
  /\ Exit(ExitCode)
  /\ UNCHANGED <<hvars, cut, junit, summary>>

W3CStep ==
  \/ GoTestEnds
  \/ JUnitNotCreated \/ JUnitNotConverted \/ WriteJUnit
  \/ SummaryNotCreated \/ SummaryNotWritten \/ WriteSummary
  \/ Verdict

WNext == GoTestRuns \/ GoTestDies \/ GoTestKilled \/ GoTestMissing \/ W3CStep

\* A running test makes progress (helium returns, or panics) and w3ctest itself
\* only computes and writes files.  Nothing forces a death, a kill or a failed
\* write, and the end does not depend on the alarm of `go test -timeout'.
WFairness == WF_vars(GoTestRuns) /\ WF_vars(W3CStep)

WSpec == WInit /\ [][WNext]_vars /\ WFairness

-------------------------------------------------------------------------------
(* Properties.                                                             *)

CaseIds == 1..Len(cases)

\* Type invariant of the harness and the command together.
TypeOK ==
  /\ HarnessTypeOK
  /\ wpc \in {"test", "junit", "summary", "verdict", "exited"}
  /\ cut \in BOOLEAN
  /\ junit \in [state : {"stale", "partial", "fresh"},
                doc   : [failures : SUBSET (Nat \cup {Setup}),
                         skipped : SUBSET Nat, passed : SUBSET Nat]]
  /\ summary \in [state : {"stale", "partial", "fresh"},
                  doc   : [passed : Nat, xfailed : Nat, failed : Nat,
                           skipped : Nat, total : Nat]]
  /\ code \in {Unset, -1, 0, 1}

\* The two folds of the stream tell one story: a fresh summary has a fresh JUnit
\* file beside it with as many failures and skips, and the JUnit passes are the
\* summary's passes and expected failures.
ReportsAgree ==
  summary.state = "fresh" =>
    /\ junit.state = "fresh"
    /\ summary.doc.failed = Cardinality(junit.doc.failures)
    /\ summary.doc.skipped = Cardinality(junit.doc.skipped)
    /\ summary.doc.passed + summary.doc.xfailed = Cardinality(junit.doc.passed)

\* A green run (exit code 0) wrote both files, lost no case of the catalog
\* between t.Run and the reports, and reports no failure: not when a case failed
\* early and later ones passed, not when the process died, not when a write failed.
GreenRunIsComplete ==
  code = 0 =>
    /\ junit.state = "fresh" /\ summary.state = "fresh"
    /\ junit.doc.failures = {}
    /\ junit.doc.passed \cup junit.doc.skipped = CaseIds
    /\ summary.doc.total = Len(cases) /\ summary.doc.failed = 0

\* What the reports call passed was earned: an ordinary case met no wrong verdict
\* and no panic (but in XSD 1.0, nor a fixture it could not read), and an expected
\* failure did fail its conformance check rather than only be listed.
PassIsEarned ==
  \A i \in junit.doc.passed :
    LET bad == seen[i] \cap {"mismatch", "panic"}
    IN  /\ cases[i].listed = "none" => bad = {}
        /\ cases[i].listed = "xfail" => bad # {}
        /\ suite.name # "xsd10" => seen[i] \cap {"missing", "unreadable"} = {}

\* caseOutcome's promise that infrastructure problems are never inverted: a case
\* of XSD 1.1 or XML whose only trouble is a fixture that was not fetched is
\* never reported failed.  (The harness of 1.0 breaks the promise.)
MissingFixtureNeverFails ==
  suite.name # "xsd10" =>
    \A i \in CaseIds :
      (/\ "missing" \in seen[i]
       /\ seen[i] \cap {"mismatch", "panic", "unreadable"} = {})
        => i \notin WithStatus(stream, "fail")

\* w3ctest always comes to an end, whatever fixture, verdict or write fails.
Terminates == <>(wpc = "exited")

\* The summary's comment on its synthetic failure: evidence of a package that
\* failed never reads as a clean, empty suite.
NeverReadsCleanAndEmpty ==
  (summary.state = "fresh" /\ PackageFailed(stream))
    => ~(summary.doc.total = 0 /\ summary.doc.failed = 0)
===============================================================================
