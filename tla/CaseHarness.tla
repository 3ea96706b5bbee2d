------------------------------ MODULE CaseHarness ------------------------------
(***************************************************************************)
(* The test binaries of the two XML Schema suites and of the XML suite:    *)
(* TestXSD11W3C, TestXSD10W3C and TestXMLW3C, which share one scheme.      *)
(* Each runs its cases one after another with t.Run; a case is skipped,    *)
(* run, or run as an expected failure (xfail), and may be cut short by a   *)
(* missing or unreadable fixture, by a panic in helium, or by the death of *)
(* the whole process.  The binary's observable result is the event stream  *)
(* that `go test -json` prints.                                            *)
(*                                                                         *)
(* helium itself is outside the repository: its verdict on a document is a *)
(* nondeterministic choice.  A verdict reached because the 30-second       *)
(* context of the XSD 1.0 runner expired is a "reject", as in the code.    *)
(***************************************************************************)
EXTENDS TestStream

CONSTANTS
  Suites,    \* the suites w3ctest may be asked for, of "xsd10", "xsd11" and "xml"
  Catalogs   \* the tables of cases the run of a suite may meet: sequences of Case

FileState == {"present", "missing", "unreadable"}

\* xstsCase and xmlCase, with what the expectations file and the disk say of it.
\* `listed' is the case's entry after the lookups exp.Skip[c.ID] != "" and
\* exp.XFail[c.ID]; a case of xml that gatedReason rules out counts as "skip".
\* A case of xml has one document and no instances; its TYPE may be one that
\* leaves the verdict open ("either") or one the runner does not know.
Case == [listed : {"none", "skip", "xfail"},
         expect : {"accept", "reject", "either", "unknown"},  \* SchemaValid, Type
         docs   : Seq(FileState) \ {<<>>},  \* SchemaDocs (docs[1] is SchemaRel), or URI
         insts  : Seq(FileState)]     \* Instances

ASSUME SuitesAssumption == Suites \subseteq {"xsd10", "xsd11", "xml"}
ASSUME CatalogsAssumption == \A n \in Suites : \A cs \in Catalogs[n] : cs \in Seq(Case)

VARIABLES
  cases,     \* the case table of this run
  suite,     \* the suite of this run, and whether testdata/xsd11/suite.xml, which
             \* only XSD 1.0 reads, is there
  pc,        \* control point of the running test function
  cur,       \* index of the running case, 0 before the first
  inst,      \* index of the next instance of the running case
  tstate,    \* testing.T of the running case and its caseOutcome
  rootFailed,\* a subtest failed, so its parent has
  binary,    \* "running", or how the test process ended
  stream,    \* the events printed so far
  seen       \* history: what really happened to each case

hvars == <<cases, suite, pc, cur, inst, tstate, rootFailed, binary, stream, seen>>

FreshT == [failed |-> FALSE, collected |-> FALSE]

\* History marks of a case: a verdict agreed or not, helium panicked, a fixture
\* was missing, a fixture was unreadable.
Mark == {"match", "mismatch", "panic", "missing", "unreadable"}

Init ==
  /\ suite \in [name : Suites, xml : BOOLEAN]
  /\ cases \in Catalogs[suite.name]
  /\ pc = "setup"
  /\ cur = 0
  /\ inst = 1
  /\ tstate = FreshT
  /\ rootFailed = FALSE
  /\ binary = "running"
  /\ stream = <<>>
  /\ seen = [i \in 1..Len(cases) |-> {}]

This == cases[cur]
IsXFail == This.listed = "xfail"
Emit(es) == stream' = stream \o es
Saw(m) == seen' = [seen EXCEPT ![cur] = @ \cup {m}]

\* The process ends after printing the package's own result.
ExitWith(root, package) ==
  /\ Emit(root \o <<Ev(Package, package)>>)
  /\ binary' = IF package = "fail" THEN "fail" ELSE "ok"
  /\ pc' = "exited"

-------------------------------------------------------------------------------
(* The root test.                                                          *)

\* The package does not build: no test event at all.
BuildFails ==
  /\ pc = "setup"
  /\ ExitWith(<<Ev(Package, "build-fail")>>, "fail")
  /\ UNCHANGED <<cases, suite, cur, inst, tstate, rootFailed, seen>>

\* The expectations file (or, for XSD 1.0, suite.xml) cannot be read or parsed.
SetupFatal ==
  /\ pc = "setup"
  /\ ExitWith(<<Ev(Root, "run"), Ev(Root, "fail")>>, "fail")
  /\ UNCHANGED <<cases, suite, cur, inst, tstate, rootFailed, seen>>

\* XSD 1.0 reads its cases from suite.xml and skips the root test without it.
SetupSkip ==
  /\ pc = "setup"
  /\ suite.name = "xsd10"
  /\ ~suite.xml
  /\ ExitWith(<<Ev(Root, "run"), Ev(Root, "skip")>>, "pass")
  /\ UNCHANGED <<cases, suite, cur, inst, tstate, rootFailed, seen>>

SetupDone ==
  /\ pc = "setup"
  /\ suite.name = "xsd10" => suite.xml
  /\ Emit(<<Ev(Root, "run")>>)
  /\ pc' = "loop"
  /\ UNCHANGED <<cases, suite, cur, inst, tstate, rootFailed, binary, seen>>

\* Slip: the loop runs once too often.
MoreCasesSlip == cur <= Len(cases)

MoreCases == cur < Len(cases)

RunCase ==
  /\ pc = "loop"
  /\ MoreCases
  /\ cur' = cur + 1
  /\ inst' = 1
  /\ tstate' = FreshT
  /\ Emit(<<Ev(cur + 1, "run")>>)
  /\ pc' = "listed"
  /\ UNCHANGED <<cases, suite, rootFailed, binary, seen>>

LoopEnds ==
  /\ pc = "loop"
  /\ cur = Len(cases)
  /\ LET result == IF rootFailed THEN "fail" ELSE "pass"
     IN  ExitWith(<<Ev(Root, result)>>, result)
  /\ UNCHANGED <<cases, suite, cur, inst, tstate, rootFailed, seen>>

-------------------------------------------------------------------------------
(* One case.                                                               *)

\* testing.T reports a failed test as failed even if it skipped afterwards.
EndCase(outputs, failed, skipped) ==
  LET result == CASE failed -> "fail" [] ~failed /\ skipped -> "skip"
                  [] OTHER -> "pass"
  IN  /\ Emit(outputs \o <<Ev(cur, result)>>)
      /\ rootFailed' = (rootFailed \/ failed)
      /\ pc' = "loop"

\* t.Skip / t.Skipf: runtime.Goexit, so the xfail inversion never runs.
Skipf == EndCase(<<>>, tstate.failed, TRUE)

\* t.Fatalf: failed, and Goexit likewise.
Fatalf == EndCase(<<>>, TRUE, FALSE)

\* Slip: every message is collected, xfail or not.
ErrorfSlip == tstate' = [tstate EXCEPT !.collected = TRUE]

\* caseOutcome.errorf: collected for an xfail case, else a test failure.
Errorf == tstate' = IF IsXFail THEN [tstate EXCEPT !.collected = TRUE]
                               ELSE [tstate EXCEPT !.failed = TRUE]

ListedSkip ==
  /\ pc = "listed"
  /\ This.listed = "skip"
  /\ Skipf
  /\ UNCHANGED <<cases, suite, cur, inst, tstate, binary, seen>>

NotListed ==
  /\ pc = "listed"
  /\ This.listed # "skip"
  /\ pc' = "schema"
  /\ UNCHANGED <<cases, suite, cur, inst, tstate, rootFailed, binary, stream, seen>>

\* The schema documents the case opens, in order: the primary, and all of them
\* once more for the import wrapper of a multi-document schema expected valid.
OpenedDocs == IF Len(This.docs) > 1 /\ This.expect = "accept"
                THEN <<This.docs[1]>> \o This.docs
                ELSE <<This.docs[1]>>

\* Slip: the os.IsNotExist test is lost, so a missing file is fatal.
UnreadSlip(state) == Fatalf

\* A document that does not exist skips the case, an unreadable one fails it.
Unread(state) == IF state = "missing" THEN Skipf ELSE Fatalf

SchemaRead ==
  /\ pc = "schema"
  /\ \A i \in DOMAIN OpenedDocs : OpenedDocs[i] = "present"
  /\ pc' = "compile"
  /\ UNCHANGED <<cases, suite, cur, inst, tstate, rootFailed, binary, stream, seen>>

\* The first document that cannot be read ends the case.
SchemaUnread ==
  /\ pc = "schema"
  /\ \E i \in DOMAIN OpenedDocs :
       /\ OpenedDocs[i] # "present"
       /\ \A j \in 1..(i - 1) : OpenedDocs[j] = "present"
       /\ Saw(OpenedDocs[i])
       /\ Unread(OpenedDocs[i])
  /\ UNCHANGED <<cases, suite, cur, inst, tstate, binary>>

\* Parse and compile, or for xml parse and validate: accepted, rejected (either
\* step returned an error), or a panic that the deferred recover turns into an
\* errorf.  A TYPE "error" leaves the verdict open.
Compile(verdict) ==
  /\ pc = "compile"
  /\ This.expect = "unknown" => verdict = "panic"
  /\ IF This.expect = verdict \/ (This.expect = "either" /\ verdict # "panic")
       THEN Saw("match") /\ UNCHANGED tstate
       ELSE Saw(IF verdict = "panic" THEN "panic" ELSE "mismatch") /\ Errorf
  /\ pc' = IF verdict = "accept" THEN "instances" ELSE "finish"
  /\ UNCHANGED <<cases, suite, cur, inst, rootFailed, binary, stream>>

\* Only after the parse does a TYPE not known end the case.
UnknownType ==
  /\ pc = "compile"
  /\ This.expect = "unknown"
  /\ Fatalf
  /\ UNCHANGED <<cases, suite, cur, inst, tstate, binary, seen>>

MoreInstances == pc = "instances" /\ inst <= Len(This.insts)

\* Slip: a document that cannot be read is tried again.
NextInstanceSlip ==
  inst' = IF This.insts[inst] = "present" THEN inst + 1 ELSE inst

NextInstance == inst' = inst + 1

\* An instance document that could be read is parsed and validated.
Validate(verdict) ==
  /\ MoreInstances
  /\ This.insts[inst] = "present"
  /\ Saw(verdict)
  /\ IF verdict = "match" THEN UNCHANGED tstate ELSE Errorf
  /\ pc' = IF verdict = "panic" THEN "finish" ELSE "instances"
  /\ NextInstance
  /\ UNCHANGED <<cases, suite, cur, rootFailed, binary, stream>>

\* XSD 1.1: a missing instance skips the whole case.
MissingInstance11 ==
  /\ MoreInstances
  /\ suite.name = "xsd11"
  /\ This.insts[inst] = "missing"
  /\ Saw("missing")
  /\ Skipf
  /\ UNCHANGED <<cases, suite, cur, inst, tstate, binary>>

\* XSD 1.1: an unreadable one fails it directly, also when it is an xfail.
UnreadableInstance11 ==
  /\ MoreInstances
  /\ suite.name = "xsd11"
  /\ This.insts[inst] = "unreadable"
  /\ Saw("unreadable")
  /\ tstate' = [tstate EXCEPT !.failed = TRUE]
  /\ NextInstance
  /\ UNCHANGED <<cases, suite, pc, cur, rootFailed, binary, stream>>

\* XSD 1.0: an instance that cannot be read is tallied and passed over.
PassOverInstance10 ==
  /\ MoreInstances
  /\ suite.name = "xsd10"
  /\ This.insts[inst] # "present"
  /\ Saw(This.insts[inst])
  /\ NextInstance
  /\ UNCHANGED <<cases, suite, pc, cur, tstate, rootFailed, binary, stream>>

InstancesDone ==
  /\ pc = "instances"
  /\ inst > Len(This.insts)
  /\ pc' = "finish"
  /\ UNCHANGED <<cases, suite, cur, inst, tstate, rootFailed, binary, stream, seen>>

\* The case function returned: an xfail case is inverted.
FinishCase ==
  /\ pc = "finish"
  /\ IF ~IsXFail
       THEN EndCase(<<>>, tstate.failed, FALSE)
       ELSE IF tstate.collected
              THEN EndCase(<<Ev(cur, "xfail-output")>>, tstate.failed, FALSE)
              ELSE EndCase(<<>>, TRUE, FALSE)
  /\ UNCHANGED <<cases, suite, cur, inst, tstate, binary, seen>>

-------------------------------------------------------------------------------
\* The process dies under a test: a fatal error of the runtime that no recover
\* sees (stack overflow, out of memory) or the -timeout alarm.  The running test
\* gets no terminal event; the package does.
Die ==
  /\ pc \notin {"setup", "exited"}
  /\ ExitWith(<<>>, "fail")
  /\ UNCHANGED <<cases, suite, cur, inst, tstate, rootFailed, seen>>

HarnessStep ==
  \/ BuildFails \/ SetupFatal \/ SetupSkip \/ SetupDone
  \/ RunCase \/ LoopEnds
  \/ ListedSkip \/ NotListed \/ SchemaRead \/ SchemaUnread
  \/ \E v \in {"accept", "reject", "panic"} : Compile(v)
  \/ UnknownType
  \/ \E v \in {"match", "mismatch", "panic"} : Validate(v)
  \/ MissingInstance11 \/ UnreadableInstance11 \/ PassOverInstance10
  \/ InstancesDone \/ FinishCase

-------------------------------------------------------------------------------
(* Types.                                                                  *)

PC == {"setup", "loop", "listed", "schema", "compile", "instances", "finish", "exited"}

HarnessTypeOK ==
  /\ cases \in Seq(Case)
  /\ suite \in [name : Suites, xml : BOOLEAN]
  /\ pc \in PC
  /\ cur \in 0..Len(cases)
  /\ inst \in Nat \ {0}
  /\ tstate \in [failed : BOOLEAN, collected : BOOLEAN]
  /\ rootFailed \in BOOLEAN
  /\ binary \in {"running", "ok", "fail", "killed", "nostart"}
  /\ stream \in Seq(Event)
  /\ seen \in [1..Len(cases) -> SUBSET Mark]
===============================================================================
