------------------------------ MODULE TestStream ------------------------------
(***************************************************************************)
(* The event stream of `go test -json` and the two folds the module makes  *)
(* over it: the JUnit report (internal/junit/junit.go) and the conformance *)
(* summary (internal/junit/summary.go).                                    *)
(*                                                                         *)
(* A stream is a sequence of events.  Both folds key their records by the  *)
(* test's name, keep the LAST terminal action as its status, and ignore a  *)
(* test whose name does not start with "<RootTest>/".  Names, messages and *)
(* times are abstracted: a subtest is the number of its case, and the only *)
(* output the folds tell apart is a line holding the "xfail (" marker.     *)
(***************************************************************************)
EXTENDS Naturals, Sequences, FiniteSets

CONSTANTS
  Root,     \* the root test ("TestXSD11W3C"): never matches the prefix
  Package,  \* the Test field of a package-level event: the empty string
  Setup     \* the synthetic case of a package that failed before any case

ASSUME NamesDiffer ==
  /\ Root # Package
  /\ {Root, Package, Setup} \cap Nat = {}

Terminal == {"pass", "fail", "skip"}

Event == [test   : Nat \cup {Root, Package},
          action : {"run", "output", "xfail-output", "build-fail"} \cup Terminal]

Ev(t, a) == [test |-> t, action |-> a]

\* Tests whose name has the prefix RootTest + "/": the records both folds keep.
Order(s) == {s[i].test : i \in {j \in DOMAIN s : s[j].test \notin {Root, Package}}}

\* rec.Status is overwritten by each terminal event and stays "" without one:
\* the tests whose last terminal event is `a'.
WithStatus(s, a) ==
  {t \in Order(s) :
     \E i \in DOMAIN s :
       /\ s[i] = Ev(t, a)
       /\ \A j \in DOMAIN s :
            (j > i /\ s[j].test = t) => s[j].action \notin Terminal}

\* xfailReason: some output line of the test holds the marker "xfail (".
XFailLogged(s, t) ==
  \E i \in DOMAIN s : s[i].test = t /\ s[i].action = "xfail-output"

PackageFailed(s) ==
  \E i \in DOMAIN s : s[i].test = Package /\ s[i].action \in {"fail", "build-fail"}

NoCases(s) == Order(s) = {} /\ PackageFailed(s)

\* The document ConvertGoTestJSON encodes: the names of its test cases by kind.
ConvertGoTestJSON(s) ==
  [failures |-> IF NoCases(s) THEN {Setup} ELSE WithStatus(s, "fail"),
   skipped  |-> WithStatus(s, "skip"),
   passed   |-> WithStatus(s, "pass")]

\* Slip: the rollup forgets the synthetic failure.
SummaryFailedSlip(s) == Cardinality(WithStatus(s, "fail"))

\* s.Failed, with the synthetic failure of a package that failed without cases.
SummaryFailed(s) == IF NoCases(s) THEN 1 ELSE Cardinality(WithStatus(s, "fail"))

\* The rollup Summarize returns.
Summarize(s) ==
  LET xfailed == {t \in WithStatus(s, "pass") : XFailLogged(s, t)}
      failed  == SummaryFailed(s)
      passed  == Cardinality(WithStatus(s, "pass") \ xfailed)
      skipped == Cardinality(WithStatus(s, "skip"))
  IN  [passed  |-> passed,
       xfailed |-> Cardinality(xfailed),
       failed  |-> failed,
       skipped |-> skipped,
       total   |-> passed + Cardinality(xfailed) + failed + skipped]
===============================================================================
