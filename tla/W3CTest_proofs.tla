----------------------------- MODULE W3CTest_proofs -----------------------------
(***************************************************************************)
(* Proofs about W3CTest for every catalog of cases, of any length and with *)
(* any number of documents and instances: type correctness, that what the  *)
(* reports call passed was earned, that the two reports agree, that a run  *)
(* is green only when complete, and that a missing fixture fails nothing.  *)
(*                                                                         *)
(* A result is printed when its case ends and read much later, when the    *)
(* stream is folded.  The first invariant (IInv) therefore follows the     *)
(* mark of each verdict (seen) through the two flags of the running case   *)
(* (tstate) into the events of the stream, and says that the marks of a    *)
(* case that has ended never change again.  The second (GreenInv), proved  *)
(* on top of it, says which results the stream must hold at each control   *)
(* point, what a failing one implies, and which stream a document is of.   *)
(***************************************************************************)
EXTENDS W3CTest, FiniteSetTheorems, SequenceTheorems, WellFoundedInduction, TLAPS

InCase == pc \in {"listed", "schema", "compile", "instances", "finish"}

Bad(i) == seen[i] \cap {"mismatch", "panic"}

Earned(i) ==
  /\ cases[i].listed = "none" => Bad(i) = {}
  /\ cases[i].listed = "xfail" => Bad(i) # {}
  /\ suite.name # "xsd10" => seen[i] \cap {"missing", "unreadable"} = {}

Printed(s) == {s[k] : k \in DOMAIN s}

\* An event is about the root, the package or a case already started.
TestsInv == \A e \in Printed(stream) : e.test \in (1..cur) \cup {Root, Package}

\* A case that passed has ended, and earned it.
PassesInv ==
  \A e \in Printed(stream) :
    (e.test \in 1..cur /\ e.action = "pass") =>
      /\ e.test = cur => ~InCase
      /\ Earned(e.test)

\* The flags of the running case know of every mark that bars it from passing.
RunningInv ==
  InCase =>
    /\ cur \in 1..Len(cases)
    /\ cases[cur].listed = "none" => (Bad(cur) # {} => tstate.failed)
    /\ cases[cur].listed = "xfail" => (tstate.collected => Bad(cur) # {})
    /\ suite.name # "xsd10" =>
         /\ "missing" \notin seen[cur]
         /\ "unreadable" \in seen[cur] => tstate.failed

\* Nothing has happened to a case not yet started.
FreshInv == \A i \in 1..Len(cases) : i > cur => seen[i] = {}

HInv == HarnessTypeOK /\ TestsInv /\ PassesInv /\ RunningInv /\ FreshInv

\* A fresh JUnit document is the fold of a stream that no longer grows.
ReportInv ==
  /\ wpc # "test" => binary # "running"
  /\ wpc = "test" => junit.doc.passed = {}
  /\ junit.doc.passed \subseteq WithStatus(stream, "pass")

IInv == HInv /\ TypeOK /\ ReportInv

HasEnded(i) == \E e \in Printed(stream) : e.test = i /\ e.action \in Terminal

\* What fails a case of XSD 1.1 or XML, but for listing it wrongly.
Trouble(i) == seen[i] \cap {"mismatch", "panic", "unreadable"}

PackageFailure(e) == e.test = Package /\ e.action \in {"fail", "build-fail"}

\* The loop leaves no case behind without its result, and go test's own verdict
\* is "ok" only after all of them, or when the root test skipped.
EndsInv ==
  /\ pc # "exited" => binary = "running"
  /\ pc = "setup" => cur = 0
  /\ pc = "loop" => \A i \in 1..cur : HasEnded(i)
  /\ InCase => \A i \in 1..(cur - 1) : HasEnded(i)
  /\ binary \in {"running", "ok"} => \A e \in Printed(stream) : ~PackageFailure(e)
  /\ binary = "ok" => \/ ~rootFailed /\ \A i \in CaseIds : HasEnded(i)
                      \/ \A e \in Printed(stream) : e.test \in {Root, Package}

\* A case that failed has ended and has failed the root test with it; what
\* failed it, if a fixture was missing, was something else.
FailsInv ==
  /\ \A e \in Printed(stream) :
       (e.test \in CaseIds /\ e.action = "fail") =>
         /\ rootFailed
         /\ e.test = cur => ~InCase
         /\ (suite.name # "xsd10" /\ "missing" \in seen[e.test]) => Trouble(e.test) # {}
  /\ (InCase /\ suite.name # "xsd10" /\ tstate.failed) => Trouble(cur) # {}

\* A fresh file holds the fold of the whole stream, and the exit code is 0 only
\* behind both of them.
DocsInv ==
  /\ junit.state = "fresh" =>
       wpc \notin {"test", "junit"} /\ junit.doc = ConvertGoTestJSON(stream)
  /\ summary.state = "fresh" =>
       /\ wpc \in {"verdict", "exited"}
       /\ junit.state = "fresh"
       /\ summary.doc = Summarize(stream)
  /\ wpc \in {"summary", "verdict"} => junit.state = "fresh"
  /\ wpc = "verdict" => summary.state = "fresh"
  /\ code = 0 => /\ wpc = "exited" /\ binary = "ok"
                 /\ summary.state = "fresh" /\ summary.doc.total # 0

GreenInv == EndsInv /\ FailsInv /\ DocsInv

-------------------------------------------------------------------------------
(* Printing to a stream.                                                   *)

LEMMA PrintedConcat ==
  ASSUME NEW s \in Seq(Event), NEW es \in Seq(Event)
  PROVE  s \o es \in Seq(Event) /\ Printed(s \o es) = Printed(s) \cup Printed(es)
  <1> DEFINE c == s \o es
  <1>1. /\ c \in Seq(Event)
        /\ Len(c) = Len(s) + Len(es)
        /\ \A k \in 1..(Len(s) + Len(es)) :
             c[k] = IF k <= Len(s) THEN s[k] ELSE es[k - Len(s)]
    BY ConcatProperties
  <1>2. /\ Len(s) \in Nat /\ DOMAIN s = 1..Len(s)
        /\ Len(es) \in Nat /\ DOMAIN es = 1..Len(es)
        /\ DOMAIN c = 1..(Len(s) + Len(es))
    BY <1>1, LenProperties
  <1> HIDE DEF c
  <1>3. Printed(c) \subseteq Printed(s) \cup Printed(es)
    <2> SUFFICES ASSUME NEW k \in DOMAIN c PROVE c[k] \in Printed(s) \cup Printed(es)
      BY DEF Printed
    <2>1. CASE k <= Len(s)
      BY <2>1, <1>1, <1>2 DEF Printed
    <2>2. CASE k > Len(s)
      <3>1. k - Len(s) \in DOMAIN es /\ c[k] = es[k - Len(s)]
        BY <2>2, <1>1, <1>2
      <3> QED
        BY <3>1 DEF Printed
    <2> QED
      BY <2>1, <2>2, <1>2
  <1>4. Printed(s) \subseteq Printed(c)
    <2> SUFFICES ASSUME NEW k \in DOMAIN s PROVE s[k] \in Printed(c)
      BY DEF Printed
    <2>1. k \in DOMAIN c /\ c[k] = s[k]
      BY <1>1, <1>2
    <2> QED
      BY <2>1 DEF Printed
  <1>5. Printed(es) \subseteq Printed(c)
    <2> SUFFICES ASSUME NEW k \in DOMAIN es PROVE es[k] \in Printed(c)
      BY DEF Printed
    <2>1. Len(s) + k \in DOMAIN c /\ c[Len(s) + k] = es[k]
      BY <1>1, <1>2
    <2> QED
      BY <2>1 DEF Printed
  <1> QED
    BY <1>1, <1>3, <1>4, <1>5 DEF c

LEMMA PrintedOne ==
  ASSUME NEW e \in Event
  PROVE  <<e>> \in Seq(Event) /\ Printed(<<e>>) = {e}
  BY DEF Printed

LEMMA PrintedNone == <<>> \in Seq(Event) /\ Printed(<<>>) = {}
  BY DEF Printed

LEMMA PrintedTwo ==
  ASSUME NEW e \in Event, NEW f \in Event
  PROVE  <<e, f>> \in Seq(Event) /\ Printed(<<e, f>>) = {e, f}
  BY DEF Printed

LEMMA PrintedThen ==
  ASSUME NEW s \in Seq(Event), NEW e \in Event
  PROVE  s \o <<e>> \in Seq(Event) /\ Printed(s \o <<e>>) = Printed(s) \cup {e}
  <1>1. <<e>> \in Seq(Event) /\ Printed(<<e>>) = {e}
    BY PrintedOne
  <1> QED
    BY <1>1, PrintedConcat

-------------------------------------------------------------------------------
(* How the invariant survives the four ways a step may go.                 *)

\* A step that prints only about the root and the package and leaves no case
\* running: the end of the process, the start of the root test.
LEMMA RootStep ==
  ASSUME HInv, HarnessTypeOK', NEW es \in Seq(Event), Emit(es),
         \A e \in Printed(es) : e.test \in {Root, Package},
         ~InCase', UNCHANGED <<cases, suite, cur, seen>>
  PROVE  HInv'
  <1>1. Printed(stream)' = Printed(stream) \cup Printed(es)
    BY PrintedConcat DEF HInv, HarnessTypeOK, Emit
  <1>2. TestsInv'
    BY <1>1 DEF HInv, TestsInv
  <1>3. PassesInv'
    <2> SUFFICES ASSUME NEW e \in Printed(stream)', e.test \in 1..cur, e.action = "pass"
                 PROVE  Earned(e.test)'
      BY DEF PassesInv
    <2>1. e.test \notin {Root, Package}
      BY NamesDiffer DEF HInv, HarnessTypeOK
    <2>2. e \in Printed(stream)
      BY <1>1, <2>1
    <2>3. Earned(e.test)
      BY <2>2 DEF HInv, PassesInv
    <2> QED
      BY <2>3 DEF Earned, Bad
  <1> QED
    BY <1>2, <1>3 DEF HInv, RunningInv, FreshInv

\* A step of a running case that prints nothing: only the marks of that case
\* change, and only RunningInv is to be shown.
LEMMA QuietStep ==
  ASSUME HInv, HarnessTypeOK', InCase, RunningInv', UNCHANGED <<cases, suite, cur, stream>>,
         \A i \in 1..Len(cases) : i # cur => seen'[i] = seen[i]
  PROVE  HInv'
  <1>1. TestsInv'
    BY DEF HInv, TestsInv
  <1>2. PassesInv'
    <2> SUFFICES ASSUME NEW e \in Printed(stream), e.test \in 1..cur, e.action = "pass"
                 PROVE  e.test # cur /\ Earned(e.test)'
      BY DEF PassesInv
    <2>1. e.test # cur /\ Earned(e.test)
      BY DEF HInv, PassesInv
    <2>2. e.test \in 1..Len(cases)
      BY DEF HInv, HarnessTypeOK
    <2> QED
      BY <2>1, <2>2 DEF Earned, Bad
  <1>3. FreshInv'
    BY DEF HInv, HarnessTypeOK, FreshInv
  <1> QED
    BY <1>1, <1>2, <1>3 DEF HInv

\* The end of a case, which may pass only if it earned it.
LEMMA EndStep ==
  ASSUME HInv, HarnessTypeOK', InCase, UNCHANGED <<cases, suite, cur>>,
         NEW outputs \in Seq(Event), NEW failed \in BOOLEAN, NEW skipped \in BOOLEAN,
         EndCase(outputs, failed, skipped),
         \A e \in Printed(outputs) : e.test = cur /\ e.action # "pass",
         \A i \in 1..Len(cases) : i # cur => seen'[i] = seen[i],
         (~failed /\ ~skipped) => Earned(cur)'
  PROVE  HInv'
  <1> DEFINE result == CASE failed -> "fail" [] ~failed /\ skipped -> "skip"
                         [] OTHER -> "pass"
  <1>1. cur \in 1..Len(cases) /\ cur \in Nat /\ cur \in 1..cur
    BY DEF HInv, HarnessTypeOK, RunningInv
  <1>2. result \in {"fail", "skip", "pass"} /\ (result = "pass" => Earned(cur)')
    OBVIOUS
  <1>3. Ev(cur, result) \in Event
    BY <1>1, <1>2 DEF Ev, Event, Terminal
  <1>4. stream' = stream \o (outputs \o <<Ev(cur, result)>>) /\ pc' = "loop"
    BY DEF EndCase, Emit
  <1> HIDE DEF result
  <1>5. Printed(stream)' = Printed(stream) \cup Printed(outputs) \cup {Ev(cur, result)}
    <2>1. /\ outputs \o <<Ev(cur, result)>> \in Seq(Event)
          /\ Printed(outputs \o <<Ev(cur, result)>>) = Printed(outputs) \cup {Ev(cur, result)}
      BY <1>3, PrintedThen
    <2> DEFINE es == outputs \o <<Ev(cur, result)>>
    <2>2. stream \in Seq(Event) /\ stream' = stream \o es /\ es \in Seq(Event)
      BY <2>1, <1>4 DEF HInv, HarnessTypeOK
    <2>3. Printed(es) = Printed(outputs) \cup {Ev(cur, result)}
      BY <2>1
    <2> HIDE DEF es
    <2>4. Printed(stream \o es) = Printed(stream) \cup Printed(es)
      BY <2>2, PrintedConcat
    <2> QED
      BY <2>2, <2>3, <2>4
  <1>6. TestsInv'
    BY <1>1, <1>5 DEF HInv, TestsInv, Ev
  <1>7. PassesInv'
    <2> SUFFICES ASSUME NEW e \in Printed(stream)', e.test \in 1..cur, e.action = "pass"
                 PROVE  Earned(e.test)'
      BY <1>4 DEF PassesInv, InCase
    <2>1. CASE e \in Printed(stream)
      <3>1. e.test # cur /\ Earned(e.test)
        BY <2>1 DEF HInv, PassesInv
      <3>2. e.test \in 1..Len(cases)
        BY DEF HInv, HarnessTypeOK
      <3> QED
        BY <3>1, <3>2 DEF Earned, Bad
    <2>2. CASE e = Ev(cur, result)
      BY <2>2, <1>2 DEF Ev
    <2> QED
      BY <2>1, <2>2, <1>5
  <1>8. FreshInv'
    BY DEF HInv, HarnessTypeOK, FreshInv
  <1>9. RunningInv'
    BY <1>4 DEF RunningInv, InCase
  <1> QED
    BY <1>6, <1>7, <1>8, <1>9 DEF HInv

\* The end of the process, with whatever the root test had to say.
LEMMA ExitStep ==
  ASSUME HInv, NEW root \in Seq(Event), NEW package \in {"pass", "fail"},
         \A e \in Printed(root) : e.test \in {Root, Package},
         ExitWith(root, package),
         UNCHANGED <<cases, suite, cur, inst, tstate, rootFailed, seen>>
  PROVE  HInv'
  <1> DEFINE es == root \o <<Ev(Package, package)>>
  <1>1. Ev(Package, package) \in Event
    BY DEF Ev, Event, Terminal
  <1>2. es \in Seq(Event) /\ Printed(es) = Printed(root) \cup {Ev(Package, package)}
    BY <1>1, PrintedThen
  <1>3. Emit(es) /\ pc' = "exited" /\ binary' \in {"ok", "fail"}
    BY DEF ExitWith
  <1>4. \A e \in Printed(es) : e.test \in {Root, Package}
    BY <1>2 DEF Ev
  <1> HIDE DEF es
  <1>5. stream' \in Seq(Event)
    BY <1>2, <1>3, PrintedConcat DEF Emit, HInv, HarnessTypeOK
  <1>6. HarnessTypeOK'
    BY <1>3, <1>5 DEF HInv, HarnessTypeOK, PC
  <1>7. ~InCase'
    BY <1>3 DEF InCase
  <1> QED
    BY <1>2, <1>3, <1>4, <1>6, <1>7, RootStep

-------------------------------------------------------------------------------
(* The steps of the test binary.                                           *)

LEMMA SuiteNames == HarnessTypeOK => suite.name \in {"xsd10", "xsd11", "xml"}
  BY SuitesAssumption DEF HarnessTypeOK

LEMMA InitHInv == Init => HInv
  <1> SUFFICES ASSUME Init PROVE HInv
    OBVIOUS
  <1>1. cases \in Seq(Case)
    <2>1. suite.name \in Suites /\ cases \in Catalogs[suite.name]
      BY DEF Init
    <2> QED
      BY <2>1, CatalogsAssumption
  <1>2. HarnessTypeOK
    <2>1. Len(cases) \in Nat
      BY <1>1
    <2>2. cur \in 0..Len(cases) /\ stream \in Seq(Event)
      BY <2>1, PrintedNone DEF Init
    <2>3. seen \in [1..Len(cases) -> SUBSET Mark] /\ suite \in [name : Suites, xml : BOOLEAN]
      BY DEF Init
    <2>4. pc = "setup" /\ inst = 1 /\ binary = "running"
      BY DEF Init
    <2>5. rootFailed \in BOOLEAN
      BY DEF Init
    <2>6. tstate \in [failed : BOOLEAN, collected : BOOLEAN]
      BY DEF Init, FreshT
    <2> QED
      BY <1>1, <2>2, <2>3, <2>4, <2>5, <2>6 DEF HarnessTypeOK, PC
  <1>3. Printed(stream) = {}
    BY PrintedNone DEF Init
  <1>4. TestsInv /\ PassesInv
    BY <1>3 DEF TestsInv, PassesInv
  <1>5. RunningInv /\ FreshInv
    BY DEF Init, RunningInv, InCase, FreshInv
  <1> QED
    BY <1>2, <1>4, <1>5 DEF HInv

\* The root test: what it prints besides the runs of its cases.
LEMMA RootSteps ==
  ASSUME HInv, BuildFails \/ SetupFatal \/ SetupSkip \/ SetupDone \/ LoopEnds \/ Die
  PROVE  HInv'
  <1>1. \A a \in {"run", "pass", "fail", "skip"} : Ev(Root, a) \in Event
    BY DEF Ev, Event, Terminal
  <1>2. CASE BuildFails
    <2>1. Ev(Package, "build-fail") \in Event
      BY DEF Ev, Event
    <2>2. /\ <<Ev(Package, "build-fail")>> \in Seq(Event)
          /\ \A e \in Printed(<<Ev(Package, "build-fail")>>) : e.test = Package
      BY <2>1, PrintedOne DEF Ev
    <2> QED
      BY <1>2, <2>2, ExitStep DEF BuildFails
  <1>3. CASE SetupFatal
    <2>1. /\ <<Ev(Root, "run"), Ev(Root, "fail")>> \in Seq(Event)
          /\ \A e \in Printed(<<Ev(Root, "run"), Ev(Root, "fail")>>) : e.test = Root
      BY <1>1, PrintedTwo DEF Ev
    <2> QED
      BY <1>3, <2>1, ExitStep DEF SetupFatal
  <1>4. CASE SetupSkip
    <2>1. /\ <<Ev(Root, "run"), Ev(Root, "skip")>> \in Seq(Event)
          /\ \A e \in Printed(<<Ev(Root, "run"), Ev(Root, "skip")>>) : e.test = Root
      BY <1>1, PrintedTwo DEF Ev
    <2> QED
      BY <1>4, <2>1, ExitStep DEF SetupSkip
  <1>5. CASE SetupDone
    <2>1. /\ <<Ev(Root, "run")>> \in Seq(Event)
          /\ \A e \in Printed(<<Ev(Root, "run")>>) : e.test = Root
      BY <1>1, PrintedOne DEF Ev
    <2>2. stream' \in Seq(Event)
      BY <1>5, <2>1, PrintedConcat DEF SetupDone, Emit, HInv, HarnessTypeOK
    <2>3. HarnessTypeOK' /\ ~InCase'
      BY <1>5, <2>2 DEF SetupDone, HInv, HarnessTypeOK, PC, InCase
    <2> QED
      BY <1>5, <2>1, <2>3, RootStep DEF SetupDone
  <1>6. CASE LoopEnds
    <2> DEFINE result == IF rootFailed THEN "fail" ELSE "pass"
    <2>1. result \in {"pass", "fail"}
      OBVIOUS
    <2>2. ExitWith(<<Ev(Root, result)>>, result)
      BY <1>6 DEF LoopEnds
    <2> HIDE DEF result
    <2>3. /\ <<Ev(Root, result)>> \in Seq(Event)
          /\ \A e \in Printed(<<Ev(Root, result)>>) : e.test = Root
      BY <1>1, <2>1, PrintedOne DEF Ev
    <2> QED
      BY <1>6, <2>1, <2>2, <2>3, ExitStep DEF LoopEnds
  <1>7. CASE Die
    BY <1>7, PrintedNone, ExitStep DEF Die
  <1> QED
    BY <1>2, <1>3, <1>4, <1>5, <1>6, <1>7

LEMMA RunCaseStep == ASSUME HInv, RunCase PROVE HInv'
  <1> DEFINE e == Ev(cur + 1, "run")
  <1>1. cur \in Nat /\ cur + 1 \in 1..Len(cases) /\ Len(cases) \in Nat
    BY DEF RunCase, MoreCases, HInv, HarnessTypeOK
  <1>2. e \in Event /\ e.test = cur + 1 /\ e.action = "run"
    BY <1>1 DEF Ev, Event
  <1> HIDE DEF e
  <1>3. stream' = stream \o <<e>> /\ stream \in Seq(Event)
    BY DEF e, RunCase, Emit, HInv, HarnessTypeOK
  <1>4. stream' \in Seq(Event) /\ Printed(stream') = Printed(stream) \cup {e}
    BY <1>2, <1>3, PrintedThen
  <1>5. HarnessTypeOK'
    BY <1>1, <1>4 DEF RunCase, HInv, HarnessTypeOK, PC, FreshT
  <1>6. TestsInv'
    BY <1>1, <1>2, <1>4 DEF RunCase, HInv, TestsInv
  <1>7. PassesInv'
    <2> SUFFICES ASSUME NEW f \in Printed(stream'), f.test \in 1..(cur + 1), f.action = "pass"
                 PROVE  f.test # cur + 1 /\ Earned(f.test)'
      BY DEF PassesInv, RunCase
    <2>1. f \in Printed(stream)
      BY <1>2, <1>4
    <2>2. f.test \in 1..cur
      BY <2>1, <1>1, NamesDiffer DEF HInv, TestsInv
    <2>3. Earned(f.test)
      BY <2>1, <2>2 DEF HInv, PassesInv
    <2> QED
      BY <1>1, <2>2, <2>3 DEF Earned, Bad, RunCase
  <1>8. seen[cur + 1] = {}
    BY <1>1 DEF HInv, FreshInv
  <1>9. RunningInv' /\ FreshInv'
    BY <1>1, <1>8 DEF RunCase, HInv, RunningInv, FreshInv, Bad, FreshT
  <1> QED
    BY <1>5, <1>6, <1>7, <1>9 DEF HInv

\* The steps of a running case that print nothing.
LEMMA QuietSteps ==
  ASSUME HInv,
         \/ NotListed \/ SchemaRead
         \/ \E v \in {"accept", "reject", "panic"} : Compile(v)
         \/ \E v \in {"match", "mismatch", "panic"} : Validate(v)
         \/ UnreadableInstance11 \/ PassOverInstance10 \/ InstancesDone
  PROVE  HInv'
  <1>1. InCase /\ InCase'
    BY DEF InCase, NotListed, SchemaRead, Compile, MoreInstances, Validate,
           UnreadableInstance11, PassOverInstance10, InstancesDone
  <1>2. /\ cur \in 1..Len(cases) /\ cases \in Seq(Case) /\ inst \in Nat \ {0}
        /\ seen \in [1..Len(cases) -> SUBSET Mark]
        /\ tstate \in [failed : BOOLEAN, collected : BOOLEAN]
        /\ cases[cur] \in Case
    <2>1. /\ cur \in 1..Len(cases) /\ cases \in Seq(Case) /\ inst \in Nat \ {0}
          /\ seen \in [1..Len(cases) -> SUBSET Mark]
          /\ tstate \in [failed : BOOLEAN, collected : BOOLEAN]
      BY <1>1 DEF HInv, HarnessTypeOK, RunningInv
    <2> QED
      BY <2>1
  <1>3. CASE NotListed \/ SchemaRead \/ InstancesDone
    <2>1. HarnessTypeOK' /\ RunningInv'
      BY <1>3, <1>1
         DEF NotListed, SchemaRead, InstancesDone, HInv, HarnessTypeOK, PC, RunningInv, Bad
    <2>2. UNCHANGED <<cases, suite, cur, stream, seen>>
      BY <1>3 DEF NotListed, SchemaRead, InstancesDone
    <2> QED
      BY <1>1, <2>1, <2>2, QuietStep
  <1>4. ASSUME NEW m \in Mark, Saw(m), UNCHANGED <<cases, suite, cur, rootFailed, binary, stream>>,
               pc' \in PC, inst' \in Nat \ {0},
               \/ m \in {"match", "missing"} /\ UNCHANGED tstate
               \/ m \in {"mismatch", "panic"} /\ Errorf
               \/ m = "unreadable" /\ suite.name = "xsd11" /\ tstate' = [tstate EXCEPT !.failed = TRUE]
               \/ m = "unreadable" /\ suite.name = "xsd10" /\ UNCHANGED tstate,
               m = "missing" => suite.name = "xsd10"
        PROVE  HInv'
    <2>1. seen' = [seen EXCEPT ![cur] = seen[cur] \cup {m}]
      BY <1>4 DEF Saw
    <2>2. /\ seen' \in [1..Len(cases) -> SUBSET Mark]
          /\ seen'[cur] = seen[cur] \cup {m}
          /\ \A i \in 1..Len(cases) : i # cur => seen'[i] = seen[i]
      BY <1>2, <1>4, <2>1
    <2>3. tstate' \in [failed : BOOLEAN, collected : BOOLEAN]
      BY <1>2, <1>4 DEF Errorf
    <2>4. HarnessTypeOK'
      BY <1>4, <2>2, <2>3 DEF HInv, HarnessTypeOK
    <2>5. RunningInv'
      <3>1. CASE m \in {"match", "missing"} \/ (m = "unreadable" /\ UNCHANGED tstate)
        BY <3>1, <1>1, <1>2, <1>4, <2>2, SuiteNames DEF HInv, RunningInv, Bad
      <3>2. CASE m \in {"mismatch", "panic"}
        BY <3>2, <1>1, <1>2, <1>4, <2>2
           DEF HInv, RunningInv, Bad, Errorf, IsXFail, This
      <3>3. CASE tstate' = [tstate EXCEPT !.failed = TRUE] /\ m = "unreadable"
        BY <3>3, <1>1, <1>2, <1>4, <2>2 DEF HInv, RunningInv, Bad
      <3> QED
        BY <3>1, <3>2, <3>3, <1>4 DEF Mark
    <2> QED
      BY <1>1, <1>4, <2>2, <2>4, <2>5, QuietStep
  <1>5. ASSUME NEW v \in {"accept", "reject", "panic"}, Compile(v) PROVE HInv'
    <2>1. PICK m \in {"match", "mismatch", "panic"} :
            /\ Saw(m)
            /\ m = "match" => UNCHANGED tstate
            /\ m # "match" => Errorf
      BY <1>5 DEF Compile
    <2>2. pc' \in PC /\ UNCHANGED <<cases, suite, cur, rootFailed, binary, stream>> /\ inst' = inst
      BY <1>5 DEF Compile, PC
    <2> QED
      BY <1>2, <1>4, <2>1, <2>2 DEF Mark
  <1>6. ASSUME NEW v \in {"match", "mismatch", "panic"}, Validate(v) PROVE HInv'
    <2>1. /\ Saw(v)
          /\ v = "match" => UNCHANGED tstate
          /\ v # "match" => Errorf
      BY <1>6 DEF Validate
    <2>2. /\ pc' \in PC
          /\ UNCHANGED <<cases, suite, cur, rootFailed, binary, stream>>
          /\ inst' \in Nat \ {0}
      BY <1>2, <1>6 DEF Validate, PC, NextInstance
    <2> QED
      BY <1>4, <2>1, <2>2 DEF Mark
  <1>7. CASE UnreadableInstance11
    <2>1. inst' \in Nat \ {0} /\ pc' \in PC
      BY <1>2, <1>7 DEF UnreadableInstance11, NextInstance, HInv, HarnessTypeOK
    <2> QED
      BY <1>4, <1>7, <2>1 DEF UnreadableInstance11, Mark
  <1>8. CASE PassOverInstance10
    <2>1. inst' \in Nat \ {0} /\ pc' \in PC
      BY <1>2, <1>8 DEF PassOverInstance10, NextInstance, HInv, HarnessTypeOK
    <2>2. This.insts[inst] \in {"missing", "unreadable"}
      <3>1. cases[cur].insts \in Seq(FileState) /\ inst \in 1..Len(cases[cur].insts)
        <4>1. cases[cur].insts \in Seq(FileState)
          BY <1>2 DEF Case
        <4> QED
          BY <4>1, <1>2, <1>8 DEF PassOverInstance10, MoreInstances, This
      <3>2. cases[cur].insts[inst] \in FileState
        BY <3>1
      <3> QED
        BY <3>2, <1>8 DEF PassOverInstance10, This, FileState
    <2>3. PICK m \in {"missing", "unreadable"} : Saw(m)
      BY <1>8, <2>2 DEF PassOverInstance10
    <2> QED
      BY <1>4, <1>8, <2>1, <2>3 DEF PassOverInstance10, Mark
  <1> QED
    BY <1>3, <1>5, <1>6, <1>7, <1>8

\* The steps that end a case.
LEMMA EndSteps ==
  ASSUME HInv, ListedSkip \/ UnknownType \/ SchemaUnread \/ MissingInstance11 \/ FinishCase
  PROVE  HInv'
  <1>1. InCase
    BY DEF InCase, ListedSkip, UnknownType, SchemaUnread, MissingInstance11, MoreInstances, FinishCase
  <1>2. /\ cur \in 1..Len(cases) /\ cur \in Nat /\ cases \in Seq(Case)
        /\ seen \in [1..Len(cases) -> SUBSET Mark]
        /\ tstate \in [failed : BOOLEAN, collected : BOOLEAN]
    BY <1>1 DEF HInv, HarnessTypeOK, RunningInv
  <1>3. cases[cur] \in Case
    BY <1>2
  <1>4. ASSUME NEW outputs \in Seq(Event), NEW failed \in BOOLEAN, NEW skipped \in BOOLEAN,
               EndCase(outputs, failed, skipped),
               \A e \in Printed(outputs) : e.test = cur /\ e.action # "pass",
               UNCHANGED <<cases, suite, cur, inst, tstate, binary>>,
               seen' \in [1..Len(cases) -> SUBSET Mark],
               \A i \in 1..Len(cases) : i # cur => seen'[i] = seen[i],
               (~failed /\ ~skipped) => Earned(cur)'
        PROVE  HInv'
    <2> DEFINE result == CASE failed -> "fail" [] ~failed /\ skipped -> "skip"
                           [] OTHER -> "pass"
    <2>1. Ev(cur, result) \in Event
      BY <1>2 DEF Ev, Event, Terminal
    <2>2. /\ stream' = stream \o (outputs \o <<Ev(cur, result)>>) /\ pc' = "loop"
          /\ rootFailed' = (rootFailed \/ failed)
      BY <1>4 DEF EndCase, Emit
    <2> HIDE DEF result
    <2>3. outputs \o <<Ev(cur, result)>> \in Seq(Event)
      BY <1>4, <2>1, PrintedThen
    <2>4. stream' \in Seq(Event)
      BY <2>2, <2>3, PrintedConcat DEF HInv, HarnessTypeOK
    <2>5. rootFailed' \in BOOLEAN
      BY <1>4, <2>2 DEF HInv, HarnessTypeOK
    <2>6. HarnessTypeOK'
      BY <1>4, <2>2, <2>4, <2>5 DEF HInv, HarnessTypeOK, PC
    <2> QED
      BY <1>1, <1>4, <2>6, EndStep
  <1>5. CASE ListedSkip
    BY <1>2, <1>4, <1>5, PrintedNone DEF ListedSkip, Skipf
  <1>10. CASE UnknownType
    BY <1>2, <1>4, <1>10, PrintedNone DEF UnknownType, Fatalf
  <1>6. ASSUME NEW m \in {"missing", "unreadable"}, Saw(m), Unread(m),
               UNCHANGED <<cases, suite, cur, inst, tstate, binary>>
        PROVE  HInv'
    <2>1. seen' = [seen EXCEPT ![cur] = seen[cur] \cup {m}]
      BY <1>6 DEF Saw
    <2>2. /\ seen' \in [1..Len(cases) -> SUBSET Mark]
          /\ \A i \in 1..Len(cases) : i # cur => seen'[i] = seen[i]
      BY <1>2, <2>1 DEF Mark
    <2>3. \/ EndCase(<<>>, tstate.failed, TRUE)
          \/ EndCase(<<>>, TRUE, FALSE)
      BY <1>6 DEF Unread, Skipf, Fatalf
    <2> QED
      BY <1>2, <1>4, <1>6, <2>2, <2>3, PrintedNone
  <1>7. CASE SchemaUnread
    <2>1. cases[cur].docs \in Seq(FileState) /\ cases[cur].docs # <<>>
      BY <1>3 DEF Case
    <2>2. \A i \in DOMAIN OpenedDocs : OpenedDocs[i] \in FileState
      BY <2>1 DEF OpenedDocs, This
    <2>3. PICK i \in DOMAIN OpenedDocs :
            OpenedDocs[i] # "present" /\ Saw(OpenedDocs[i]) /\ Unread(OpenedDocs[i])
      BY <1>7 DEF SchemaUnread
    <2>4. OpenedDocs[i] \in {"missing", "unreadable"}
      BY <2>2, <2>3 DEF FileState
    <2> QED
      BY <1>6, <1>7, <2>3, <2>4 DEF SchemaUnread
  <1>8. CASE MissingInstance11
    BY <1>6, <1>8 DEF MissingInstance11, Unread
  <1>9. CASE FinishCase
    <2>1. seen' = seen /\ UNCHANGED <<cases, suite, cur, inst, tstate, binary>>
      BY <1>9 DEF FinishCase
    <2>2. CASE ~IsXFail
      <3>1. EndCase(<<>>, tstate.failed, FALSE)
        BY <1>9, <2>2 DEF FinishCase
      <3>2. ~tstate.failed => Earned(cur)'
        BY <1>1, <1>3, <2>1, <2>2, SuiteNames
           DEF HInv, RunningInv, Earned, Bad, IsXFail, This
      <3> QED
        BY <1>2, <1>4, <2>1, <3>1, <3>2, PrintedNone
    <2>3. CASE IsXFail /\ tstate.collected
      <3> DEFINE e == Ev(cur, "xfail-output")
      <3>1. EndCase(<<e>>, tstate.failed, FALSE)
        BY <1>9, <2>3 DEF FinishCase
      <3>2. ~tstate.failed => Earned(cur)'
        BY <1>1, <1>3, <2>1, <2>3, SuiteNames
           DEF HInv, RunningInv, Earned, Bad, IsXFail, This
      <3>3. e \in Event /\ e.test = cur /\ e.action = "xfail-output"
        BY <1>2 DEF Ev, Event
      <3> HIDE DEF e
      <3>4. <<e>> \in Seq(Event) /\ Printed(<<e>>) = {e}
        BY <3>3, PrintedOne
      <3> QED
        BY <1>2, <1>4, <2>1, <3>1, <3>2, <3>3, <3>4
    <2>4. CASE IsXFail /\ ~tstate.collected
      BY <1>2, <1>4, <1>9, <2>1, <2>4, PrintedNone DEF FinishCase
    <2> QED
      BY <2>2, <2>3, <2>4
  <1> QED
    BY <1>5, <1>7, <1>8, <1>9, <1>10

LEMMA HarnessStepInv == HInv /\ HarnessStep => HInv'
  BY RootSteps, RunCaseStep, QuietSteps, EndSteps DEF HarnessStep

\* `go test' ends without a word: it is killed, or never started.
LEMMA SilentEnd ==
  ASSUME HInv, binary' \in {"killed", "nostart"}, pc' = "exited",
         UNCHANGED <<cases, suite, cur, inst, tstate, rootFailed, stream, seen>>
  PROVE  HInv'
  <1>1. HarnessTypeOK' /\ ~InCase'
    BY DEF HInv, HarnessTypeOK, PC, InCase
  <1>2. Emit(<<>>)
    BY ConcatEmptySeq DEF Emit, HInv, HarnessTypeOK
  <1> QED
    BY <1>1, <1>2, PrintedNone, RootStep

LEMMA HInvStep == HInv /\ [WNext]_vars => HInv'
  <1> SUFFICES ASSUME HInv, [WNext]_vars PROVE HInv'
    OBVIOUS
  <1>1. CASE GoTestRuns
    BY <1>1, HarnessStepInv DEF GoTestRuns
  <1>2. CASE GoTestDies
    BY <1>2, RootSteps DEF GoTestDies
  <1>3. CASE GoTestKilled
    BY <1>3, SilentEnd DEF GoTestKilled
  <1>4. CASE GoTestMissing
    BY <1>4, SilentEnd DEF GoTestMissing
  <1>5. CASE W3CStep \/ UNCHANGED vars
    <2>1. UNCHANGED hvars
      BY <1>5 DEF W3CStep, GoTestEnds, JUnitNotCreated, JUnitNotConverted, WriteJUnit,
                  SummaryNotCreated, SummaryNotWritten, WriteSummary, Verdict, vars
    <2>2. HarnessTypeOK'
      BY <2>1 DEF hvars, HInv, HarnessTypeOK
    <2>3. TestsInv' /\ PassesInv'
      BY <2>1 DEF hvars, HInv, TestsInv, PassesInv, Printed, InCase, Earned, Bad
    <2>4. RunningInv' /\ FreshInv'
      BY <2>1 DEF hvars, HInv, RunningInv, FreshInv, InCase, Bad
    <2> QED
      BY <2>2, <2>3, <2>4 DEF HInv
  <1> QED
    BY <1>1, <1>2, <1>3, <1>4, <1>5 DEF WNext

-------------------------------------------------------------------------------
(* The two files.                                                          *)

\* The folds only ever see cases that were started, so their counts are numbers.
LEMMA StatusBounds ==
  ASSUME HInv, NEW a
  PROVE  WithStatus(stream, a) \subseteq 1..Len(cases) /\ IsFiniteSet(WithStatus(stream, a))
  <1>1. Order(stream) \subseteq 1..cur
    BY DEF HInv, TestsInv, Order, Printed
  <1>2. Len(cases) \in Nat /\ 1..cur \subseteq 1..Len(cases)
    BY DEF HInv, HarnessTypeOK
  <1>3. WithStatus(stream, a) \subseteq 1..Len(cases)
    BY <1>1, <1>2 DEF WithStatus
  <1>4. IsFiniteSet(1..Len(cases))
    <2>1. 1 \in Int /\ Len(cases) \in Int
      BY <1>2
    <2> QED
      BY <2>1, FS_Interval
  <1> QED
    BY <1>3, <1>4, FS_Subset

LEMMA ConvertType ==
  ASSUME HInv
  PROVE  ConvertGoTestJSON(stream) \in
           [failures : SUBSET (Nat \cup {Setup}), skipped : SUBSET Nat, passed : SUBSET Nat]
  <1>1. \A a \in Terminal : WithStatus(stream, a) \in SUBSET Nat
    <2>1. 1..Len(cases) \subseteq Nat
      BY DEF HInv, HarnessTypeOK
    <2> QED
      BY <2>1, StatusBounds
  <1> QED
    BY <1>1 DEF ConvertGoTestJSON, Terminal

LEMMA SummarizeType ==
  ASSUME HInv
  PROVE  Summarize(stream) \in
           [passed : Nat, xfailed : Nat, failed : Nat, skipped : Nat, total : Nat]
  <1> DEFINE xfailed == {t \in WithStatus(stream, "pass") : XFailLogged(stream, t)}
             plain   == WithStatus(stream, "pass") \ xfailed
  <1>1. /\ IsFiniteSet(WithStatus(stream, "pass"))
        /\ IsFiniteSet(WithStatus(stream, "fail"))
        /\ IsFiniteSet(WithStatus(stream, "skip"))
    BY StatusBounds
  <1>2. IsFiniteSet(xfailed) /\ IsFiniteSet(plain)
    BY <1>1, FS_Subset
  <1>3. /\ Cardinality(xfailed) \in Nat /\ Cardinality(plain) \in Nat
        /\ Cardinality(WithStatus(stream, "fail")) \in Nat
        /\ Cardinality(WithStatus(stream, "skip")) \in Nat
    BY <1>1, <1>2, FS_CardinalityType
  <1>4. SummaryFailed(stream) \in Nat
    BY <1>3 DEF SummaryFailed
  <1> QED
    BY <1>3, <1>4 DEF Summarize

LEMMA InitIInv == WInit => IInv
  <1> SUFFICES ASSUME WInit PROVE IInv
    OBVIOUS
  <1>1. HInv
    BY InitHInv DEF WInit
  <1>2. TypeOK
    BY <1>1 DEF WInit, HInv, TypeOK, NoJUnit, NoSummary, Unset
  <1>3. ReportInv
    BY DEF WInit, ReportInv, NoJUnit
  <1> QED
    BY <1>1, <1>2, <1>3 DEF IInv

\* While the binary runs there is no document; afterwards the stream is final.
LEMMA FilesStep == IInv /\ [WNext]_vars => TypeOK' /\ ReportInv'
  <1> SUFFICES ASSUME IInv, [WNext]_vars PROVE TypeOK' /\ ReportInv'
    OBVIOUS
  <1>1. HInv /\ HInv' /\ HarnessTypeOK' /\ TypeOK /\ ReportInv
    BY HInvStep DEF IInv, HInv
  <1>2. CASE GoTestRuns \/ GoTestDies \/ GoTestMissing
    <2>1. UNCHANGED wvars /\ wpc = "test"
      BY <1>2 DEF GoTestRuns, GoTestDies, GoTestMissing
    <2> QED
      BY <1>1, <2>1 DEF wvars, TypeOK, ReportInv
  <1>3. CASE GoTestKilled
    BY <1>1, <1>3 DEF GoTestKilled, TypeOK, ReportInv
  <1>4. CASE GoTestEnds
    BY <1>1, <1>4 DEF GoTestEnds, hvars, TypeOK, ReportInv
  <1>5. CASE JUnitNotCreated \/ SummaryNotCreated
    BY <1>1, <1>5 DEF JUnitNotCreated, SummaryNotCreated, Exit, hvars, TypeOK, ReportInv
  <1>6. CASE JUnitNotConverted
    BY <1>1, <1>6 DEF JUnitNotConverted, NoJUnit, Exit, hvars, TypeOK, ReportInv
  <1>7. CASE WriteJUnit
    <2>1. /\ junit' = [state |-> "fresh", doc |-> ConvertGoTestJSON(stream)]
          /\ ConvertGoTestJSON(stream) \in
               [failures : SUBSET (Nat \cup {Setup}), skipped : SUBSET Nat, passed : SUBSET Nat]
          /\ ConvertGoTestJSON(stream).passed = WithStatus(stream, "pass")
      BY <1>1, <1>7, ConvertType DEF WriteJUnit, ConvertGoTestJSON
    <2> QED
      BY <1>1, <1>7, <2>1 DEF WriteJUnit, hvars, TypeOK, ReportInv
  <1>8. CASE SummaryNotWritten
    BY <1>1, <1>8 DEF SummaryNotWritten, NoSummary, Exit, hvars, TypeOK, ReportInv
  <1>9. CASE WriteSummary
    BY <1>1, <1>9, SummarizeType DEF WriteSummary, hvars, TypeOK, ReportInv
  <1>10. CASE Verdict
    <2>1. binary \in {"ok", "fail", "killed", "nostart"}
      BY <1>1, <1>10 DEF Verdict, ReportInv, HInv, HarnessTypeOK
    <2>2. ExitCode \in {-1, 0, 1}
      BY <2>1 DEF ExitCode
    <2> QED
      BY <1>1, <1>10, <2>2 DEF Verdict, Exit, hvars, TypeOK, ReportInv
  <1>11. CASE UNCHANGED vars
    BY <1>1, <1>11 DEF vars, hvars, wvars, TypeOK, ReportInv
  <1> QED
    BY <1>2, <1>3, <1>4, <1>5, <1>6, <1>7, <1>8, <1>9, <1>10, <1>11 DEF WNext, W3CStep

LEMMA Invariance == WSpec => []IInv
  <1>1. IInv /\ [WNext]_vars => IInv'
    BY HInvStep, FilesStep DEF IInv
  <1> QED
    BY InitIInv, <1>1, PTL DEF WSpec

-------------------------------------------------------------------------------
(* What a step prints, and what the folds make of it.                      *)

\* A set of natural numbers that has a member has a least one.
LEMMA LeastNat ==
  ASSUME NEW T \in SUBSET Nat, T # {}
  PROVE  \E m \in T : \A k \in T : m <= k
  <1> DEFINE R == OpToRel(<, Nat)
  <1>1. IsWellFoundedOn(R, Nat)
    BY NatLessThanWellFounded
  <1>2. \A x, y \in Nat : <<y, x>> \in R <=> y < x
    BY DEF OpToRel
  <1> HIDE DEF R
  <1>3. PICK m \in T : \A k \in T : ~ (<<k, m>> \in R)
    BY <1>1, WFMin
  <1>4. ASSUME NEW k \in T PROVE m <= k
    <2>1. k \in Nat /\ m \in Nat
      OBVIOUS
    <2>2. ~ (k < m)
      BY <1>2, <1>3, <2>1
    <2> QED
      BY <2>1, <2>2
  <1> QED
    BY <1>4

\* A test that ended has a status: that of its last terminal event.
LEMMA EndedHasStatus ==
  ASSUME NEW s \in Seq(Event), NEW e \in Printed(s),
         e.test \notin {Root, Package}, e.action \in Terminal
  PROVE  \E a \in Terminal : e.test \in WithStatus(s, a)
  <1> DEFINE t == e.test
             Back == {n \in Nat : /\ Len(s) - n \in DOMAIN s
                                  /\ s[Len(s) - n].test = t
                                  /\ s[Len(s) - n].action \in Terminal}
  <1>1. Len(s) \in Nat /\ DOMAIN s = 1..Len(s)
    OBVIOUS
  <1>2. PICK k \in DOMAIN s : s[k] = e
    BY DEF Printed
  <1>3. Len(s) - k \in Back
    <2>1. k \in Int /\ k <= Len(s) /\ Len(s) - (Len(s) - k) = k
      BY <1>1
    <2> QED
      BY <1>1, <1>2, <2>1
  <1>4. PICK n \in Back : \A m \in Back : n <= m
    <2> HIDE DEF Back
    <2>1. Back # {}
      BY <1>3
    <2>2. Back \in SUBSET Nat
      BY DEF Back
    <2> QED
      BY <2>1, <2>2, LeastNat
  <1> DEFINE i == Len(s) - n
  <1>5. n \in Nat /\ i \in DOMAIN s /\ s[i].test = t /\ s[i].action \in Terminal
    BY <1>4
  <1>6. ASSUME NEW j \in DOMAIN s, j > i, s[j].test = t, s[j].action \in Terminal
        PROVE  FALSE
    <2>1. /\ Len(s) - j \in Nat /\ Len(s) - (Len(s) - j) = j
          /\ Len(s) - j < n
      BY <1>1, <1>5, <1>6
    <2>2. Len(s) - j \in Back
      BY <1>6, <2>1
    <2> QED
      BY <1>4, <1>5, <2>1, <2>2
  <1>7. s[i] = Ev(t, s[i].action)
    <2>1. s[i] \in Event
      BY <1>1, <1>5
    <2> HIDE DEF i
    <2> QED
      BY <1>5, <2>1 DEF Event, Ev
  <1>8. t \in Order(s)
    BY <1>5 DEF Order
  <1> HIDE DEF i
  <1>9. t \in WithStatus(s, s[i].action)
    BY <1>5, <1>6, <1>7, <1>8 DEF WithStatus
  <1> QED
    BY <1>5, <1>9

\* A test has one status at most.
LEMMA OneStatus ==
  ASSUME NEW s \in Seq(Event), NEW a \in Terminal, NEW b \in Terminal, a # b
  PROVE  WithStatus(s, a) \cap WithStatus(s, b) = {}
  <1> SUFFICES ASSUME NEW t \in WithStatus(s, a), t \in WithStatus(s, b) PROVE FALSE
    OBVIOUS
  <1>1. PICK i \in DOMAIN s :
          s[i] = Ev(t, a) /\ \A j \in DOMAIN s : (j > i /\ s[j].test = t) => s[j].action \notin Terminal
    BY DEF WithStatus
  <1>2. PICK j \in DOMAIN s :
          s[j] = Ev(t, b) /\ \A k \in DOMAIN s : (k > j /\ s[k].test = t) => s[k].action \notin Terminal
    BY DEF WithStatus
  <1>3. s[i].test = t /\ s[i].action = a /\ s[j].test = t /\ s[j].action = b
    BY <1>1, <1>2 DEF Ev
  <1>4. i \in Nat /\ j \in Nat /\ (i < j \/ i = j \/ j < i)
    OBVIOUS
  <1> QED
    BY <1>1, <1>2, <1>3, <1>4

\* The summary counts every pass once, as a plain one or as an expected failure.
LEMMA PassesSplit ==
  ASSUME HInv
  PROVE  LET passed  == WithStatus(stream, "pass")
             xfailed == {t \in passed : XFailLogged(stream, t)}
         IN  Cardinality(passed \ xfailed) + Cardinality(xfailed) = Cardinality(passed)
  <1> DEFINE passed  == WithStatus(stream, "pass")
             xfailed == {t \in passed : XFailLogged(stream, t)}
  <1>1. IsFiniteSet(passed) /\ passed \cap xfailed = xfailed /\ xfailed \in SUBSET passed
    BY StatusBounds
  <1> HIDE DEF passed, xfailed
  <1>2. IsFiniteSet(xfailed)
    BY <1>1, FS_Subset
  <1>3. Cardinality(passed) \in Nat /\ Cardinality(xfailed) \in Nat
    BY <1>1, <1>2, FS_CardinalityType
  <1>4. Cardinality(passed \ xfailed) = Cardinality(passed) - Cardinality(xfailed)
    BY <1>1, FS_Difference
  <1>5. Cardinality(passed \ xfailed) + Cardinality(xfailed) = Cardinality(passed)
    BY <1>3, <1>4
  <1> QED
    BY <1>5 DEF passed, xfailed

\* The steps of the root test print of the root and the package only, and leave
\* a failed package no other exit than "fail".
LEMMA PrintsRoot ==
  ASSUME HInv, BuildFails \/ SetupFatal \/ SetupSkip \/ SetupDone \/ LoopEnds \/ Die
  PROVE  /\ UNCHANGED <<cases, suite, cur, tstate, rootFailed, seen>>
         /\ Printed(stream) \subseteq Printed(stream)'
         /\ \A e \in Printed(stream)' \ Printed(stream) :
              /\ e.test \in {Root, Package}
              /\ binary' \in {"running", "ok"} => ~PackageFailure(e)
         /\ \/ pc = "setup" /\ pc' = "loop" /\ binary' = binary
            \/ pc' = "exited" /\ binary' = "fail"
            \/ pc' = "exited" /\ binary' = "ok" /\ pc = "setup"
            \/ pc' = "exited" /\ binary' = "ok" /\ pc = "loop" /\ cur = Len(cases) /\ ~rootFailed
  <1>1. \A t \in {Root, Package}, a \in {"run", "build-fail", "pass", "fail", "skip"} :
          Ev(t, a) \in Event /\ Ev(t, a).test = t /\ Ev(t, a).action = a
    BY DEF Ev, Event, Terminal
  <1>2. stream \in Seq(Event)
    BY DEF HInv, HarnessTypeOK
  <1>3. ASSUME NEW root \in Seq(Event), NEW package \in {"pass", "fail"},
               ExitWith(root, package)
        PROVE  /\ Printed(stream)' = Printed(stream) \cup Printed(root) \cup {Ev(Package, package)}
               /\ binary' = IF package = "fail" THEN "fail" ELSE "ok"
               /\ pc' = "exited"
    <2> DEFINE es == root \o <<Ev(Package, package)>>
    <2>1. es \in Seq(Event) /\ Printed(es) = Printed(root) \cup {Ev(Package, package)}
      BY <1>1, PrintedThen
    <2>2. stream' = stream \o es
      BY <1>3 DEF ExitWith, Emit
    <2> HIDE DEF es
    <2> QED
      BY <1>2, <1>3, <2>1, <2>2, PrintedConcat DEF ExitWith
  <1>4. Root # Package
    BY NamesDiffer
  <1>5. CASE BuildFails
    <2> DEFINE root == <<Ev(Package, "build-fail")>>
    <2>1. root \in Seq(Event) /\ Printed(root) = {Ev(Package, "build-fail")}
      BY <1>1, PrintedOne
    <2>2. ExitWith(root, "fail") /\ UNCHANGED <<cases, suite, cur, tstate, rootFailed, seen>>
      BY <1>5 DEF BuildFails
    <2> HIDE DEF root
    <2>3. Printed(stream)' = Printed(stream) \cup {Ev(Package, "build-fail"), Ev(Package, "fail")}
      BY <1>3, <2>1, <2>2
    <2> QED
      BY <1>1, <1>3, <2>1, <2>2, <2>3
  <1>6. CASE SetupFatal
    <2> DEFINE root == <<Ev(Root, "run"), Ev(Root, "fail")>>
    <2>1. root \in Seq(Event) /\ Printed(root) = {Ev(Root, "run"), Ev(Root, "fail")}
      BY <1>1, PrintedTwo
    <2>2. ExitWith(root, "fail") /\ UNCHANGED <<cases, suite, cur, tstate, rootFailed, seen>>
      BY <1>6 DEF SetupFatal
    <2> HIDE DEF root
    <2>3. Printed(stream)' =
            Printed(stream) \cup {Ev(Root, "run"), Ev(Root, "fail"), Ev(Package, "fail")}
      BY <1>3, <2>1, <2>2
    <2> QED
      BY <1>1, <1>3, <2>1, <2>2, <2>3
  <1>7. CASE SetupSkip
    <2> DEFINE root == <<Ev(Root, "run"), Ev(Root, "skip")>>
    <2>1. root \in Seq(Event) /\ Printed(root) = {Ev(Root, "run"), Ev(Root, "skip")}
      BY <1>1, PrintedTwo
    <2>2. ExitWith(root, "pass") /\ pc = "setup" /\ UNCHANGED <<cases, suite, cur, tstate, rootFailed, seen>>
      BY <1>7 DEF SetupSkip
    <2> HIDE DEF root
    <2>3. Printed(stream)' =
            Printed(stream) \cup {Ev(Root, "run"), Ev(Root, "skip"), Ev(Package, "pass")}
      BY <1>3, <2>1, <2>2
    <2>4. \A e \in {Ev(Root, "run"), Ev(Root, "skip"), Ev(Package, "pass")} :
            e.test \in {Root, Package} /\ ~PackageFailure(e)
      BY <1>1, <1>4 DEF PackageFailure
    <2> QED
      BY <1>3, <2>1, <2>2, <2>3, <2>4
  <1>8. CASE SetupDone
    <2>1. stream' = stream \o <<Ev(Root, "run")>>
      BY <1>8 DEF SetupDone, Emit
    <2>2. Printed(stream)' = Printed(stream) \cup {Ev(Root, "run")}
      BY <1>1, <1>2, <2>1, PrintedThen
    <2> QED
      BY <1>1, <1>4, <1>8, <2>2 DEF SetupDone, PackageFailure
  <1>9. CASE LoopEnds
    <2> DEFINE result == IF rootFailed THEN "fail" ELSE "pass"
               root == <<Ev(Root, result)>>
    <2>1. /\ result \in {"pass", "fail"} /\ (result = "pass" => ~rootFailed)
          /\ ExitWith(root, result) /\ pc = "loop" /\ cur = Len(cases)
          /\ UNCHANGED <<cases, suite, cur, tstate, rootFailed, seen>>
      BY <1>9 DEF LoopEnds
    <2> HIDE DEF result
    <2>2. root \in Seq(Event) /\ Printed(root) = {Ev(Root, result)}
      BY <1>1, <2>1, PrintedOne
    <2> HIDE DEF root
    <2>3. Printed(stream)' = Printed(stream) \cup {Ev(Root, result), Ev(Package, result)}
      BY <1>3, <2>1, <2>2
    <2>4. result = "pass" => ~PackageFailure(Ev(Root, result)) /\ ~PackageFailure(Ev(Package, result))
      BY <1>1, <1>4 DEF PackageFailure
    <2> QED
      BY <1>1, <1>3, <2>1, <2>2, <2>3, <2>4
  <1>10. CASE Die
    <2>1. ExitWith(<<>>, "fail") /\ UNCHANGED <<cases, suite, cur, tstate, rootFailed, seen>>
      BY <1>10 DEF Die
    <2>2. Printed(stream)' = Printed(stream) \cup {Ev(Package, "fail")}
      BY <1>3, <2>1, PrintedNone
    <2> QED
      BY <1>1, <1>3, <2>1, <2>2, PrintedNone
  <1> QED
    BY <1>5, <1>6, <1>7, <1>8, <1>9, <1>10

\* The steps that end a case print its result last, and a result "fail" fails the
\* root test; if a fixture was missing, another trouble was met before it.
LEMMA PrintsResult ==
  ASSUME HInv, FailsInv,
         ListedSkip \/ UnknownType \/ SchemaUnread \/ MissingInstance11 \/ FinishCase
  PROVE  /\ InCase /\ pc' = "loop" /\ UNCHANGED <<cases, suite, cur, binary>>
         /\ \A i \in CaseIds : i # cur => seen'[i] = seen[i]
         /\ \E failed \in BOOLEAN, result \in Terminal, outputs \in Seq(Event) :
              /\ Printed(stream)' = Printed(stream) \cup Printed(outputs) \cup {Ev(cur, result)}
              /\ \A e \in Printed(outputs) : e.test = cur /\ e.action \notin Terminal
              /\ rootFailed' = (rootFailed \/ failed)
              /\ result = "fail" <=> failed
              /\ (failed /\ suite.name # "xsd10" /\ "missing" \in seen'[cur]) => Trouble(cur)' # {}
  <1>1. InCase
    BY DEF InCase, ListedSkip, UnknownType, SchemaUnread, MissingInstance11, MoreInstances, FinishCase
  <1>2. /\ cur \in CaseIds /\ cur \in Nat /\ cases \in Seq(Case) /\ stream \in Seq(Event)
        /\ seen \in [CaseIds -> SUBSET Mark]
        /\ tstate \in [failed : BOOLEAN, collected : BOOLEAN]
    BY <1>1 DEF HInv, HarnessTypeOK, RunningInv, CaseIds
  <1>3. cases[cur] \in Case
    BY <1>2 DEF CaseIds
  <1> DEFINE Goal ==
        /\ pc' = "loop"
        /\ \E failed \in BOOLEAN, result \in Terminal, outputs \in Seq(Event) :
              /\ Printed(stream)' = Printed(stream) \cup Printed(outputs) \cup {Ev(cur, result)}
              /\ \A e \in Printed(outputs) : e.test = cur /\ e.action \notin Terminal
              /\ rootFailed' = (rootFailed \/ failed)
              /\ result = "fail" <=> failed
              /\ (failed /\ suite.name # "xsd10" /\ "missing" \in seen'[cur]) => Trouble(cur)' # {}
  <1>4. ASSUME NEW outputs \in Seq(Event), NEW failed \in BOOLEAN, NEW skipped \in BOOLEAN,
               EndCase(outputs, failed, skipped),
               \A e \in Printed(outputs) : e.test = cur /\ e.action \notin Terminal,
               (failed /\ suite.name # "xsd10" /\ "missing" \in seen'[cur]) => Trouble(cur)' # {}
        PROVE  Goal
    <2> DEFINE result == CASE failed -> "fail" [] ~failed /\ skipped -> "skip"
                           [] OTHER -> "pass"
    <2>1. result \in Terminal /\ (result = "fail" <=> failed)
      BY DEF Terminal
    <2>2. /\ stream' = stream \o (outputs \o <<Ev(cur, result)>>)
          /\ pc' = "loop" /\ rootFailed' = (rootFailed \/ failed)
      BY <1>4 DEF EndCase, Emit
    <2> HIDE DEF result
    <2>3. Ev(cur, result) \in Event
      BY <1>2, <2>1 DEF Ev, Event
    <2> DEFINE es == outputs \o <<Ev(cur, result)>>
    <2>4. es \in Seq(Event) /\ Printed(es) = Printed(outputs) \cup {Ev(cur, result)}
      BY <2>3, PrintedThen
    <2>5. stream' = stream \o es
      BY <2>2
    <2> HIDE DEF es
    <2>6. Printed(stream)' = Printed(stream) \cup Printed(outputs) \cup {Ev(cur, result)}
      BY <1>2, <2>4, <2>5, PrintedConcat
    <2> QED
      BY <1>4, <2>1, <2>2, <2>6
  <1> HIDE DEF Goal
  <1>5. <<>> \in Seq(Event) /\ Printed(<<>>) = {}
    BY PrintedNone
  <1>6. suite.name # "xsd10" => "missing" \notin seen[cur] /\ (tstate.failed => Trouble(cur) # {})
    BY <1>1 DEF HInv, RunningInv, FailsInv
  <1>7. CASE ListedSkip \/ UnknownType
    <2>1. UNCHANGED <<cases, suite, cur, binary, seen>>
      BY <1>7 DEF ListedSkip, UnknownType
    <2>2. EndCase(<<>>, tstate.failed, TRUE) \/ EndCase(<<>>, TRUE, FALSE)
      BY <1>7 DEF ListedSkip, UnknownType, Skipf, Fatalf
    <2>3. Goal
      BY <1>2, <1>4, <1>5, <1>6, <2>1, <2>2
    <2> QED
      BY <1>1, <2>1, <2>3 DEF Goal
  <1>8. ASSUME NEW m \in {"missing", "unreadable"}, Saw(m), Unread(m),
               UNCHANGED <<cases, suite, cur, inst, tstate, binary>>
        PROVE  Goal /\ \A i \in CaseIds : i # cur => seen'[i] = seen[i]
    <2>1. /\ seen'[cur] = seen[cur] \cup {m}
          /\ \A i \in CaseIds : i # cur => seen'[i] = seen[i]
      BY <1>2, <1>8 DEF Saw
    <2>2. Trouble(cur) \subseteq Trouble(cur)' /\ (m = "unreadable" => Trouble(cur)' # {})
      BY <1>8, <2>1 DEF Trouble
    <2>3. CASE m = "missing"
      <3>1. EndCase(<<>>, tstate.failed, TRUE)
        BY <1>8, <2>3 DEF Unread, Skipf
      <3> QED
        BY <1>2, <1>4, <1>5, <1>6, <2>1, <2>2, <3>1
    <2>4. CASE m = "unreadable"
      <3>1. EndCase(<<>>, TRUE, FALSE)
        BY <1>8, <2>4 DEF Unread, Fatalf
      <3> QED
        BY <1>2, <1>4, <1>5, <2>1, <2>2, <2>4, <3>1
    <2> QED
      BY <2>3, <2>4
  <1>9. CASE SchemaUnread
    <2>1. cases[cur].docs \in Seq(FileState) /\ cases[cur].docs # <<>>
      BY <1>3 DEF Case
    <2>2. \A i \in DOMAIN OpenedDocs : OpenedDocs[i] \in FileState
      BY <2>1 DEF OpenedDocs, This
    <2>3. PICK i \in DOMAIN OpenedDocs :
            OpenedDocs[i] # "present" /\ Saw(OpenedDocs[i]) /\ Unread(OpenedDocs[i])
      BY <1>9 DEF SchemaUnread
    <2>4. OpenedDocs[i] \in {"missing", "unreadable"}
      BY <2>2, <2>3 DEF FileState
    <2>5. UNCHANGED <<cases, suite, cur, inst, tstate, binary>>
      BY <1>9 DEF SchemaUnread
    <2>6. Goal /\ \A k \in CaseIds : k # cur => seen'[k] = seen[k]
      BY <1>8, <2>3, <2>4, <2>5
    <2> QED
      BY <1>1, <2>5, <2>6 DEF Goal
  <1>10. CASE MissingInstance11
    <2>1. Saw("missing") /\ Unread("missing") /\ UNCHANGED <<cases, suite, cur, inst, tstate, binary>>
      BY <1>10 DEF MissingInstance11, Unread
    <2>2. Goal /\ \A k \in CaseIds : k # cur => seen'[k] = seen[k]
      BY <1>8, <2>1
    <2> QED
      BY <1>1, <2>1, <2>2 DEF Goal
  <1>11. CASE FinishCase
    <2>1. UNCHANGED <<cases, suite, cur, inst, tstate, binary, seen>>
      BY <1>11 DEF FinishCase
    <2>2. Goal
      <3>1. CASE ~(IsXFail /\ tstate.collected)
        <4>1. EndCase(<<>>, tstate.failed, FALSE) \/ EndCase(<<>>, TRUE, FALSE)
          BY <1>11, <3>1 DEF FinishCase
        <4> QED
          BY <1>2, <1>4, <1>5, <1>6, <2>1, <4>1
      <3>2. CASE IsXFail /\ tstate.collected
        <4> DEFINE e == Ev(cur, "xfail-output")
        <4>1. EndCase(<<e>>, tstate.failed, FALSE)
          BY <1>11, <3>2 DEF FinishCase
        <4>2. e \in Event /\ e.test = cur /\ e.action \notin Terminal
          BY <1>2 DEF Ev, Event, Terminal
        <4> HIDE DEF e
        <4>3. <<e>> \in Seq(Event) /\ Printed(<<e>>) = {e}
          BY <4>2, PrintedOne
        <4> QED
          BY <1>2, <1>4, <1>6, <2>1, <4>1, <4>2, <4>3
      <3> QED
        BY <3>1, <3>2
    <2> QED
      BY <1>1, <2>1, <2>2 DEF Goal
  <1> QED
    BY <1>7, <1>9, <1>10, <1>11

\* The other steps of a running case print nothing and mark no case but it; a
\* step that fails it marks what failed it.
LEMMA PrintsNothing ==
  ASSUME HInv, FailsInv,
         \/ NotListed \/ SchemaRead
         \/ \E v \in {"accept", "reject", "panic"} : Compile(v)
         \/ \E v \in {"match", "mismatch", "panic"} : Validate(v)
         \/ UnreadableInstance11 \/ PassOverInstance10 \/ InstancesDone
  PROVE  /\ InCase /\ InCase' /\ UNCHANGED <<cases, suite, cur, rootFailed, binary, stream>>
         /\ \A i \in CaseIds : i # cur => seen'[i] = seen[i]
         /\ (suite.name # "xsd10" /\ tstate'.failed) => Trouble(cur)' # {}
  <1>1. InCase /\ InCase' /\ UNCHANGED <<cases, suite, cur, rootFailed, binary, stream>>
    BY DEF InCase, NotListed, SchemaRead, Compile, MoreInstances, Validate,
           UnreadableInstance11, PassOverInstance10, InstancesDone
  <1>2. /\ cur \in CaseIds /\ seen \in [CaseIds -> SUBSET Mark]
        /\ tstate \in [failed : BOOLEAN, collected : BOOLEAN]
        /\ (suite.name # "xsd10" /\ tstate.failed) => Trouble(cur) # {}
    BY <1>1 DEF HInv, HarnessTypeOK, RunningInv, FailsInv, CaseIds
  <1>3. \/ UNCHANGED <<seen, tstate>>
        \/ Saw("match") /\ UNCHANGED tstate
        \/ \E m \in {"mismatch", "panic"} : Saw(m) /\ Errorf
        \/ Saw("unreadable") /\ tstate' = [tstate EXCEPT !.failed = TRUE]
        \/ suite.name = "xsd10" /\ Saw(This.insts[inst]) /\ UNCHANGED tstate
    <2>1. CASE NotListed \/ SchemaRead \/ InstancesDone
      BY <2>1 DEF NotListed, SchemaRead, InstancesDone
    <2>2. CASE \E v \in {"accept", "reject", "panic"} : Compile(v)
      BY <2>2 DEF Compile
    <2>3. CASE \E v \in {"match", "mismatch", "panic"} : Validate(v)
      BY <2>3 DEF Validate
    <2>4. CASE UnreadableInstance11 \/ PassOverInstance10
      BY <2>4 DEF UnreadableInstance11, PassOverInstance10
    <2> QED
      BY <2>1, <2>2, <2>3, <2>4
  <1>4. CASE UNCHANGED <<seen, tstate>>
    BY <1>1, <1>2, <1>4 DEF Trouble
  <1>5. CASE Saw("match") /\ UNCHANGED tstate
    BY <1>1, <1>2, <1>5 DEF Saw, Trouble
  <1>6. ASSUME NEW m \in {"mismatch", "panic"}, Saw(m), Errorf
        PROVE  (\A i \in CaseIds : i # cur => seen'[i] = seen[i]) /\ Trouble(cur)' # {}
    BY <1>1, <1>2, <1>6 DEF Saw, Trouble
  <1>7. CASE Saw("unreadable") /\ tstate' = [tstate EXCEPT !.failed = TRUE]
    BY <1>1, <1>2, <1>7 DEF Saw, Trouble
  <1>8. CASE suite.name = "xsd10" /\ Saw(This.insts[inst]) /\ UNCHANGED tstate
    BY <1>1, <1>2, <1>8 DEF Saw
  <1> QED
    BY <1>1, <1>3, <1>4, <1>5, <1>6, <1>7, <1>8

\* What may happen to the harness in one step, as the two invariants see it.
RootPrints ==
  /\ UNCHANGED <<cases, suite, cur, tstate, rootFailed, seen>>
  /\ Printed(stream) \subseteq Printed(stream)'
  /\ \A e \in Printed(stream)' \ Printed(stream) :
       /\ e.test \in {Root, Package}
       /\ binary' \in {"running", "ok"} => ~PackageFailure(e)
  /\ \/ pc = "setup" /\ pc' = "loop" /\ binary' = binary
     \/ pc' = "exited" /\ binary' \in {"fail", "killed", "nostart"}
     \/ pc' = "exited" /\ binary' = "ok" /\ pc = "setup"
     \/ pc' = "exited" /\ binary' = "ok" /\ pc = "loop" /\ cur = Len(cases) /\ ~rootFailed

LEMMA EndsRoot ==
  ASSUME HInv, EndsInv, FailsInv, RootPrints
  PROVE  EndsInv' /\ FailsInv'
  <1>1. CaseIds' = CaseIds /\ ~InCase' /\ cur \in Nat /\ cur <= Len(cases) /\ Len(cases) \in Nat
    BY DEF RootPrints, CaseIds, InCase, HInv, HarnessTypeOK
  <1>2. CaseIds \subseteq Nat /\ {Root, Package} \cap CaseIds = {}
    BY <1>1, NamesDiffer DEF CaseIds
  <1>3. \A i \in CaseIds : HasEnded(i) => HasEnded(i)'
    BY DEF HasEnded, RootPrints
  <1>4. (\A e \in Printed(stream) : e.test \in {Root, Package})
          => \A e \in Printed(stream)' : e.test \in {Root, Package}
    BY DEF RootPrints
  <1>5. pc = "setup" => \A e \in Printed(stream) : e.test \in {Root, Package}
    BY <1>1 DEF HInv, TestsInv, EndsInv
  <1>6. EndsInv'
    <2>1. (pc # "exited" => binary = "running")'
      <3>1. CASE pc = "setup" /\ pc' = "loop" /\ binary' = binary
        BY <3>1 DEF EndsInv
      <3>2. CASE pc' = "exited"
        BY <3>2
      <3> QED
        BY <3>1, <3>2 DEF RootPrints
    <2>2. (pc = "setup" => cur = 0)' /\ (InCase => \A i \in 1..(cur - 1) : HasEnded(i))'
      BY <1>1 DEF RootPrints
    <2>3. (pc = "loop" => \A i \in 1..cur : HasEnded(i))'
      <3>1. pc' = "loop" => cur' = 0
        BY DEF RootPrints, EndsInv
      <3> QED
        BY <3>1
    <2>4. (binary \in {"running", "ok"} => \A e \in Printed(stream) : ~PackageFailure(e))'
      <3> SUFFICES ASSUME binary' \in {"running", "ok"}, NEW e \in Printed(stream)'
                   PROVE  ~PackageFailure(e)
        BY DEF PackageFailure
      <3>1. CASE e \in Printed(stream)
        <4>1. binary \in {"running", "ok"}
          <5>1. CASE pc \in {"setup", "loop"}
            BY <5>1 DEF EndsInv
          <5>2. CASE pc \notin {"setup", "loop"}
            BY <5>2 DEF RootPrints
          <5> QED
            BY <5>1, <5>2
        <4> QED
          BY <3>1, <4>1 DEF EndsInv
      <3>2. CASE e \notin Printed(stream)
        BY <3>2 DEF RootPrints
      <3> QED
        BY <3>1, <3>2
    <2>5. (binary = "ok" => \/ ~rootFailed /\ \A i \in CaseIds : HasEnded(i)
                            \/ \A e \in Printed(stream) : e.test \in {Root, Package})'
      <3> SUFFICES ASSUME binary' = "ok"
                   PROVE  \/ ~rootFailed /\ \A i \in CaseIds : HasEnded(i)'
                          \/ \A e \in Printed(stream)' : e.test \in {Root, Package}
        BY <1>1 DEF RootPrints
      <3>1. CASE pc = "setup"
        BY <3>1, <1>4, <1>5
      <3>2. CASE pc = "loop" /\ cur = Len(cases) /\ ~rootFailed
        BY <3>2, <1>3 DEF EndsInv, CaseIds
      <3> QED
        BY <3>1, <3>2 DEF RootPrints
    <2> QED
      BY <2>1, <2>2, <2>3, <2>4, <2>5 DEF EndsInv
  <1>7. FailsInv'
    <2> SUFFICES ASSUME NEW e \in Printed(stream)', e.test \in CaseIds, e.action = "fail"
                 PROVE  /\ rootFailed'
                        /\ (suite.name # "xsd10" /\ "missing" \in seen[e.test])' => Trouble(e.test)' # {}
      BY <1>1 DEF FailsInv
    <2>1. e \in Printed(stream)
      BY <1>2 DEF RootPrints
    <2> QED
      BY <2>1 DEF FailsInv, RootPrints, Trouble
  <1> QED
    BY <1>6, <1>7

LEMMA EndsRunCase ==
  ASSUME HInv, EndsInv, FailsInv, RunCase
  PROVE  EndsInv' /\ FailsInv'
  <1> DEFINE e == Ev(cur + 1, "run")
  <1>1. /\ cur \in Nat /\ cur + 1 \in CaseIds /\ Len(cases) \in Nat
        /\ CaseIds' = CaseIds /\ CaseIds \subseteq Nat
        /\ cur' = cur + 1 /\ pc = "loop" /\ pc' = "listed" /\ tstate' = FreshT
        /\ UNCHANGED <<cases, suite, rootFailed, binary, seen>>
    BY DEF RunCase, MoreCases, HInv, HarnessTypeOK, CaseIds
  <1>2. e \in Event /\ e.test = cur + 1 /\ e.action = "run"
    BY <1>1 DEF Ev, Event
  <1>3. Printed(stream)' = Printed(stream) \cup {e}
    <2>1. stream' = stream \o <<e>> /\ stream \in Seq(Event)
      BY DEF RunCase, Emit, HInv, HarnessTypeOK
    <2> HIDE DEF e
    <2> QED
      BY <1>2, <2>1, PrintedThen
  <1> HIDE DEF e
  <1>4. e.test # Package
    BY <1>1, <1>2, NamesDiffer DEF CaseIds
  <1>5. \A i \in CaseIds : HasEnded(i) => HasEnded(i)'
    BY <1>3 DEF HasEnded
  <1>6. binary = "running" /\ \A f \in Printed(stream) : ~PackageFailure(f)
    BY <1>1 DEF EndsInv
  <1>7. EndsInv'
    <2>1. \A i \in 1..cur : HasEnded(i)'
      BY <1>1, <1>5 DEF EndsInv, CaseIds
    <2>2. \A f \in Printed(stream)' : ~PackageFailure(f)
      BY <1>3, <1>4, <1>6 DEF PackageFailure
    <2>3. /\ pc' # "setup" /\ pc' # "loop" /\ pc' # "exited"
          /\ binary' = "running" /\ cur' - 1 = cur
      BY <1>1, <1>6
    <2> QED
      BY <2>1, <2>2, <2>3 DEF EndsInv, PackageFailure
  <1>8. FailsInv'
    <2> SUFFICES ASSUME NEW f \in Printed(stream)', f.test \in CaseIds, f.action = "fail"
                 PROVE  /\ rootFailed
                        /\ f.test # cur + 1
                        /\ (suite.name # "xsd10" /\ "missing" \in seen[f.test]) => Trouble(f.test) # {}
      BY <1>1 DEF FailsInv, FreshT, Trouble
    <2>1. f \in Printed(stream)
      BY <1>2, <1>3
    <2>2. f.test \in 1..cur
      BY <2>1, <1>1, NamesDiffer DEF HInv, TestsInv, CaseIds
    <2> QED
      BY <2>1, <2>2, <1>1 DEF FailsInv
  <1> QED
    BY <1>7, <1>8

LEMMA EndsResult ==
  ASSUME HInv, EndsInv, FailsInv,
         ListedSkip \/ UnknownType \/ SchemaUnread \/ MissingInstance11 \/ FinishCase
  PROVE  EndsInv' /\ FailsInv'
  <1>1. /\ InCase /\ pc' = "loop" /\ UNCHANGED <<cases, suite, cur, binary>>
        /\ \A i \in CaseIds : i # cur => seen'[i] = seen[i]
    BY PrintsResult
  <1>2. PICK failed \in BOOLEAN, result \in Terminal, outputs \in Seq(Event) :
          /\ Printed(stream)' = Printed(stream) \cup Printed(outputs) \cup {Ev(cur, result)}
          /\ \A e \in Printed(outputs) : e.test = cur /\ e.action \notin Terminal
          /\ rootFailed' = (rootFailed \/ failed)
          /\ result = "fail" <=> failed
          /\ (failed /\ suite.name # "xsd10" /\ "missing" \in seen'[cur]) => Trouble(cur)' # {}
    BY PrintsResult
  <1>3. /\ cur \in CaseIds /\ cur \in Nat /\ CaseIds' = CaseIds /\ ~InCase'
        /\ Len(cases) \in Nat /\ CaseIds \subseteq Nat
    BY <1>1 DEF HInv, HarnessTypeOK, RunningInv, CaseIds, InCase
  <1>4. Ev(cur, result).test = cur /\ Ev(cur, result).action = result
    BY DEF Ev
  <1>5. cur # Package /\ binary = "running"
    BY <1>1, <1>3, NamesDiffer DEF EndsInv, InCase
  <1>6. EndsInv'
    <2>1. \A i \in 1..cur : HasEnded(i)'
      <3> SUFFICES ASSUME NEW i \in 1..cur PROVE HasEnded(i)'
        OBVIOUS
      <3>1. CASE i = cur
        BY <3>1, <1>2, <1>4 DEF HasEnded
      <3>2. CASE i # cur
        <4>1. i \in 1..(cur - 1)
          BY <3>2, <1>3
        <4>2. HasEnded(i)
          BY <4>1, <1>1 DEF EndsInv
        <4> QED
          BY <4>2, <1>2 DEF HasEnded
      <3> QED
        BY <3>1, <3>2
    <2>2. \A e \in Printed(stream)' : ~PackageFailure(e)
      BY <1>2, <1>4, <1>5 DEF PackageFailure, EndsInv
    <2> QED
      BY <2>1, <2>2, <1>1, <1>3, <1>5 DEF EndsInv, PackageFailure
  <1>7. FailsInv'
    <2> SUFFICES ASSUME NEW e \in Printed(stream)', e.test \in CaseIds, e.action = "fail"
                 PROVE  /\ rootFailed'
                        /\ (suite.name # "xsd10" /\ "missing" \in seen'[e.test]) => Trouble(e.test)' # {}
      BY <1>1, <1>3 DEF FailsInv
    <2>1. CASE e \in Printed(stream)
      <3>1. /\ rootFailed /\ e.test # cur
            /\ (suite.name # "xsd10" /\ "missing" \in seen[e.test]) => Trouble(e.test) # {}
        BY <2>1, <1>1 DEF FailsInv
      <3> QED
        BY <3>1, <1>1, <1>2 DEF Trouble
    <2>2. CASE e = Ev(cur, result)
      BY <2>2, <1>1, <1>2, <1>4 DEF Trouble
    <2>3. CASE e \in Printed(outputs)
      BY <2>3, <1>2 DEF Terminal
    <2> QED
      BY <1>2, <2>1, <2>2, <2>3
  <1> QED
    BY <1>6, <1>7

LEMMA EndsNothing ==
  ASSUME HInv, EndsInv, FailsInv,
         \/ NotListed \/ SchemaRead
         \/ \E v \in {"accept", "reject", "panic"} : Compile(v)
         \/ \E v \in {"match", "mismatch", "panic"} : Validate(v)
         \/ UnreadableInstance11 \/ PassOverInstance10 \/ InstancesDone
  PROVE  EndsInv' /\ FailsInv'
  <1>1. /\ InCase /\ InCase' /\ UNCHANGED <<cases, suite, cur, rootFailed, binary, stream>>
        /\ \A i \in CaseIds : i # cur => seen'[i] = seen[i]
        /\ (suite.name # "xsd10" /\ tstate'.failed) => Trouble(cur)' # {}
    BY PrintsNothing
  <1>2. binary = "running" /\ CaseIds' = CaseIds
    BY <1>1 DEF EndsInv, InCase, CaseIds
  <1>3. EndsInv'
    BY <1>1, <1>2 DEF EndsInv, InCase, HasEnded, PackageFailure
  <1>4. FailsInv'
    <2> SUFFICES ASSUME NEW e \in Printed(stream), e.test \in CaseIds, e.action = "fail"
                 PROVE  /\ rootFailed
                        /\ e.test # cur
                        /\ (suite.name # "xsd10" /\ "missing" \in seen'[e.test]) => Trouble(e.test)' # {}
      BY <1>1, <1>2 DEF FailsInv
    <2> QED
      BY <1>1 DEF FailsInv, Trouble
  <1> QED
    BY <1>3, <1>4

\* `go test' ends without a word, of whatever kind.
LEMMA SilentRootPrints ==
  ASSUME HInv, binary' \in {"killed", "nostart"}, pc' = "exited",
         UNCHANGED <<cases, suite, cur, inst, tstate, rootFailed, stream, seen>>
  PROVE  RootPrints
  BY DEF RootPrints, Printed

LEMMA EndsStep == IInv /\ EndsInv /\ FailsInv /\ [WNext]_vars => EndsInv' /\ FailsInv'
  <1> SUFFICES ASSUME IInv, EndsInv, FailsInv, [WNext]_vars PROVE EndsInv' /\ FailsInv'
    OBVIOUS
  <1>1. HInv
    BY DEF IInv
  <1>2. ASSUME BuildFails \/ SetupFatal \/ SetupSkip \/ SetupDone \/ LoopEnds \/ Die
        PROVE  EndsInv' /\ FailsInv'
    <2>1. RootPrints
      BY <1>1, <1>2, PrintsRoot DEF RootPrints
    <2> QED
      BY <1>1, <2>1, EndsRoot
  <1>3. CASE GoTestRuns
    BY <1>1, <1>2, <1>3, EndsRunCase, EndsResult, EndsNothing DEF GoTestRuns, HarnessStep
  <1>4. CASE GoTestDies
    BY <1>2, <1>4 DEF GoTestDies
  <1>5. CASE GoTestKilled \/ GoTestMissing
    <2>1. RootPrints
      BY <1>1, <1>5, SilentRootPrints DEF GoTestKilled, GoTestMissing
    <2> QED
      BY <1>1, <2>1, EndsRoot
  <1>6. CASE W3CStep \/ UNCHANGED vars
    <2>1. UNCHANGED hvars
      BY <1>6 DEF W3CStep, GoTestEnds, JUnitNotCreated, JUnitNotConverted, WriteJUnit,
                  SummaryNotCreated, SummaryNotWritten, WriteSummary, Verdict, vars
    <2>2. EndsInv'
      BY <2>1 DEF hvars, EndsInv, InCase, HasEnded, PackageFailure, Printed, CaseIds
    <2>3. FailsInv'
      BY <2>1 DEF hvars, FailsInv, InCase, Trouble, Printed, CaseIds
    <2> QED
      BY <2>2, <2>3
  <1> QED
    BY <1>3, <1>4, <1>5, <1>6 DEF WNext

\* The stream is final once w3ctest reads it, and each file is written from it.
LEMMA DocsStep == IInv /\ DocsInv /\ [WNext]_vars => DocsInv'
  <1> SUFFICES ASSUME IInv, DocsInv, [WNext]_vars PROVE DocsInv'
    OBVIOUS
  <1>1. CASE GoTestRuns \/ GoTestDies \/ GoTestMissing \/ GoTestKilled
    <2>1. wpc = "test" /\ UNCHANGED <<wpc, junit, summary, code>>
      BY <1>1 DEF GoTestRuns, GoTestDies, GoTestMissing, GoTestKilled, wvars
    <2> QED
      BY <2>1 DEF DocsInv
  <1>2. CASE GoTestEnds
    BY <1>2 DEF GoTestEnds, hvars, DocsInv
  <1>3. CASE JUnitNotCreated \/ SummaryNotCreated
    BY <1>3 DEF JUnitNotCreated, SummaryNotCreated, Exit, hvars, DocsInv
  <1>4. CASE JUnitNotConverted
    BY <1>4 DEF JUnitNotConverted, Exit, hvars, DocsInv
  <1>5. CASE WriteJUnit
    BY <1>5 DEF WriteJUnit, hvars, DocsInv
  <1>6. CASE SummaryNotWritten
    BY <1>6 DEF SummaryNotWritten, Exit, hvars, DocsInv
  <1>7. CASE WriteSummary
    BY <1>7 DEF WriteSummary, hvars, DocsInv
  <1>8. CASE Verdict
    <2>1. binary \in {"ok", "fail", "killed", "nostart"}
      BY <1>8 DEF Verdict, IInv, ReportInv, HInv, HarnessTypeOK
    <2>2. ExitCode = 0 => binary = "ok" /\ summary.doc.total # 0
      BY <2>1 DEF ExitCode
    <2> QED
      BY <1>8, <2>2 DEF Verdict, Exit, hvars, DocsInv
  <1>9. CASE UNCHANGED vars
    BY <1>9 DEF vars, hvars, wvars, DocsInv
  <1> QED
    BY <1>1, <1>2, <1>3, <1>4, <1>5, <1>6, <1>7, <1>8, <1>9 DEF WNext, W3CStep

LEMMA GreenInvariance == WSpec => [](IInv /\ GreenInv)
  <1>1. WInit => GreenInv
    <2> SUFFICES ASSUME WInit PROVE GreenInv
      OBVIOUS
    <2>1. Printed(stream) = {}
      BY PrintedNone DEF WInit, Init
    <2>2. EndsInv /\ FailsInv
      BY <2>1 DEF WInit, Init, EndsInv, FailsInv, InCase
    <2>3. DocsInv
      BY DEF WInit, DocsInv, Unset
    <2> QED
      BY <2>2, <2>3 DEF GreenInv
  <1>2. IInv /\ GreenInv /\ [WNext]_vars => GreenInv'
    BY EndsStep, DocsStep DEF GreenInv
  <1>3. IInv /\ [WNext]_vars => IInv'
    BY HInvStep, FilesStep DEF IInv
  <1> QED
    BY InitIInv, <1>1, <1>2, <1>3, PTL DEF WSpec

-------------------------------------------------------------------------------
(* Theorems.                                                               *)

\* Types: whatever the catalog, fixtures, verdicts, deaths and write errors, the
\* harness and the command stay in the states their types describe; the counts
\* of the summary are numbers because only started cases reach the folds.
THEOREM TypeCorrect == WSpec => []TypeOK
  <1>1. IInv => TypeOK
    BY DEF IInv
  <1> QED
    BY Invariance, <1>1, PTL

\* caseOutcome and the two case runners: no case is ever reported passed that met
\* a wrong verdict or a panic without being an expected failure, none that was
\* expected to fail and did not, and in XSD 1.1 none with an unread fixture.
THEOREM PassesAreEarned == WSpec => []PassIsEarned
  <1>1. IInv => PassIsEarned
    <2> SUFFICES ASSUME IInv, NEW i \in junit.doc.passed PROVE Earned(i)
      BY DEF PassIsEarned, Earned, Bad
    <2>1. i \in WithStatus(stream, "pass")
      BY DEF IInv, ReportInv
    <2>2. PICK k \in DOMAIN stream : stream[k] = Ev(i, "pass")
      BY <2>1 DEF WithStatus
    <2>3. Ev(i, "pass") \in Printed(stream)
      BY <2>2 DEF Printed
    <2>4. i \notin {Root, Package}
      BY <2>1 DEF WithStatus, Order
    <2>5. i \in 1..cur
      BY <2>3, <2>4 DEF IInv, HInv, TestsInv, Ev
    <2> QED
      BY <2>3, <2>5 DEF IInv, HInv, PassesInv, Ev
  <1> QED
    BY Invariance, <1>1, PTL

\* ConvertGoTestJSON and Summarize, two folds of one stream written one after the
\* other: for any stream the harness can print, a fresh summary counts exactly the
\* failures, skips and passes that the fresh JUnit file beside it names.
THEOREM ReportsAlwaysAgree == WSpec => []ReportsAgree
  <1>1. IInv /\ GreenInv => ReportsAgree
    <2> SUFFICES ASSUME HInv, DocsInv, summary.state = "fresh" PROVE ReportsAgree
      BY DEF ReportsAgree, GreenInv, IInv
    <2> DEFINE passed  == WithStatus(stream, "pass")
               xfailed == {t \in passed : XFailLogged(stream, t)}
    <2>1. /\ junit.state = "fresh" /\ junit.doc = ConvertGoTestJSON(stream)
          /\ summary.doc = Summarize(stream)
      BY DEF DocsInv
    <2>2. summary.doc.failed = Cardinality(junit.doc.failures)
      <3>1. Cardinality({Setup}) = 1
        BY FS_Singleton
      <3> QED
        BY <2>1, <3>1 DEF ConvertGoTestJSON, Summarize, SummaryFailed
    <2>3. summary.doc.skipped = Cardinality(junit.doc.skipped)
      BY <2>1 DEF ConvertGoTestJSON, Summarize
    <2>4. Cardinality(passed \ xfailed) + Cardinality(xfailed) = Cardinality(passed)
      BY PassesSplit
    <2>5. /\ summary.doc.passed = Cardinality(passed \ xfailed)
          /\ summary.doc.xfailed = Cardinality(xfailed)
          /\ junit.doc.passed = passed
      BY <2>1 DEF ConvertGoTestJSON, Summarize
    <2> HIDE DEF passed, xfailed
    <2> QED
      BY <2>1, <2>2, <2>3, <2>4, <2>5 DEF ReportsAgree
  <1> QED
    BY GreenInvariance, <1>1, PTL

\* The exit code of w3ctest: 0 means that every case of the catalog ran to its
\* result, none failed, and both reports, whole, say so, however many cases there
\* are and wherever a panic, a death, a kill or a failed write struck.
THEOREM GreenRunsAreComplete == WSpec => []GreenRunIsComplete
  <1>1. IInv /\ GreenInv => GreenRunIsComplete
    <2> SUFFICES ASSUME HInv, GreenInv, code = 0 PROVE GreenRunIsComplete
      BY DEF GreenRunIsComplete, IInv
    <2> DEFINE passed  == WithStatus(stream, "pass")
               failed  == WithStatus(stream, "fail")
               skipped == WithStatus(stream, "skip")
               xfailed == {t \in passed : XFailLogged(stream, t)}
    <2>1. /\ binary = "ok" /\ junit.state = "fresh" /\ summary.state = "fresh"
          /\ junit.doc = ConvertGoTestJSON(stream) /\ summary.doc = Summarize(stream)
          /\ summary.doc.total # 0
      BY DEF GreenInv, DocsInv
    <2>2. stream \in Seq(Event) /\ Len(cases) \in Nat /\ CaseIds \subseteq Nat
      BY DEF HInv, HarnessTypeOK, CaseIds
    <2>3. ~NoCases(stream)
      <3>1. ~PackageFailed(stream)
        BY <2>1 DEF GreenInv, EndsInv, PackageFailed, PackageFailure, Printed
      <3> QED
        BY <3>1 DEF NoCases
    <2>4. /\ passed \subseteq CaseIds /\ failed \subseteq CaseIds /\ skipped \subseteq CaseIds
          /\ IsFiniteSet(passed) /\ IsFiniteSet(failed) /\ IsFiniteSet(skipped)
      BY StatusBounds DEF CaseIds
    <2>5. /\ summary.doc.failed = Cardinality(failed) /\ summary.doc.skipped = Cardinality(skipped)
          /\ summary.doc.passed = Cardinality(passed \ xfailed)
          /\ summary.doc.xfailed = Cardinality(xfailed)
          /\ summary.doc.total = Cardinality(passed \ xfailed) + Cardinality(xfailed)
                                   + Cardinality(failed) + Cardinality(skipped)
          /\ junit.doc.failures = failed /\ junit.doc.passed = passed /\ junit.doc.skipped = skipped
      BY <2>1, <2>3 DEF ConvertGoTestJSON, Summarize, SummaryFailed
    <2>6. Cardinality(passed \ xfailed) + Cardinality(xfailed) = Cardinality(passed)
      BY PassesSplit
    <2>7. ~rootFailed /\ \A i \in CaseIds : HasEnded(i)
      <3> SUFFICES ASSUME \A e \in Printed(stream) : e.test \in {Root, Package} PROVE FALSE
        BY <2>1 DEF GreenInv, EndsInv
      <3>1. Order(stream) = {}
        BY DEF Order, Printed
      <3>2. passed = {} /\ failed = {} /\ skipped = {} /\ xfailed = {} /\ passed \ xfailed = {}
        BY <3>1 DEF WithStatus
      <3>3. Cardinality({}) = 0
        BY FS_EmptySet
      <3> QED
        BY <2>1, <2>5, <3>2, <3>3
    <2>8. failed = {}
      <3> SUFFICES ASSUME NEW t \in failed PROVE FALSE
        OBVIOUS
      <3>1. Ev(t, "fail") \in Printed(stream) /\ t \in CaseIds
        BY <2>4 DEF WithStatus, Printed
      <3> QED
        BY <2>7, <3>1 DEF GreenInv, FailsInv, Ev
    <2>9. passed \cup skipped = CaseIds
      <3> SUFFICES ASSUME NEW i \in CaseIds PROVE i \in passed \cup skipped
        BY <2>4
      <3>1. PICK e \in Printed(stream) : e.test = i /\ e.action \in Terminal
        BY <2>7 DEF HasEnded
      <3>2. i \notin {Root, Package}
        BY <2>2, NamesDiffer
      <3>3. \E a \in Terminal : i \in WithStatus(stream, a)
        BY <2>2, <3>1, <3>2, EndedHasStatus
      <3> QED
        BY <2>8, <3>3 DEF Terminal
    <2>10. Cardinality(passed) + Cardinality(skipped) = Len(cases)
      <3>1. passed \cap skipped = {}
        <4>1. "pass" \in Terminal /\ "skip" \in Terminal /\ "pass" # "skip"
          BY DEF Terminal
        <4> QED
          BY <2>2, <4>1, OneStatus
      <3>2. Cardinality(CaseIds) = Len(cases)
        <4>1. 1 \in Int /\ Len(cases) \in Int /\ (1 > Len(cases) => Len(cases) = 0)
          BY <2>2
        <4>2. Cardinality(1..Len(cases)) = IF 1 > Len(cases) THEN 0 ELSE Len(cases) - 1 + 1
          BY <4>1, FS_Interval
        <4> QED
          BY <2>2, <4>1, <4>2 DEF CaseIds
      <3> HIDE DEF passed, skipped
      <3>3. Cardinality(passed \cup skipped) =
              Cardinality(passed) + Cardinality(skipped) - Cardinality(passed \cap skipped)
        BY <2>4, FS_Union
      <3>4. Cardinality(passed) \in Nat /\ Cardinality(skipped) \in Nat
        BY <2>4, FS_CardinalityType
      <3>5. Cardinality(passed \cap skipped) = 0
        BY <3>1, FS_EmptySet
      <3>6. Cardinality(passed \cup skipped) = Len(cases)
        BY <2>9, <3>2
      <3> QED
        BY <2>2, <3>3, <3>4, <3>5, <3>6
    <2>11. Cardinality(failed) = 0
      BY <2>8, FS_EmptySet
    <2> HIDE DEF passed, failed, skipped, xfailed
    <2>12. summary.doc.total = Len(cases) /\ summary.doc.failed = 0
      <3>1. Cardinality(passed) \in Nat /\ Cardinality(skipped) \in Nat
        BY <2>4, FS_CardinalityType
      <3> QED
        BY <2>2, <2>5, <2>6, <2>10, <2>11, <3>1
    <2> QED
      BY <2>1, <2>5, <2>8, <2>9, <2>12 DEF GreenRunIsComplete
  <1> QED
    BY GreenInvariance, <1>1, PTL

\* caseOutcome's promise about infrastructure: in XSD 1.1 and XML no case is ever
\* reported failed because a fixture was not fetched; one that did fail had met a
\* wrong verdict, a panic or a fixture it could not read besides.
THEOREM MissingFixturesNeverFail == WSpec => []MissingFixtureNeverFails
  <1>1. IInv /\ GreenInv => MissingFixtureNeverFails
    <2> SUFFICES ASSUME GreenInv, suite.name # "xsd10", NEW i \in CaseIds, "missing" \in seen[i],
                        i \in WithStatus(stream, "fail")
                 PROVE  Trouble(i) # {}
      BY DEF MissingFixtureNeverFails, Trouble
    <2>1. Ev(i, "fail") \in Printed(stream)
      BY DEF WithStatus, Printed
    <2> QED
      BY <2>1 DEF GreenInv, FailsInv, Ev
  <1> QED
    BY GreenInvariance, <1>1, PTL
===============================================================================
