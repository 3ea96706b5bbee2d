------------------------------ MODULE XSLTRunner ------------------------------
(***************************************************************************)
(* The XSLT 3.0 harness (xslt3/w3c_helpers_test.go): w3cRunTests gives     *)
(* every case a parallel subtest, w3cRunOne takes it from the skip         *)
(* decision to its assertions.  The cases share a semaphore, the bytes of  *)
(* source documents, the compiled stylesheets and the output definitions   *)
(* of secondary results.                                                   *)
(*                                                                         *)
(* The processor (package helium) is external: each call succeeds or       *)
(* returns an error, and a transform delivers to the receiver what it      *)
(* likes.  It calls back to open files; one it cannot open is reported to  *)
(* it alone, and what it makes of it is its own.  A case is a record of    *)
(* what the catalog says of it; see Profile.                               *)
(***************************************************************************)
EXTENDS Integers, FiniteSets, Sequences

CONSTANTS
  Case,         \* the cases: their subtests' names are distinct
  Profiles,     \* what the cases may be: a set of records of type Profile
  File, Present,\* fixture files, and those fetched into testdata/xslt30
  Url, Served,  \* URLs a case fetches, and those with a local copy
  Href, Named,  \* URIs of secondary results; Named is the one assertions name
  Error,        \* errors of the processor, by the code in their message; one
                \* without a code, as for a file not opened, no case accepts
  MaxParallel,  \* capacity of w3cSem
  GoParallel,   \* go test -parallel
  NoSource, Inline, None

\* A "raw" assertion has a RawCheck only, an "either" both, the others a Check.
Assertion == {"plain", "raw", "either", "document", "skip"}

\* source: the path of the source document, Inline for SourceContent;
\* route: which of the ways to compile is taken; expect: "SE" and "XTSE3430"
\* are the two kinds of expected error the runner tells from the others; loads:
\* the packages, modules, documents and entities the processor opens itself.
Profile ==
  [skip    : BOOLEAN,
   source  : File \cup {Inline, NoSource},
   route   : {"embedded", "direct", "cached"},
   sheet   : File,
   imports : SUBSET File,
   needs   : SUBSET File,
   loads   : SUBSET File,
   fetches : SUBSET Url,
   expect  : {"result", "error", "SE", "XTSE3430"},
   accept  : SUBSET Error,
   asserts : Seq(Assertion)]

ASSUME XSLTRunnerAssumption ==
  /\ IsFiniteSet(Case)
  /\ Profiles \subseteq Profile
  /\ Present \subseteq File /\ Named \in Href
  /\ None \notin Case \cup Error
  /\ {NoSource, Inline} \cap File = {}
  /\ MaxParallel \in Nat \ {0} /\ GoParallel \in Nat \ {0}

VARIABLES
  tc,       \* xslt30AllCases: what each case is
  pc,       \* where w3cRunOne is
  sem,      \* tokens in w3cSem
  sources,  \* w3cSourceBytesCache: the paths cached
  sheets,   \* w3cStylesheetCache: whose compilation is cached for a path
  outDefs,  \* w3cResultDocOutputDefs
  loc,      \* the locals of w3cRunOne, and the flags of its testing.T
  log       \* history: what has happened to the case

vars == <<tc, pc, sem, sources, sheets, outDefs, loc, log>>

Label == {"paused", "acquire", "decide", "load", "read", "parse", "compile",
          "store", "prepare", "transform", "judge", "serialize", "check",
          "cleanup", "ended"}

Locals ==
  [marks : SUBSET {"failed", "skipped", "raw"}, sheet : Case \cup {None},
   docs : SUBSET Href, todo : Seq(Assertion)]

History ==
  [raised : SUBSET Error, marks : SUBSET {"missed", "unread", "wrong"},
   used : SUBSET Case]

TypeOK ==
  /\ tc \in [Case -> Profile]
  /\ pc \in [Case -> Label]
  /\ sem \in 0..MaxParallel
  /\ sources \subseteq File
  /\ sheets \in [File -> Case \cup {None}]
  /\ outDefs \subseteq [key : Case \X Href, by : Case]
  /\ loc \in [Case -> Locals]
  /\ log \in [Case -> History]

\* t.Run has created the subtests and t.Parallel has paused each of them.
Init ==
  /\ tc \in [Case -> Profiles]
  /\ pc = [c \in Case |-> "paused"]
  /\ sem = 0
  /\ sources = {} /\ sheets = [f \in File |-> None] /\ outDefs = {}
  /\ loc = [c \in Case |-> [marks |-> {}, sheet |-> None, docs |-> {}, todo |-> <<>>]]
  /\ log = [c \in Case |-> [raised |-> {}, marks |-> {}, used |-> {}]]

Only(mark, cond) == IF cond THEN {mark} ELSE {}

Goto(c, l) == pc' = [pc EXCEPT ![c] = l]

\* w3cRunOne returns: its t.Cleanup runs.
Return(c) == Goto(c, "cleanup") /\ UNCHANGED loc

\* Slip: the token is given back where w3cRunOne returns, not in a cleanup.
FatalSlip(c) == Goto(c, "ended") /\ loc' = [loc EXCEPT ![c].marks = @ \cup {"failed"}]

\* t.Fatalf, require.NoError: Goexit runs the cleanup too.
Fatal(c) == Goto(c, "cleanup") /\ loc' = [loc EXCEPT ![c].marks = @ \cup {"failed"}]

ExpectError(c) == tc[c].expect # "result"

\* Slip: an error is accepted wherever the case lists any.
AcceptedSlip(c, e) == tc[c].accept # {}

\* w3cErrorAccepted
Accepted(c, e) == e \in tc[c].accept

\* An error of the processor that the case may expect or accept.
Raise(c, e) ==
  /\ log' = [log EXCEPT ![c].raised = @ \cup {e}]
  /\ IF ExpectError(c) \/ Accepted(c, e) THEN Return(c) ELSE Fatal(c)

\* An error in a document the case is made of: AcceptErrors is not consulted.
RaiseInDocument(c, e) ==
  /\ log' = [log EXCEPT ![c].raised = @ \cup {e}]
  /\ IF ExpectError(c) THEN Return(c) ELSE Fatal(c)

\* A file cannot be read, and the test fails at once.
Miss(c) == log' = [log EXCEPT ![c].marks = @ \cup {"missed"}] /\ Fatal(c)

Running == {c \in Case : pc[c] \notin {"paused", "ended"}}

\* The testing package lets at most GoParallel paused subtests go on.
Resume(c) ==
  /\ pc[c] = "paused" /\ Cardinality(Running) < GoParallel
  /\ Goto(c, "acquire")
  /\ UNCHANGED <<tc, sem, sources, sheets, outDefs, loc, log>>

\* Slip: the semaphore never blocks.
AcquireSlip(c) ==
  /\ pc[c] = "acquire"
  /\ sem' = sem + 1
  /\ Goto(c, "decide")
  /\ UNCHANGED <<tc, sources, sheets, outDefs, loc, log>>

\* w3cSem <- struct{}{}
Acquire(c) ==
  /\ pc[c] = "acquire" /\ sem < MaxParallel
  /\ sem' = sem + 1
  /\ Goto(c, "decide")
  /\ UNCHANGED <<tc, sources, sheets, outDefs, loc, log>>

\* w3cSkipDecision
Decide(c) ==
  /\ pc[c] = "decide"
  /\ IF tc[c].skip
     THEN Goto(c, "cleanup") /\ loc' = [loc EXCEPT ![c].marks = @ \cup {"skipped"}]
     ELSE /\ Goto(c, CASE tc[c].source = NoSource -> "compile"
                       [] tc[c].source = Inline   -> "parse"
                       [] OTHER                   -> "load")
          /\ UNCHANGED loc
  /\ UNCHANGED <<tc, sem, sources, sheets, outDefs, log>>

\* w3cReadSourceCached up to the cache miss
LoadSource(c) ==
  /\ pc[c] = "load"
  /\ Goto(c, IF tc[c].source \in sources THEN "parse" ELSE "read")
  /\ UNCHANGED <<tc, sem, sources, sheets, outDefs, loc, log>>

\* The rest of it: os.ReadFile and LoadOrStore.
ReadSource(c) ==
  /\ pc[c] = "read"
  /\ IF tc[c].source \in Present
     THEN sources' = sources \cup {tc[c].source} /\ Goto(c, "parse") /\ UNCHANGED <<loc, log>>
     ELSE Miss(c) /\ UNCHANGED sources
  /\ UNCHANGED <<tc, sem, sheets, outDefs>>

\* Parse the source document, then XInclude where the case asks for it.
ParseSource(c) ==
  /\ pc[c] = "parse"
  /\ \/ Goto(c, "compile") /\ UNCHANGED <<loc, log>>
     \/ \E e \in Error : RaiseInDocument(c, e)
     \/ Fatal(c) /\ UNCHANGED log
  /\ UNCHANGED <<tc, sem, sources, sheets, outDefs>>

\* A call of the parser, the compiler or the transformer is under way.
Processing(c) ==
  \/ pc[c] \in {"parse", "transform"}
  \/ pc[c] = "store" /\ tc[c].sheet \in Present
  \/ pc[c] = "compile"
     /\ \/ tc[c].route = "embedded"
        \/ tc[c].route = "direct" /\ tc[c].imports \cup {tc[c].sheet} \subseteq Present

\* w3cPackageResolver, w3cTestCompileResolver, w3cTestFileResolver or a
\* permissive FS opens a file for the processor, and it is not there: that is the
\* error of the callback, and the runner's testing.T does not see it.  The call
\* in progress ends in an error, or the processor does without the file.
ResolveFile(c) ==
  /\ Processing(c) /\ "unread" \notin log[c].marks
  /\ ~(tc[c].loads \subseteq Present)
  /\ log' = [log EXCEPT ![c].marks = @ \cup {"unread"}]
  /\ UNCHANGED <<tc, pc, sem, sources, sheets, outDefs, loc>>

\* The stylesheet compiled by this case, and nobody else, is the one it uses.
Compiled(c) ==
  /\ loc' = [loc EXCEPT ![c].sheet = c]
  /\ Goto(c, "prepare")
  /\ UNCHANGED log

\* w3cExtractEmbeddedStylesheet, which fails the test, and Compile.
CompileEmbedded(c) ==
  /\ pc[c] = "compile" /\ tc[c].route = "embedded"
  /\ \/ Compiled(c)
     \/ \E e \in Error : Raise(c, e)
     \/ Fatal(c) /\ UNCHANGED log
  /\ UNCHANGED <<tc, sem, sources, sheets, outDefs>>

\* With packages, parameters or schemas to import nothing is cached.  The runner
\* reads the schemas and the stylesheet, the compiler the packages and modules.
CompileDirect(c) ==
  /\ pc[c] = "compile" /\ tc[c].route = "direct"
  /\ IF tc[c].imports \cup {tc[c].sheet} \subseteq Present
     THEN \/ Compiled(c)
          \/ \E e \in Error : RaiseInDocument(c, e) \/ Raise(c, e)
          \/ tc[c].imports # {} /\ Fatal(c) /\ UNCHANGED log
     ELSE Miss(c)
  /\ UNCHANGED <<tc, sem, sources, sheets, outDefs>>

\* w3cCompileCached: Load
LoadSheet(c) ==
  /\ pc[c] = "compile" /\ tc[c].route = "cached"
  /\ LET cached == sheets[tc[c].sheet]
     IN  IF cached # None
         THEN Goto(c, "prepare") /\ loc' = [loc EXCEPT ![c].sheet = cached]
         ELSE Goto(c, "store") /\ UNCHANGED loc
  /\ UNCHANGED <<tc, sem, sources, sheets, outDefs, log>>

\* Slip: Store in place of LoadOrStore.
WinnerSlip(c) == c

\* LoadOrStore: the compilation that is kept for the path.
Winner(c) == IF sheets[tc[c].sheet] = None THEN c ELSE sheets[tc[c].sheet]

\* The rest of it: os.ReadFile, Parse, Compile and LoadOrStore.  A file that
\* cannot be read is an error like those of the processor, with no code.
StoreSheet(c) ==
  /\ pc[c] = "store"
  /\ IF tc[c].sheet \in Present
     THEN \/ /\ sheets' = [sheets EXCEPT ![tc[c].sheet] = Winner(c)]
             /\ loc' = [loc EXCEPT ![c].sheet = Winner(c)]
             /\ Goto(c, "prepare") /\ UNCHANGED log
          \/ (\E e \in Error : Raise(c, e)) /\ UNCHANGED sheets
     ELSE /\ log' = [log EXCEPT ![c].marks = @ \cup {"missed"}]
          /\ IF ExpectError(c) THEN Return(c) ELSE Fatal(c)
          /\ UNCHANGED sheets
  /\ UNCHANGED <<tc, sem, sources, outDefs>>

\* The invocation is built; collections and the source schema are loaded, and
\* what does not load fails the test.
Prepare(c) ==
  /\ pc[c] = "prepare"
  /\ IF tc[c].needs \subseteq Present
     THEN \/ Goto(c, "transform") /\ UNCHANGED <<loc, log>>
          \/ tc[c].needs # {} /\ Fatal(c) /\ UNCHANGED log
     ELSE Miss(c)
  /\ UNCHANGED <<tc, sem, sources, sheets, outDefs>>

\* Slip: the output definitions are kept by URI alone, for all the cases.
KeySlip(c, h) == <<CHOOSE d \in Case : TRUE, h>>

\* r.testName + "\x00" + href
Key(c, h) == <<c, h>>

\* Slip: a request with no local copy is answered, and nobody told.
AnswersSlip(urls) == TRUE

\* w3cRemoteHandler has a copy of every page asked for.
Answers(urls) == urls \subseteq Served

\* inv.Do calls the handlers of w3cReceiver and the HTTP client, whose
\* transport reports an answer other than 200 with t.Errorf.
Deliver(c) ==
  /\ pc[c] = "transform"
  /\ \E asked \in SUBSET tc[c].fetches, docs \in SUBSET Href, raw \in SUBSET {"raw"} :
       \E defs \in SUBSET docs :
         LET keys == {Key(c, h) : h \in defs}
         IN  /\ outDefs' = {d \in outDefs : d.key \notin keys}
                           \cup {[key |-> k, by |-> c] : k \in keys}
             /\ loc' = [loc EXCEPT ![c].docs = docs,
                          ![c].marks = @ \cup raw \cup Only("failed", ~Answers(asked))]
             /\ log' = [log EXCEPT ![c].marks =
                          @ \cup Only("missed", ~(asked \subseteq Served))]
  /\ Goto(c, "judge")
  /\ UNCHANGED <<tc, sem, sources, sheets>>

\* inv.Do returns.  An expected serialization error is waited for; a processor
\* that need not stream may do without XTSE3430.
Judge(c) ==
  /\ pc[c] = "judge"
  /\ \/ \E e \in Error : Raise(c, e)
     \/ /\ CASE tc[c].expect = "XTSE3430"         -> Return(c)
             [] tc[c].expect = "error"            -> Fatal(c)
             [] tc[c].expect \in {"result", "SE"} -> Goto(c, "serialize") /\ UNCHANGED loc
        /\ UNCHANGED log
  /\ UNCHANGED <<tc, sem, sources, sheets, outDefs>>

\* Expected serialization errors that did not come are failures.
Serialize(c) ==
  /\ pc[c] = "serialize"
  /\ \/ \E e \in Error : Raise(c, e)
     \/ /\ IF ExpectError(c)
           THEN Fatal(c)
           ELSE /\ Goto(c, "check")
                /\ loc' = [loc EXCEPT ![c].todo = tc[c].asserts]
        /\ UNCHANGED log
  /\ UNCHANGED <<tc, sem, sources, sheets, outDefs>>

\* An assertion has been evaluated; t.Errorf does not stop the loop.
Evaluated(c, holds, defs) ==
  /\ loc' = [loc EXCEPT ![c].todo = Tail(@), ![c].marks = @ \cup Only("failed", ~holds)]
  /\ log' = [log EXCEPT ![c].marks = @ \cup Only("wrong", ~holds),
                        ![c].used = @ \cup defs]

\* The secondary results an assert-result-document may take: the one of that
\* URI, or else any whose URI ends with it, in the order of the map.
Candidates(c) == IF Named \in loc[c].docs THEN {Named} ELSE loc[c].docs

\* One turn of the loop over tc.Assertions.
CheckAssertion(c) ==
  /\ pc[c] = "check" /\ loc[c].todo # <<>>
  /\ LET a == Head(loc[c].todo)
     IN  \/ /\ a = "skip"
            /\ Goto(c, "cleanup") /\ loc' = [loc EXCEPT ![c].marks = @ \cup {"skipped"}]
            /\ UNCHANGED log
         \/ /\ a = "raw" /\ "raw" \notin loc[c].marks
            /\ loc' = [loc EXCEPT ![c].todo = Tail(@)]
            /\ UNCHANGED <<pc, log>>
         \/ /\ a \in {"plain", "either"} \/ (a = "raw" /\ "raw" \in loc[c].marks)
            /\ \E holds \in BOOLEAN : Evaluated(c, holds, {})
            /\ UNCHANGED pc
         \/ /\ a = "document" /\ Candidates(c) = {}
            /\ Evaluated(c, FALSE, {})
            /\ UNCHANGED pc
         \/ /\ a = "document"
            /\ \E h \in Candidates(c), holds \in BOOLEAN :
                 Evaluated(c, holds, {d.by : d \in {x \in outDefs : x.key = Key(c, h)}})
            /\ UNCHANGED pc
  /\ UNCHANGED <<tc, sem, sources, sheets, outDefs>>

Checked(c) ==
  /\ pc[c] = "check" /\ loc[c].todo = <<>>
  /\ Return(c)
  /\ UNCHANGED <<tc, sem, sources, sheets, outDefs, log>>

\* t.Cleanup(func() { <-w3cSem }); the subtest gives up its -parallel slot.
Release(c) ==
  /\ pc[c] = "cleanup" /\ sem > 0
  /\ sem' = sem - 1
  /\ Goto(c, "ended")
  /\ UNCHANGED <<tc, sources, sheets, outDefs, loc, log>>

\* What a case does with a token in hand.
Work(c) ==
  \/ Decide(c) \/ LoadSource(c) \/ ReadSource(c) \/ ParseSource(c) \/ ResolveFile(c)
  \/ CompileEmbedded(c) \/ CompileDirect(c) \/ LoadSheet(c) \/ StoreSheet(c)
  \/ Prepare(c) \/ Deliver(c) \/ Judge(c) \/ Serialize(c)
  \/ CheckAssertion(c) \/ Checked(c)

Step(c) == Resume(c) \/ Acquire(c) \/ Work(c) \/ Release(c)

Next == \E c \in Case : Step(c)

\* Goroutines are scheduled, and calls of the processor return.
Spec == Init /\ [][Next]_vars /\ \A c \in Case : WF_vars(Step(c))

-----------------------------------------------------------------------------

Ended(c) == pc[c] = "ended"

\* "--- PASS": a subtest that has failed is a failure even if it was skipped.
Passed(c) == Ended(c) /\ {"failed", "skipped"} \cap loc[c].marks = {}

Holding == {c \in Case : pc[c] \notin {"paused", "acquire", "ended"}}

\* The semaphore counts the cases between its acquisition and the end of their
\* cleanup, whichever way they left: no token is lost to a t.Fatalf, a t.Skip
\* or an early return, and none is given back twice.
SlotsBalanced == sem = Cardinality(Holding)

\* Two cases that took the cached route for the same stylesheet run the same
\* compiled object, however their loads and stores interleave.
OneSheetPerPath ==
  \A c \in Case :
    (tc[c].route = "cached" /\ loc[c].sheet # None)
      => loc[c].sheet = sheets[tc[c].sheet]

\* The processor did what the case asks of it: it raised an error where one is
\* expected (or need not, for streaming); otherwise it raised an error the case
\* accepts, or none and every assertion the loop evaluated holds.
Earned(c) ==
  IF ExpectError(c)
  THEN log[c].raised # {} \/ tc[c].expect = "XTSE3430"
  ELSE \/ log[c].raised \cap tc[c].accept # {}
       \/ log[c].raised = {} /\ loc[c].todo = <<>> /\ "wrong" \notin log[c].marks

\* A case passes only if it has earned it, unless it is the one that
\* MissingFixtureIsLoud is about.
PassIsEarned ==
  \A c \in Case : Passed(c) /\ "missed" \notin log[c].marks => Earned(c)

\* The case expects an error and takes a missing stylesheet for it.
Mistakes(c) ==
  ExpectError(c) /\ tc[c].route = "cached" /\ tc[c].sheet \notin Present

\* An error of the processor passes for what the case asks for, or there is none.
Excused(c) ==
  ExpectError(c) \/ log[c].raised = {} \/ log[c].raised \cap tc[c].accept # {}

\* A case fails that went for a fixture the runner reads itself, or for a page,
\* and it is not there: whatever the processor makes of it and whatever the case
\* expects, but for a stylesheet read by w3cCompileCached.  A package, a module or
\* a document the processor opens through a resolver is its own affair: if it
\* is not there and the processor raises an error for it, the case fails unless
\* it expects an error, any, or accepts this one.
MissIsAFailure ==
  \A c \in Case :
    Ended(c) /\ \/ "missed" \in log[c].marks /\ ~Mistakes(c)
                \/ "unread" \in log[c].marks /\ ~Excused(c)
      => "failed" \in loc[c].marks

\* "a missing needed fixture fails loudly at test time"
\* (internal/suites/xslt30/xslt30.go:41).
MissingFixtureIsLoud ==
  \A c \in Case : Ended(c) /\ "missed" \in log[c].marks => "failed" \in loc[c].marks

\* A secondary result is serialized with the definition its own transform
\* delivered, though all cases store theirs in one map and may use the same
\* stylesheet, hence the same URIs.
ReadsOwnOutputDef ==
  \A c \in Case : log[c].used \subseteq {c}

\* Every case ends: with fewer tokens than runnable cases, and whichever way
\* those before it ended, a case gets its turn.
EveryCaseEnds == <>(\A c \in Case : Ended(c))
===============================================================================
