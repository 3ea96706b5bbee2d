------------------------------- MODULE QT3Catalog -------------------------------
(***************************************************************************)
(* What the suite qt3 makes of an upstream checkout: the case tables and   *)
(* the fixtures to copy (gen.go), and the counts of the manifest, which a  *)
(* second walk computes (plan.go).                                         *)
(*                                                                         *)
(* A checkout is a record: dir, top and stray say what there is of the     *)
(* source directory, its catalog.xml and another file of that name; sets,  *)
(* envs, files and refs are what these hold.                               *)
(***************************************************************************)
EXTENDS CatalogPaths

\* The assertions that may occur, with all their children: what says what is
\* asserted (of an error, its code), file names a file with the rest, or "".
CONSTANT Assertion  \* [type, what, file, children]

-------------------------------------------------------------------------------
(* Dependencies: [type, value, tokens, sat].  sat is FALSE for              *)
(* satisfied="false"; tokens are the words of a spec.                       *)

Forms == {"NFC", "NFD", "NFKC", "NFKD", "FULLY-NORMALIZED"}

IsSupportedFeature(d) ==
  \/ d.type = "unicode-normalization-form" /\ d.value \in Forms
  \/ d.type = "xsd-version" /\ d.value = "1.1"
  \/ d.type = "feature" /\ d.value \in {"fn-transform-XSLT", "fn-transform-XSLT30"}

\* XP31 itself or an open-ended version; XQuery's tokens are none of these.
XPVersionIncludes31(v) == v \in {"XP31", "XP31+", "XP30+", "XP20+", "XP10+"}

IsXPathApplicable(deps) ==
  LET specs == {d \in ToSet(deps) : d.type = "spec"} IN
  /\ \A d \in ToSet(deps) : ~d.sat => ~IsSupportedFeature(d)
  /\ specs = {} \/ \E d \in specs : d.sat /\ \E v \in d.tokens : XPVersionIncludes31(v)

\* The spec of a case replaces that of its set; the rest is concatenated.
MergeDeps(setDeps, caseDeps) ==
  LET caseHasSpec == \E d \in ToSet(caseDeps) : d.type = "spec"
  IN SelectSeq(setDeps, LAMBDA d : ~(d.type = "spec" /\ caseHasSpec)) \o caseDeps

HasFeatureDependency(deps, value) ==
  \E d \in ToSet(deps) : d.type = "feature" /\ d.sat /\ d.value = value

UnservedFeatures ==
  {"moduleImport", "collection-stability", "directory-as-collection-uri",
   "fn-load-xquery-module", "remote_http"}

SkipReasonOf(d) ==
  CASE d.sat /\ d.type = "feature" /\ d.value \in UnservedFeatures -> d.value
    [] d.sat /\ d.type = "feature" /\ d.value = "staticTyping" -> "static typing"
    [] d.sat /\ d.type = "unicode-version" /\ d.value # "15.0" -> "Unicode"
    [] d.sat /\ d.type = "xsd-version" /\ d.value = "1.0" -> "XSD 1.0"
    [] OTHER -> ""

GetSkipReason(deps) == FirstReason([i \in DOMAIN deps |-> SkipReasonOf(deps[i])])

\* Two of the five names and one of the four kinds of fn:transform gaps.
GetTestCaseSkipReason(name) ==
  CASE name \in {"fn-unparsed-text-012", "fn-unparsed-text-available-008"} -> "static typing"
    [] name = "fn-transform-22" -> "fn:transform"
    [] OTHER -> ""

\* Cases whose type error is raised without static typing, and whose result is
\* the same under XSD 1.0 and 1.1 (again one or two of the names listed).
StaticTypingRaisesDynamically(name) ==
  name \in {"fn-filter-006", "fn-unparsed-text-available-008"}
XSD10VersionNeutral(name) == name = "xs-double-005"

-------------------------------------------------------------------------------
(* Environments: [sources, schemas, collections, resources].  Sources are   *)
(* [role, file, uri, validation]; a nil environment behaves as EmptyEnv.    *)

EmptyEnv ==
  [sources |-> <<>>, schemas |-> <<>>, collections |-> <<>>, resources |-> <<>>]

\* A case has an environment of its own, or refers to one of its set, else to
\* one of the catalog; a reference to neither is nil.
ResolveEnvironment(tc, local, global) ==
  CASE tc.ref = "" -> [env |-> tc.env, global |-> FALSE]
    [] tc.ref \in DOMAIN local -> [env |-> local[tc.ref], global |-> FALSE]
    [] tc.ref \in DOMAIN global \ DOMAIN local -> [env |-> global[tc.ref], global |-> TRUE]
    [] OTHER -> [env |-> EmptyEnv, global |-> FALSE]

IsVariable(s) == s.role = "$v"

CheckEnvironmentSupport(env) ==
  IF \E s \in ToSet(env.sources) : s.role \notin {".", ""} /\ ~IsVariable(s)
  THEN "source role" ELSE ""

SchemaAwareSkip(env, hasSchema) ==
  IF ~hasSchema /\ \E s \in ToSet(env.sources) : s.validation \in {"strict", "lax"}
  THEN "XML Schema" ELSE ""

ResolveEnvSourcePath(global, dir, file) == Join(IF global THEN "." ELSE dir, file)

\* The files of a set of sources that name one.
FilesOf(sources, global, dir) ==
  {ResolveEnvSourcePath(global, dir, s.file) : s \in {t \in sources : t.file # ""}}

JsonSchema == <<"fn/json-to-xml", "schema-for-json.xsd">>

EnvSchemas(env, global, dir) ==
  FilesOf(ToSet(env.schemas), global, dir)
  \cup {JsonSchema : s \in {t \in ToSet(env.schemas) :
           t.file = "" /\ t.role = "import" /\ t.uri = "xpath-functions"}}

\* Every source of role "." is copied, the last one is the context document.
ContextSources(env) == Among(env.sources, {s \in ToSet(env.sources) : s.role = "." /\ s.file # ""})
ContextDoc(env, global, dir) ==
  IF ContextSources(env) = <<>> THEN {}
  ELSE {ResolveEnvSourcePath(global, dir, Last(ContextSources(env)).file)}

EnvVariableSources(env, global, dir) ==
  FilesOf({s \in ToSet(env.sources) : IsVariable(s)}, global, dir)

CollectionSources(env) == UNION {ToSet(c) : c \in ToSet(env.collections)}
EnvCollections(env, global, dir) == FilesOf(CollectionSources(env), global, dir)

\* What the test server serves: whatever has a file and a URI.
ResourceMap(env, global, dir) ==
  FilesOf({s \in ToSet(env.resources) \cup ToSet(env.sources) \cup CollectionSources(env) :
             s.uri # ""}, global, dir)

\* schemaLocations of the file at p; one that cannot be read has none.
SchemaLocations(src, p) ==
  IF ContainedPath(p) /\ p \in src.files \cap DOMAIN src.refs
  THEN {Join(p[1], l) : l \in src.refs[p]} ELSE {}

\* Slip: the locations in a schema that is itself included are not followed.
CollectSchemaFilesSlip(src, roots) == roots \cup UNION {SchemaLocations(src, p) : p \in roots}

\* Depth-first with a set of visited paths: all that is reached, read or not.
CollectSchemaFiles(src, roots) ==
  Reached(roots, [p \in src.files |-> SchemaLocations(src, p)])

\* Slip: the documents of collections are forgotten.
DocFilesSlip(src, env, global, dir) ==
  FilesOf(ToSet(ContextSources(env)), global, dir)
    \cup EnvVariableSources(env, global, dir)
    \cup CollectSchemaFiles(src, EnvSchemas(env, global, dir))

DocFiles(src, env, global, dir) ==
  FilesOf(ToSet(ContextSources(env)), global, dir)
    \cup EnvVariableSources(env, global, dir)
    \cup EnvCollections(env, global, dir)
    \cup CollectSchemaFiles(src, EnvSchemas(env, global, dir))

-------------------------------------------------------------------------------
(* Results.  A check is what is emitted for an assertion: "is" can fail,    *)
(* "skip" cannot, "anyOf" holds if one of its checks does.                  *)

Composite == {"all-of", "any-of"}
Unchecked == {"assert-serialization", "assert-serialization-error", "unknown"}
IsError(a) == a.type = "error"

Check(kind, what, checks) == [kind |-> kind, what |-> what, checks |-> checks]
Skip == Check("skip", "", {})

AssertionsExpectError(as) ==
  \E a \in as : IsError(a) \/ (a.type = "any-of" /\ \A c \in a.children : IsError(c))

AssertionsAcceptError(as) ==
  \E a \in as : /\ a.type = "any-of"
                /\ \E c \in a.children : IsError(c)
                /\ \E c \in a.children : ~IsError(c)

\* Inside any-of, whatever is composite or unknown holds unconditionally.
EmitCheck(a) ==
  IF a.type \in Composite \cup Unchecked THEN Skip ELSE Check("is", a.what, {})

EmitAnyOf(a) ==
  LET checks == {EmitCheck(c) : c \in {d \in a.children : ~IsError(d)}}
  IN IF checks = {} THEN {} ELSE {Check("anyOf", "", checks)}

EmitAssertion[a \in Assertion] ==
  LET all == UNION {EmitAssertion[c] : c \in a.children} IN
  CASE IsError(a) -> {}
    [] a.type \in Unchecked -> {Skip}
    [] a.type = "all-of" -> all
    [] a.type = "any-of" -> EmitAnyOf(a)
    [] OTHER -> {Check("is", a.what, {})}

EmitAssertions(as) == UNION {EmitAssertion[a] : a \in as}

\* "Can actually fail on a wrong result."
AssertionIsReal[a \in Assertion] ==
  LET real == {c \in a.children : AssertionIsReal[c]} IN
  CASE a.type \in Unchecked -> FALSE
    [] a.type = "all-of" -> real # {}
    [] a.type = "any-of" -> /\ \E c \in a.children : ~IsError(c)
                            /\ \A c \in a.children : IsError(c) \/ c \in real
    [] OTHER -> TRUE

\* Slip: an any-of counts as real only if all its branches are, errors included.
HasRealAssertionSlip(as) ==
  \E a \in as : AssertionIsReal[a] /\ a.type # "any-of"

HasRealAssertion(as) == \E a \in as : AssertionIsReal[a]

IsFalsePassRisk(skip, as) == skip = "" /\ ~AssertionsExpectError(as) /\ ~HasRealAssertion(as)

\* An assert-xml whose fragment is in a file that cannot be read, in any depth.
Unread(src, dir, a) ==
  LET p == Join(dir, a.file)
  IN a.type = "assert-xml" /\ a.file # "" /\ ~(ContainedPath(p) /\ p \in src.files)

ResolveAssertionFiles(src, dir, as) ==
  LET unread[a \in Assertion] == Unread(src, dir, a) \/ \E c \in a.children : unread[c]
  IN IF \E a \in as : unread[a] THEN "assert-xml file" ELSE ""

-------------------------------------------------------------------------------
(* The walks.  A test set is [category, path, parses, deps, envs, cases], a  *)
(* case [name, deps, ref, env, result].                                      *)

\* The set is judged before its cases may override its spec.
Applies(ts, tc) ==
  LET deps == MergeDeps(ts.deps, tc.deps) IN
  /\ IsXPathApplicable(ts.deps)
  /\ IsXPathApplicable(deps)
  /\ ~HasFeatureDependency(deps, "xpath-1.0-compatibility")

\* The first reason counts; two are lifted again for cases listed by name.
SkipReason(src, ts, tc) ==
  LET e == ResolveEnvironment(tc, ts.envs, src.envs)
      reason == FirstReason(
        <<GetSkipReason(MergeDeps(ts.deps, tc.deps)),
          GetTestCaseSkipReason(tc.name),
          CheckEnvironmentSupport(e.env),
          SchemaAwareSkip(e.env, EnvSchemas(e.env, e.global, ts.path[1]) # {})>>)
  IN IF \/ reason = "static typing" /\ StaticTypingRaisesDynamically(tc.name)
        \/ reason = "XSD 1.0" /\ XSD10VersionNeutral(tc.name)
     THEN "" ELSE reason

\* What the walk keeps of a case (what it hands through unlooked at left out).
GeneratedTest(src, ts, tc) ==
  LET e == ResolveEnvironment(tc, ts.envs, src.envs)
      dir == ts.path[1]
      skip == FirstReason(<<SkipReason(src, ts, tc), ResolveAssertionFiles(src, dir, tc.result)>>)
  IN [category |-> ts.category, name |-> tc.name, skip |-> skip,
      docs |-> ContextDoc(e.env, e.global, dir) \cup EnvVariableSources(e.env, e.global, dir)
                 \cup EnvCollections(e.env, e.global, dir),
      resources |-> ResourceMap(e.env, e.global, dir),
      schemas |-> EnvSchemas(e.env, e.global, dir),
      falsePassRisk |-> IsFalsePassRisk(skip, tc.result),
      assertions |-> tc.result]

\* What is written of it to the table of its category; the assertions themselves
\* are kept for the properties.
Row(gt) ==
  LET expectError == AssertionsExpectError(gt.assertions) IN
  [category |-> gt.category, name |-> gt.name, skip |-> gt.skip,
   docs |-> gt.docs, resources |-> gt.resources, schemas |-> gt.schemas,
   expectError |-> expectError,
   acceptError |-> ~expectError /\ AssertionsAcceptError(gt.assertions),
   checks |-> IF expectError THEN {} ELSE EmitAssertions(gt.assertions),
   falsePassRisk |-> gt.falsePassRisk, assertions |-> gt.assertions]

\* The files a row makes Fetch copy, run or skipped.
RowFiles(src, ts, tc) ==
  LET e == ResolveEnvironment(tc, ts.envs, src.envs)
      dir == ts.path[1]
  IN DocFiles(src, e.env, e.global, dir) \cup ResourceMap(e.env, e.global, dir)

\* Sets at unsafe paths are passed over; one that does not parse is fatal.
Walked(src) == Among(src.sets, {ts \in ToSet(src.sets) : ContainedPath(ts.path)})
WalkFails(src) == src.top # "good" \/ \E ts \in ToSet(Walked(src)) : ~ts.parses
Taken(ts) == Among(ts.cases, {tc \in ToSet(ts.cases) : Applies(ts, tc)})

RowsOf(src, ts) == [i \in DOMAIN Taken(ts) |-> Row(GeneratedTest(src, ts, Taken(ts)[i]))]

\* What of a checkout is a list, and what its cases assert.
IsCheckout(src) ==
  LET Envs(ts) == {tc.env : tc \in ToSet(ts.cases)} \cup Range(ts.envs) \cup Range(src.envs) IN
  /\ IsScanned(src) /\ IsList(src.sets)
  /\ \A ts \in ToSet(src.sets) :
       /\ IsList(ts.cases)
       /\ \A tc \in ToSet(ts.cases) : tc.result \subseteq Assertion
       /\ \A e \in Envs(ts) : IsList(e.sources)

CollectTests(src) ==
  IF WalkFails(src) THEN [ok |-> FALSE, rows |-> <<>>, files |-> {}]
  ELSE [ok |-> TRUE,
        rows |-> FlattenSeq([i \in DOMAIN Walked(src) |-> RowsOf(src, Walked(src)[i])]),
        files |-> UNION {UNION {RowFiles(src, ts, tc) : tc \in ToSet(Taken(ts))} :
                           ts \in ToSet(Walked(src))}]

\* Slip: the walk of the manifest does not lift the two reasons again.
PlanSkipReasonSlip(src, ts, tc) ==
  FirstReason(<<GetSkipReason(MergeDeps(ts.deps, tc.deps)), SkipReason(src, ts, tc)>>)

\* The walk of the manifest decides by the same helpers, in the same order.
PlanSkipReason(src, ts, tc) == SkipReason(src, ts, tc)

ReadCatalogPlan(src) ==
  LET all == FlattenSeq([i \in DOMAIN Walked(src) |->
                 [j \in DOMAIN Walked(src)[i].cases |-> <<Walked(src)[i], Walked(src)[i].cases[j]>>]])
      taken == {i \in DOMAIN all : Applies(all[i][1], all[i][2])}
      runnable == {i \in taken : PlanSkipReason(src, all[i][1], all[i][2]) = ""}
  IN CASE ReadCatalogInfo(src) = "none" -> NoPlan
       [] ReadCatalogInfo(src) = "fails" -> [NoPlan EXCEPT !.ok = FALSE]
       [] ReadCatalogInfo(src) = "found" /\ WalkFails(src) -> [NoPlan EXCEPT !.ok = FALSE]
       [] OTHER -> [ok |-> TRUE, cases |-> Len(all), runnable |-> Cardinality(runnable),
                    skipped |-> Cardinality(taken \ runnable), excluded |-> Cardinality(DOMAIN all \ taken)]

-------------------------------------------------------------------------------
(* The harness *)

Holds(check, o) ==
  CASE check.kind = "skip" -> TRUE
    [] check.kind = "is" -> check.what \in o.holds
    [] check.kind = "anyOf" -> \E c \in check.checks : c.kind = "skip" \/ c.what \in o.holds

\* Slip: a result where an error is expected is only noted.
PassesSlip(row, o) ==
  IF o.error # "" THEN row.expectError \/ row.acceptError
  ELSE \A c \in row.checks : Holds(c, o)

\* qt3CheckResult: which error it is does not matter.
Passes(row, o) ==
  IF o.error # "" THEN row.expectError \/ row.acceptError
  ELSE ~row.expectError /\ \A c \in row.checks : Holds(c, o)

\* expectations/qt3.json lists cases by name: [skip, xfail].  An entry that names
\* no case, or an expected failure that would be skipped, ends the suite at once.
Named(rows, n) == {r \in ToSet(rows) : r.name = n}

\* Slip: an expected failure may be one the generator skips.
ValidExpectationsSlip(exp, rows) ==
  /\ \A n \in exp.skip \cup exp.xfail : Named(rows, n) # {}
  /\ exp.skip \cap exp.xfail = {}

ValidExpectations(exp, rows) ==
  /\ \A n \in exp.skip \cup exp.xfail : Named(rows, n) # {}
  /\ exp.skip \cap exp.xfail = {}
  /\ \A n \in exp.xfail : \A r \in Named(rows, n) : r.skip = ""

\* What comes before the expression of a case is looked at: its documents,
\* parameters and queries of collections are "fatal" to it; a schema that does
\* not compile, or a source it does not validate, makes it "skip".  (Rows have
\* no parameters here, so any case may fail.)
SetUps(row) == {"ready", "fatal"} \cup (IF row.schemas = {} THEN {} ELSE {"skip"})

\* Slip: what fails before the expression counts for an expected failure too.
RunCaseSlip(row, listed, setUp, o) ==
  LET passes == setUp = "ready" /\ Passes(row, o) IN
  CASE "skip" \in listed \/ row.skip # "" \/ setUp = "skip" -> "skip"
    [] OTHER -> IF passes # ("xfail" \in listed) THEN "pass" ELSE "fail"

\* One subtest of qt3RunTests, with the inversion by qt3RunXFail; what is listed
\* of its name is a subset of {"skip", "xfail"}.
RunCase(row, listed, setUp, o) ==
  CASE "skip" \in listed \/ row.skip # "" -> "skip"
    [] OTHER ->
         CASE setUp = "fatal" -> "fail"
           [] setUp = "skip" -> "skip"
           [] setUp = "ready" ->
                IF Passes(row, o) # ("xfail" \in listed) THEN "pass" ELSE "fail"

-------------------------------------------------------------------------------
(* What a result element says of an outcome, as the suite defines it, and   *)
(* the shapes in which the emitted checks must say no more and no less.     *)

Accepts(as, o) ==
  LET accepts[a \in Assertion] ==
        LET accepted == {c \in a.children : accepts[c]} IN
        CASE IsError(a) -> o.error # ""
          [] a.type = "all-of" -> accepted = a.children
          [] a.type = "any-of" -> accepted # {}
          [] OTHER -> o.error = "" /\ a.what \in o.holds
  IN \A a \in as : accepts[a]

Within[a \in Assertion] == {a} \cup UNION {Within[c] : c \in a.children}
Errors(a) == {b \in Within[a] : IsError(b)}

\* Errors are outermost, or alternatives there, and no all-of is empty.
FairTo(row, o) ==
  \A a \in row.assertions :
    LET fair(b) ==
          /\ b.type = "all-of" => b.children # {}
          /\ IsError(b) => b = a \/ (a.type = "any-of" /\ b \in a.children)
    IN (\A b \in Within[a] : fair(b)) /\ Accepts({a}, o) => row.assertions # {a}

\* Nothing left unchecked, nothing composite below any-of.
StrictOn(row, o) ==
  \A a \in row.assertions :
    LET strict(b) ==
          /\ b.type \notin Unchecked
          /\ b.type \in Composite => b.children # {}
          /\ b.type = "all-of" => Errors(b) = {}
          /\ b.type = "any-of" => \A c \in b.children : c.type \notin Composite \cup Unchecked
    IN row.assertions = {a} /\ (\A b \in Within[a] : strict(b)) => Accepts({a}, o)
=================================================================================
