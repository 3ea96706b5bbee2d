------------------------------- MODULE XSLTCatalog -------------------------------
(***************************************************************************)
(* What the suite xslt30 makes of an upstream checkout (gen.go, plan.go),  *)
(* and what its harness makes of the checks in a row of its tables.        *)
(*                                                                         *)
(* A checkout is as in QT3Catalog, without global environments; refs lists *)
(* in order what a file refers to: [kind, to], where kind is "href" of an  *)
(* import or include, "schema" of xsl:import-schema, "location" in a       *)
(* schema, "document" of a literal xsl:source-document.                    *)
(***************************************************************************)
EXTENDS CatalogPaths

CONSTANTS
  Assertion,       \* as in QT3Catalog, but children are a sequence
  StrmUnlockLimit  \* how many cases of the category strm run

-------------------------------------------------------------------------------
(* Dependencies: [type, value, tokens, sat]; sat is "" where not given.     *)

Versions == {"XSLT10", "XSLT20", "XSLT10+", "XSLT20+", "XSLT30", "XSLT30+"}

SpecSupported(tokens) == tokens \cap Versions # {}
FeatureSupported(feature) == feature \notin {"Saxon-PE", "Saxon-EE"}
YearComponentValueSupported(value) ==
  value \in {"support negative year", "support year above 9999", "support year zero"}

\* What is to be absent is skipped if it is there, and the other way round.
Contradicts(d, supported) == IF d.sat = "false" THEN supported ELSE ~supported

DependencyFails(d) ==
  \/ d.type = "spec" /\ ~SpecSupported(d.tokens)
  \/ d.type = "feature" /\ Contradicts(d, FeatureSupported(d.value))
  \/ d.type = "year_component_values" /\ Contradicts(d, YearComponentValueSupported(d.value))
  \/ d.type = "enable_assertions" /\ d.sat = "false"
  \/ d.type = "ignore_doc_failure" /\ d.sat = "true"

GetDepsSkipReason(deps) ==
  FirstReason([i \in DOMAIN deps |-> IF DependencyFails(deps[i]) THEN deps[i].type ELSE ""])

GetSetSkipReason(name, deps) ==
  IF name = "load-xquery-module" THEN name ELSE GetDepsSkipReason(deps)

GetCaseSkipReason(setDeps, caseDeps) ==
  FirstReason(<<GetDepsSkipReason(setDeps), GetDepsSkipReason(caseDeps)>>)

\* A case's own dependency counts before that of its set.
Asks(deps, type, value) == \E d \in ToSet(deps) : d.type = type /\ d.value = value
GetOnMultipleMatch(setDeps, caseDeps) ==
  IF Asks(caseDeps \o setDeps, "on-multiple-match", "error") THEN "fail" ELSE ""
GetVersionResolution(setDeps, caseDeps) ==
  IF Asks(caseDeps \o setDeps, "package_version_resolution", "lowest_version") THEN "lowest" ELSE ""

HasFeatureDep(deps, feature) ==
  \E d \in ToSet(deps) : d.type = "feature" /\ d.value = feature /\ d.sat # "false"
IsSchemaAware(deps) ==
  HasFeatureDep(deps, "schema_aware") \/ HasFeatureDep(deps, "schema-aware")

IsExcludedTestCase(name) == name = "unicode90-1"  \* for the prefix

-------------------------------------------------------------------------------
(* Files.  A reference to nothing, or out of the suite, is no reference.  A *)
(* fragment is cut off what the catalog or an xsl:source-document refers to; *)
(* with any other reference the search for dependencies takes it for a part *)
(* of the name, and only the copying of the files does without it.          *)

Bare == [f \in {"a#f"} |-> "a"]
NormalizeAssetPath(f) == IF f \in DOMAIN Bare THEN Bare[f] ELSE f

CatalogRelPaths(dir, refs) ==
  LET path(r) == Join(dir, NormalizeAssetPath(r.file))
      safe == Among(refs, {r \in ToSet(refs) : r.file # "" /\ ContainedPath(path(r))})
  IN [i \in DOMAIN safe |-> path(safe[i])]

\* Where a reference in the stylesheet or schema at p leads.
ResolveDep(p, r) == Join(p[1], IF r.kind = "document" THEN NormalizeAssetPath(r.to) ELSE r.to)

\* What copyAssets takes for the files recorded.
Assets(files) == {<<p[1], NormalizeAssetPath(p[2])>> : p \in files}

\* Slip: what a schema reached through xsl:import-schema includes is left out.
FollowedSlip(as, kind) == as = "sheet" /\ kind # "document"

\* A stylesheet is followed in all it refers to, a schema in its locations.
Followed(as, kind) == kind # "document" /\ (as = "sheet" \/ kind = "location")
As(kind) == IF kind = "href" THEN "sheet" ELSE "schema"

Refs(src, p) == IF p \in src.files \cap DOMAIN src.refs THEN src.refs[p] ELSE <<>>

\* One call of collectDepsRecursive or collectSchemaDeps: they share one set of
\* visited files, and a file found is recorded before it is looked into.
Visit(src, s) ==
  LET p == Head(s.calls).path
      as == Head(s.calls).as
      fresh == {r \in ToSet(Refs(src, p)) :
                  (as = "sheet" \/ r.kind = "location") /\ ContainedPath(ResolveDep(p, r))}
      followed == Among(Refs(src, p), {r \in fresh : Followed(as, r.kind)})
      calls == [i \in DOMAIN followed |->
                 [path |-> ResolveDep(p, followed[i]), as |-> As(followed[i].kind)]]
  IN IF s.calls = <<>> THEN s
     ELSE IF p \in s.visited THEN [s EXCEPT !.calls = Tail(@)]
     ELSE [calls |-> calls \o Tail(s.calls), visited |-> s.visited \cup {p},
           deps |-> s.deps \cup {ResolveDep(p, r) : r \in fresh}]

CollectTransitiveDeps(src, p) ==
  LET bound == 1 + Cardinality(UNION {{f} \X DOMAIN src.refs[f] : f \in DOMAIN src.refs})
      after[n \in Nat] ==
        IF n = 0 THEN [calls |-> <<[path |-> p, as |-> "sheet"]>>, visited |-> {}, deps |-> {}]
        ELSE Visit(src, after[n - 1])
  IN after[bound].deps

WithDeps(src, paths) == paths \cup UNION {CollectTransitiveDeps(src, p) : p \in paths}

-------------------------------------------------------------------------------
(* Environments: [sheets, packages, sources, schemas, collections], each a  *)
(* sequence of [file, role] (sources: and embeds, for defines-stylesheet);  *)
(* the test of a case has sheets and packages of its own.                   *)

EmptyEnv ==
  [sheets |-> <<>>, packages |-> <<>>, sources |-> <<>>, schemas |-> <<>>, collections |-> <<>>]

ResolveEnvironment(tc, local) ==
  CASE tc.ref = "" -> tc.env
    [] tc.ref \in DOMAIN local -> local[tc.ref]
    [] OTHER -> EmptyEnv

Role(refs, roles) == Among(refs, {r \in ToSet(refs) : r.role \in roles})
NotRole(refs, role) == Among(refs, {r \in ToSet(refs) : r.role # role})

First(paths) == {paths[i] : i \in DOMAIN paths \cap {1}}
Final(paths) == {paths[i] : i \in DOMAIN paths \cap {Len(paths)}}
Lone(dir, refs) == IF Len(refs) = 1 THEN ToSet(CatalogRelPaths(dir, refs)) ELSE {}
Else(a, b) == IF a # {} THEN a ELSE b

Embeds(env) == \E s \in ToSet(env.sources) : s.role = "." /\ s.embeds

\* The principal stylesheet: the last one that is not secondary, the first
\* principal package, a lone one whatever its role; first among those of the
\* test, then of the environment.
TestSheet(dir, test) ==
  Else(Else(Final(CatalogRelPaths(dir, NotRole(test.sheets, "secondary"))),
            First(CatalogRelPaths(dir, Role(test.packages, {"principal"})))),
       Lone(dir, test.sheets))
EnvSheet(dir, env) ==
  Else(Else(Final(CatalogRelPaths(dir, NotRole(env.sheets, "secondary"))),
            IF Embeds(env) THEN {} ELSE Lone(dir, env.sheets)),
       First(CatalogRelPaths(dir, Role(env.packages, {"principal"}))))
StylesheetPath(dir, test, env) == Else(TestSheet(dir, test), EnvSheet(dir, env))

\* Those of the environment only where the test names no principal one.
SecondaryStylesheets(dir, test, env) ==
  ToSet(CatalogRelPaths(dir, Role(test.sheets, {"secondary"})))
  \cup IF TestSheet(dir, test) # {} THEN {}
       ELSE ToSet(CatalogRelPaths(dir, Role(env.sheets, {"secondary"})))

PackageDeps(dir, test, env) ==
  ToSet(CatalogRelPaths(dir, NotRole(test.packages, "principal")
                               \o Role(env.packages, {"secondary", ""})))

SourceDocPath(dir, env) == Final(CatalogRelPaths(dir, Role(env.sources, {"."})))

\* Copied for a case, whatever its row says of them.
EnvDocs(dir, env) ==
  ToSet(CatalogRelPaths(dir, env.sources \o env.schemas \o env.collections))
CatalogFileRefs(dir, e) == ToSet(CatalogRelPaths(dir, e.sheets \o e.packages))

-------------------------------------------------------------------------------
(* Results.  A check is [kind, what, checks].                               *)

Texts == {"assert-xml", "assert-string-value", "assert", "assert-serialization",
          "serialization-matches"}
Typed == {"assert-type", "assert-count", "assert-deep-eq", "assert-eq"}
Raw == Typed \cup {"assert-empty"}
Files == {"assert-xml", "assert-serialization"}

IsError(a) == a.type \in {"error", "assert-serialization-error"}
Check(kind, what, checks) == [kind |-> kind, what |-> what, checks |-> checks]
Skip == Check("skip", "", <<>>)

\* A file of an assertion that cannot be read ends the whole walk.
Unreadable(src, dir, as) ==
  LET unread[a \in Assertion] ==
        \/ /\ a.type \in Files /\ a.file # ""
           /\ ~(ContainedPath(Join(dir, a.file)) /\ Join(dir, a.file) \in src.files)
        \/ \E c \in ToSet(a.children) : unread[c]
  IN \E a \in ToSet(as) : unread[a]

\* A nested assert-result-document is among the kinds that are never checked.
EmitCheck[a \in Assertion] ==
  LET checks == [i \in DOMAIN a.children |-> EmitCheck[a.children[i]]] IN
  CASE IsError(a) -> Check("error", a.what, <<>>)
    [] a.type \in Texts \cup Raw -> Check(a.type, a.what, <<>>)
    [] a.type \in {"all-of", "any-of"} -> Check(a.type, "", checks)
    [] a.type \in {"assert-message", "not"} /\ checks # <<>> -> Check(a.type, "", checks)
    [] OTHER -> Skip

EmitChecks(as) == [i \in DOMAIN as |-> EmitCheck[as[i]]]

EmitAnyOf(a) ==
  LET checks == EmitChecks(Among(a.children, {c \in ToSet(a.children) : ~IsError(c)}))
  IN IF checks = <<>> THEN <<>> ELSE <<Check("any-of", "", checks)>>

\* What cannot be checked is dropped beside something that can.
DropSkips(checks) ==
  LET real == Among(checks, ToSet(checks) \ {Skip}) IN IF real = <<>> THEN checks ELSE real

EmitAssertion[a \in Assertion] ==
  LET all == FlattenSeq([i \in DOMAIN a.children |-> EmitAssertion[a.children[i]]]) IN
  CASE IsError(a) -> <<>>
    [] a.type \in Texts \cup Raw -> <<Check(a.type, a.what, <<>>)>>
    [] a.type = "all-of" -> DropSkips(all)
    [] a.type = "any-of" -> EmitAnyOf(a)
    [] a.type = "assert-message" /\ a.children = <<>> -> <<>>
    [] a.type \in {"assert-message", "not", "assert-result-document"} /\ a.children # <<>> ->
         <<Check(a.type, "", EmitChecks(a.children))>>
    [] OTHER -> <<Skip>>

EmitAssertions(as) == DropSkips(FlattenSeq([i \in DOMAIN as |-> EmitAssertion[as[i]]]))

\* One assertion alone decides whether an error is expected, or accepted.
Errors(a) == Among(a.children, {c \in ToSet(a.children) : IsError(c)})

\* Slip: one error among alternatives is enough.
ExpectErrorSlip(as) == Len(as) = 1 /\ (IsError(as[1]) \/ (as[1].type = "any-of" /\ Errors(as[1]) # <<>>))

ExpectError(as) ==
  /\ Len(as) = 1
  /\ IsError(as[1]) \/ (as[1].type = "any-of" /\ \A c \in ToSet(as[1].children) : IsError(c))
ErrorCode(as) ==
  IF ~ExpectError(as) THEN "" ELSE Head(Append(Errors(as[1]), as[1])).what
AcceptErrors(as) ==
  IF Len(as) = 1 /\ ~ExpectError(as) /\ as[1].type = "any-of"
  THEN {e.what : e \in ToSet(Errors(as[1]))} \ {""} ELSE {}

ClassifyUnsupportedAssertions(as) ==
  IF ~ExpectError(as) /\ ToSet(EmitAssertions(as)) = {Skip} THEN "unsupported assertion" ELSE ""

ClassifySchemaTypeChecking(as, schemaAware) ==
  IF schemaAware /\ ErrorCode(as) = "XXXX9999" THEN "placeholder" ELSE ""

-------------------------------------------------------------------------------
(* The walks.  A test set is [category, name, path, parses, deps, envs,     *)
(* cases], a case [name, deps, ref, env, test, result].                     *)

Walked(src) ==
  Among(src.sets, {ts \in ToSet(src.sets) : ts.name # "catalog" /\ ContainedPath(ts.path)})

DependencySkip(ts, tc) ==
  FirstReason(<<GetSetSkipReason(ts.name, ts.deps), GetCaseSkipReason(ts.deps, tc.deps)>>)

\* Cases in the order of the walk; of those counted for it, those of strm run up to
\* the limit.
CasesOf(sets) ==
  FlattenSeq([i \in DOMAIN sets |->
    [j \in DOMAIN sets[i].cases |-> [set |-> sets[i], tc |-> sets[i].cases[j]]]])
Unlocks(c) == c.set.category = "strm" /\ DependencySkip(c.set, c.tc) = ""
GatedSkip(cases, i, counted) ==
  IF Unlocks(cases[i]) /\ Cardinality({j \in counted \cap 1..i : Unlocks(cases[j])}) > StrmUnlockLimit
  THEN "streaming test suite disabled"
  ELSE DependencySkip(cases[i].set, cases[i].tc)

\* What the walk keeps of a case (what it hands through unlooked at left out).
GeneratedTest(ts, tc, gated) ==
  LET dir == ts.path[1]
      env == ResolveEnvironment(tc, ts.envs)
      sheet == StylesheetPath(dir, tc.test, env)
      aware == IsSchemaAware(ts.deps) \/ IsSchemaAware(tc.deps)
  IN [category |-> ts.category, name |-> tc.name,
      skip |-> IF sheet = {} /\ ~Embeds(env) THEN "no stylesheet"
               ELSE FirstReason(<<gated, ClassifyUnsupportedAssertions(tc.result),
                                  ClassifySchemaTypeChecking(tc.result, aware)>>),
      sheets |-> sheet \cup SecondaryStylesheets(dir, tc.test, env) \cup PackageDeps(dir, tc.test, env),
      docs |-> SourceDocPath(dir, env) \cup ToSet(CatalogRelPaths(dir, env.collections \o env.schemas)),
      onMultipleMatch |-> GetOnMultipleMatch(ts.deps, tc.deps),
      versionResolution |-> GetVersionResolution(ts.deps, tc.deps),
      assertions |-> tc.result]

\* What is written of it to the table of its category.
Row(gt) ==
  [category |-> gt.category, name |-> gt.name, skip |-> gt.skip,
   sheets |-> gt.sheets, docs |-> gt.docs,
   onMultipleMatch |-> gt.onMultipleMatch, versionResolution |-> gt.versionResolution,
   expectError |-> ExpectError(gt.assertions),
   errorCode |-> ErrorCode(gt.assertions),
   acceptErrors |-> AcceptErrors(gt.assertions),
   checks |-> IF ExpectError(gt.assertions) THEN <<>> ELSE EmitAssertions(gt.assertions),
   assertions |-> gt.assertions]

\* Slip: a secondary stylesheet is copied without what it imports.
CaseFilesSlip(src, ts, tc) ==
  LET dir == ts.path[1]
      env == ResolveEnvironment(tc, ts.envs)
  IN WithDeps(src, StylesheetPath(dir, tc.test, env))
       \cup SecondaryStylesheets(dir, tc.test, env) \cup PackageDeps(dir, tc.test, env)
       \cup EnvDocs(dir, env)

\* Excluded cases are copied for, too.
CaseFiles(src, ts, tc) ==
  LET dir == ts.path[1]
      env == ResolveEnvironment(tc, ts.envs)
  IN WithDeps(src, StylesheetPath(dir, tc.test, env) \cup SecondaryStylesheets(dir, tc.test, env)
                     \cup PackageDeps(dir, tc.test, env)
                     \cup ToSet(CatalogRelPaths(dir, tc.test.packages)))
       \cup CatalogFileRefs(dir, tc.test) \cup CatalogFileRefs(dir, tc.env) \cup EnvDocs(dir, env)

\* Sets whose cases read files by name at run time: the whole directory.
TreeSets == {"regex-classes", "json-to-xml", "xml-to-json", "unparsed-text", "base-uri",
             "resolve-uri", "document", "accumulator"}
Underscored == {"_set"}

SetFiles(src, ts) ==
  (UNION {WithDeps(src, CatalogFileRefs(ts.path[1], e)) \cup EnvDocs(ts.path[1], e) : e \in Range(ts.envs)})
  \cup IF ts.name \notin TreeSets THEN {}
       ELSE {p \in src.files : p[1] = ts.path[1] /\ p[2] \notin Underscored}

WalkFails(src) ==
  \/ src.top # "good"
  \/ \E ts \in ToSet(Walked(src)) :
       ~ts.parses \/ \E tc \in ToSet(ts.cases) : Unreadable(src, ts.path[1], tc.result)

CollectTests(src) ==
  LET cases == CasesOf(Walked(src))
      row(i) == Row(GeneratedTest(cases[i].set, cases[i].tc, GatedSkip(cases, i, DOMAIN cases)))
      all == [i \in DOMAIN cases |-> row(i)]
  IN IF WalkFails(src) THEN [ok |-> FALSE, rows |-> <<>>, files |-> {}]
     ELSE [ok |-> TRUE,
           rows |-> Among(all, {r \in ToSet(all) : ~IsExcludedTestCase(r.name)}),
           files |-> {<<".", "catalog.xml">>}
             \cup (UNION {SetFiles(src, ts) : ts \in ToSet(Walked(src))})
             \cup UNION {CaseFiles(src, c.set, c.tc) : c \in ToSet(cases)}]

\* One asset has another file's content.
AssetSource == [p \in {<<"import", "inline.xsd">>} |-> <<"import", "s">>]
Available(src, p) == (IF p \in DOMAIN AssetSource THEN AssetSource[p] ELSE p) \in src.files

\* A case left out of the tables is one of the streaming ones.
StrmExcluded(src) ==
  \E ts \in ToSet(src.sets) :
    ts.category = "strm" /\ \E tc \in ToSet(ts.cases) : IsExcludedTestCase(tc.name)

\* What is a list of a checkout, whose files are all below its root and have names
\* that a reference can give without its being a fragment.  No file is
\* both a stylesheet and a schema: whatever refers to it has it as the same, so one
\* set of visited files will do for both.
Kinds == {"href", "schema", "location", "document"}
IsCheckout(src) ==
  LET Envs(ts) == {tc.env : tc \in ToSet(ts.cases)} \cup Range(ts.envs)
      Targets(kinds) == UNION {{ResolveDep(p, r) : r \in {t \in ToSet(Refs(src, p)) : t.kind \in kinds}} : p \in src.files}
  IN /\ IsScanned(src) /\ IsList(src.sets)
     /\ \A ts \in ToSet(src.sets) :
          /\ IsList(ts.cases)
          /\ \A tc \in ToSet(ts.cases) : IsList(tc.result) /\ ToSet(tc.result) \subseteq Assertion
          /\ \A e \in Envs(ts) : IsList(e.sources) /\ IsList(e.schemas) /\ IsList(e.collections)
     /\ \A p \in src.files : p = <<p[1], p[2]>> /\ ContainedPath(p) /\ p[2] \notin DOMAIN Bare
     /\ IsFiniteSet(DOMAIN src.refs)
     /\ \A p \in DOMAIN src.refs : IsList(src.refs[p]) /\ \A r \in ToSet(src.refs[p]) : r.kind \in Kinds
     /\ src.files \cap Targets({"href"}) \cap Targets({"schema", "location"}) = {}
     /\ \A p \in src.files : Available(src, p)

\* The walk of the manifest reads the catalog the scan has found, counts the
\* set "catalog" as excluded, and knows the dependencies and the limit only.
ReadCatalogPlan(src) ==
  LET listed == IF src.stray = "absent" THEN src.sets ELSE <<>>
      sets == Among(listed, {ts \in ToSet(listed) : ContainedPath(ts.path)})
      cases == CasesOf(Among(listed, {ts \in ToSet(listed) : ts.name # "catalog" /\ ContainedPath(ts.path)}))
      taken == {i \in DOMAIN cases : ~IsExcludedTestCase(cases[i].tc.name)}
      skipped == {i \in taken : GatedSkip(cases, i, taken) # ""}
      all == Len(CasesOf(sets))
  IN CASE ReadCatalogInfo(src) = "none" -> NoPlan
       [] ReadCatalogInfo(src) = "fails" -> [NoPlan EXCEPT !.ok = FALSE]
       [] ReadCatalogInfo(src) = "found" /\ \E ts \in ToSet(sets) : ~ts.parses ->
            [NoPlan EXCEPT !.ok = FALSE]
       [] OTHER -> [ok |-> TRUE, cases |-> all, runnable |-> Cardinality(taken \ skipped),
                    skipped |-> Cardinality(skipped), excluded |-> all - Cardinality(taken)]
-------------------------------------------------------------------------------
(* The harness.  The checks of typed values look at the raw result of the    *)
(* transform, where there is one, or at each message; the others at a text.   *)

Emitted == {EmitCheck[a] : a \in Assertion}

HasRawFn[c \in Emitted] ==
  LET some == \E d \in ToSet(c.checks) : HasRawFn[d]
  IN c.kind \in Raw \/ (c.kind \in {"all-of", "any-of"} /\ some)
HasDocFn[c \in Emitted] ==
  LET some == \E d \in ToSet(c.checks) : HasDocFn[d]
  IN c.kind = "assert" \/ (c.kind = "all-of" /\ some)

\* What a check says of an outcome: through c.rawFn of the raw result or a message,
\* through c.fn of a text with the messages beside it, without them ("unsaid"), and
\* of no text at all.  In raw mode all-of passes over what has no rawFn, and any-of
\* shows it no text; in a message every check is tried on each message by itself.
Views == {"raw", "text", "unsaid", "nothing"}
Meets(o) ==
  LET meets[c \in Emitted] ==
        LET met == [d \in ToSet(c.checks) |-> meets[d]]
            every(v) == \A d \in DOMAIN met : met[d][v]
            some(v) == \E d \in DOMAIN met : met[d][v]
            rawFn == CASE c.kind = "all-of" -> \A d \in DOMAIN met : HasRawFn[d] => met[d]["raw"]
                       [] c.kind = "any-of" -> \E d \in DOMAIN met : met[d][IF HasRawFn[d] THEN "raw" ELSE "nothing"]
                       [] OTHER -> c.what \in o.holds
            message(v) == \A d \in DOMAIN met :
              IF HasRawFn[d] THEN v = "text" /\ met[d]["raw"] ELSE met[d][IF v = "text" THEN "text" ELSE "nothing"]
            fn(v) == CASE c.kind = "skip" -> TRUE
                       [] c.kind = "error" \/ c.kind \in Typed -> FALSE
                       [] c.kind = "all-of" -> every(v)
                       [] c.kind = "any-of" -> some(v)
                       [] c.kind = "not" -> ~some(v)
                       [] c.kind = "assert-message" -> message(v)
                       [] OTHER -> v # "nothing" /\ c.what \in o.holds
        IN [v \in Views |-> IF v = "raw" THEN HasRawFn[c] /\ rawFn ELSE fn(v)]
  IN meets

\* A typed assertion has a RawCheck only: without a raw result nothing is asked.
\* The RawCheck of any-of hands no messages on, nor does what reads a document.
Holds(c, o) ==
  LET checks == ToSet(c.checks)
      typed == o.raw /\ \E d \in checks : HasRawFn[d]
      meets(d, v) == Meets(o)[d][v]
  IN CASE c.kind \in Raw -> o.raw => c.what \in o.holds
       [] c.kind = "any-of" -> \E d \in checks :
            meets(d, CASE ~typed -> "text" [] typed /\ HasRawFn[d] -> "raw" [] OTHER -> "unsaid")
       [] c.kind = "assert-message" -> \A d \in checks : meets(d, IF HasRawFn[d] THEN "raw" ELSE "text")
       [] c.kind = "not" -> \A d \in checks : ~meets(d, "text")
       [] c.kind = "assert-result-document" -> \A d \in checks : meets(d, IF HasDocFn[d] THEN "unsaid" ELSE "text")
       [] OTHER -> c.what \in o.holds

\* w3cRunOne on the whole: which error is expected is not looked at, and the one
\* for what is not streamable need not occur.
Passes(row, o) ==
  IF o.error # "" THEN row.expectError \/ o.error \in row.acceptErrors
  ELSE \/ row.errorCode = "XTSE3430"
       \/ ~row.expectError /\ \A c \in ToSet(row.checks) : Holds(c, o)

-------------------------------------------------------------------------------
(* What a result element says of an outcome, as the suite defines it, and   *)
(* the shapes in which the emitted checks must say no more and no less.     *)

Accepts(as, o) ==
  LET accepts[a \in Assertion] ==
        LET accepted == {c \in ToSet(a.children) : accepts[c]}
            every == accepted = ToSet(a.children)
        IN CASE IsError(a) -> o.error # "" /\ a.what \in {o.error, ""}
             [] a.type = "all-of" -> every
             [] a.type = "any-of" -> accepted # {}
             [] a.type \in {"assert-message", "assert-result-document"} -> o.error = "" /\ every
             [] a.type = "not" -> o.error = "" /\ accepted = {}
             [] OTHER -> o.error = "" /\ a.what \in o.holds
  IN \A a \in ToSet(as) : accepts[a]

Groups == {"all-of", "any-of", "not", "assert-message", "assert-result-document"}
Within[a \in Assertion] == {a} \cup UNION {Within[c] : c \in ToSet(a.children)}
TypesIn(a) == {b.type : b \in Within[a]}

\* What all-of asks at once is emitted one by one.
Parts[a \in Assertion] ==
  LET parts == UNION {Parts[c] : c \in ToSet(a.children)} IN IF a.type = "all-of" THEN parts ELSE {a}

\* Nothing in it is passed over by emitCheck, or by emitAssertion.
Checked(a) ==
  \A b \in Within[a] : b.type \in Texts \cup Raw \cup (Groups \ {"assert-result-document"}) \/ IsError(b)
WhollyChecked(a) ==
  \A b \in Parts[a] : /\ b.type \in Texts \cup Raw \cup Groups \/ IsError(b)
                      /\ \A c \in ToSet(b.children) : Checked(c)

\* A part is judged by a text, or each of its alternatives either by the raw value
\* alone or by the text alone, and not by messages.
Untangled(a, o) ==
  LET raw(b) == TypesIn(b) \subseteq Raw \cup {"all-of", "any-of"}
      text(b) == TypesIn(b) \cap (Raw \cup {"assert-message"}) = {}
  IN \/ TypesIn(a) \cap Raw = {} /\ (a.type = "assert-result-document" => text(a))
     \/ /\ a.type \in Raw \cup {"any-of", "assert-message"}
        /\ \A c \in ToSet(a.children) : raw(c) \/ text(c)
        /\ o.raw \/ a.type = "assert-message"

\* Groups, and they alone, have something in them; errors are outermost, or
\* alternatives there, with a code beside others.
Regular(a, o) ==
  LET alternative(b) == a.type = "any-of" /\ b \in ToSet(a.children) /\ (b.what # "" \/ ExpectError(<<a>>))
  IN /\ \A b \in Within[a] : IsError(b) => b = a \/ alternative(b)
     /\ \A b \in Within[a] : b.type \in Groups <=> b.children # <<>>
     /\ \A b \in Within[a] : b.type = "not" => Checked(b)
     /\ \A b \in Parts[a] : Untangled(b, o)

FairTo(row, o) ==
  Len(row.assertions) = 1 /\ Regular(row.assertions[1], o) => ~Accepts(row.assertions, o)

\* Nothing is left unchecked.  Where only errors are accepted any will do.
StrictOn(row, o) ==
  LET a == row.assertions[1] IN
  /\ Len(row.assertions) = 1 /\ Regular(a, o) /\ WhollyChecked(a)
  => Accepts(row.assertions, o) \/ (row.expectError /\ (o.error # "" \/ row.errorCode = "XTSE3430"))
=================================================================================
