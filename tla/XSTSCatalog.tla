------------------------------ MODULE XSTSCatalog ------------------------------
(***************************************************************************)
(* The catalog of the XML Schema suite and its two readers: w3cgen makes   *)
(* the tables of XSD 1.1 and the list of fixtures off the checkout         *)
(* (xsd11/catalog.go), the harness of XSD 1.0 reads its cases off testdata *)
(* when it runs (xsd10_harness_test.go).                                   *)
(*                                                                         *)
(* A path is the sequence of its names.  A checkout is a record: top says  *)
(* whether suite.xml can be parsed, sets are the sets it refers to, files  *)
(* what there is, and refs the schema locations in a file, of the form     *)
(* [kind |-> "one", uri] or [kind |-> "pairs", pairs].                     *)
(***************************************************************************)
EXTENDS CatalogPaths

SuiteXML == <<"suite.xml">>

ResolveRel(dir, href) == Clean(dir \o href)

\* xsi:schemaLocation lists namespaces and locations by turns.
Tokens(a) == IF a.kind = "one" THEN <<a.uri>> ELSE FlattenSeq(a.pairs)

LocationURIs(tokens) ==
  IF Len(tokens) = 1 THEN ToSet(tokens) ELSE {tokens[i] : i \in {j \in DOMAIN tokens : j % 2 = 0}}

SchemaRefs(src, p) ==
  IF p \notin DOMAIN src.refs THEN {}
  ELSE {ResolveRel(Front(p), u) : u \in {v \in UNION {LocationURIs(Tokens(a)) : a \in src.refs[p]} : ~IsURL(v)}}

\* What exists of rels and of all they refer to, step by step.
SchemaClosure(src, rels) ==
  LET There(s) == {p \in s : ContainedPath(p) /\ p \in src.files}
  IN Reached(There(rels), [p \in src.files |-> There(SchemaRefs(src, p))])

-------------------------------------------------------------------------------
(* Groups: [name, version, docs, expected, instances], where docs = <<>>    *)
(* when there is no schemaTest; instances are [doc, expected] and an        *)
(* expectation is [validity, version].                                      *)

Is11(g, set) == "1.1" \in {g.version, set.version}
HasExpected11(exps) == \E e \in ToSet(exps) : e.version = "1.1"
Applies11(g, set) ==
  \/ Is11(g, set)
  \/ HasExpected11(g.expected)
  \/ \E it \in ToSet(g.instances) : HasExpected11(it.expected)
Applies10(g, set) == ~Is11(g, set)

\* Slip: the first expectation counts.
PickValiditySlip(exps, version) ==
  LET chosen == Head(Append(exps, [validity |-> "none", version |-> ""]))
  IN IF chosen.validity \in {"valid", "invalid"} THEN chosen.validity ELSE "none"

\* The expectation for the version, else one for all, else the first.
PickValidity(exps, version) ==
  LET For(v) == Among(exps, {e \in ToSet(exps) : e.version = v})
      chosen == Head(For(version) \o For("") \o Append(exps, [validity |-> "none", version |-> ""]))
  IN IF chosen.validity \in {"valid", "invalid"} THEN chosen.validity ELSE "none"

Docs(set, g) == [i \in DOMAIN g.docs |-> ResolveRel(Front(set.href), g.docs[i])]
Rel(set, it) == ResolveRel(Front(set.href), it.doc)

Row(set, g, version, instances) ==
  [set |-> set.href, name |-> g.name, version |-> version, skip |-> "", schemas |-> Docs(set, g),
   valid |-> PickValidity(g.expected, version),
   instances |-> [i \in DOMAIN instances |->
     [rel |-> Rel(set, instances[i]), valid |-> PickValidity(instances[i].expected, version)]]]

Usable(g, version) == g.docs # <<>> /\ PickValidity(g.expected, version) # "none"
Decided(g, version) ==
  Among(g.instances, {it \in ToSet(g.instances) : PickValidity(it.expected, version) # "none"})

\* The instances of XSD 1.1: one that is missing is left out.
Kept(src, set, g) ==
  Among(Decided(g, "1.1"), {it \in ToSet(g.instances) : ContainedPath(Rel(set, it)) /\ Rel(set, it) \in src.files})

\* The rows of a group in the tables of XSD 1.1, none or one: a schema that is
\* missing drops it.
BuildCase(src, set, g) ==
  IF ~Usable(g, "1.1") \/ Docs(set, g)[1] \notin SchemaClosure(src, ToSet(Docs(set, g))) THEN <<>>
  ELSE <<Row(set, g, "1.1", Kept(src, set, g))>>

FixtureRels(src, row) ==
  SchemaClosure(src, ToSet(row.schemas) \cup {it.rel : it \in ToSet(row.instances)})

\* Sets without href or without a file are passed over.
PresentSets(src, files) == {s \in ToSet(src.sets) : s.href # <<>> /\ Clean(s.href) \in files}
Present(src, files) == Among(src.sets, PresentSets(src, files))

\* The catalog is at fault: an unsafe reference, or a set that does not parse.
Readable(src) ==
  /\ SuiteXML \in src.files /\ src.top = "good"
  /\ \A s \in ToSet(src.sets) : s.href # <<>> => ContainedPath(Clean(s.href))
  /\ \A s \in PresentSets(src, src.files) : s.parses

ReadCases(src) ==
  LET Of(s) == FlattenSeq([i \in DOMAIN s.groups |->
                 IF Applies11(s.groups[i], s) THEN BuildCase(src, s, s.groups[i]) ELSE <<>>])
      sets == Present(src, src.files)
  IN FlattenSeq([i \in DOMAIN sets |-> Of(sets[i])])

\* Slip: the sets themselves are not copied.
ReadXSD10FixtureRelsSlip(src) ==
  {SuiteXML} \cup UNION {UNION
    {SchemaClosure(src, ToSet(Docs(s, g)) \cup {Rel(s, it) : it \in ToSet(g.instances)}) :
       g \in {h \in ToSet(s.groups) : ~Is11(h, s) /\ h.docs # <<>>}} : s \in PresentSets(src, src.files)}

\* What the reader of XSD 1.0 will open: the catalog itself, and of each group
\* not tagged 1.1 every document.
ReadXSD10FixtureRels(src) ==
  {SuiteXML} \cup UNION {{Clean(s.href)} \cup UNION
    {SchemaClosure(src, ToSet(Docs(s, g)) \cup {Rel(s, it) : it \in ToSet(g.instances)}) :
       g \in {h \in ToSet(s.groups) : ~Is11(h, s) /\ h.docs # <<>>}} : s \in PresentSets(src, src.files)}

CollectTests(src) ==
  LET rows == ReadCases(src) IN
  IF ~Readable(src) THEN [ok |-> FALSE, rows |-> <<>>, files |-> {}]
  ELSE [ok |-> TRUE, rows |-> rows,
        files |-> (UNION {FixtureRels(src, r) : r \in ToSet(rows)}) \cup ReadXSD10FixtureRels(src)]

-------------------------------------------------------------------------------
(* The reader of XSD 1.0, over the files of testdata *)

BuildXSD10Cases(src, files) ==
  LET Of(s) == LET groups == Among(s.groups, {g \in ToSet(s.groups) : Applies10(g, s) /\ Usable(g, "1.0")})
               IN [i \in DOMAIN groups |-> Row(s, groups[i], "1.0", Decided(groups[i], "1.0"))]
      sets == Among(src.sets, {s \in PresentSets(src, files) : s.parses})
  IN IF SuiteXML \notin files THEN <<>> ELSE FlattenSeq([i \in DOMAIN sets |-> Of(sets[i])])

-------------------------------------------------------------------------------
(* What the catalog says, for the properties *)

\* The verdicts stated for a version, or else for every version.
Stated(exps, version) ==
  LET For(v) == {e.validity : e \in {x \in ToSet(exps) : x.version = v}}
  IN IF For(version) # {} THEN For(version) ELSE For("")

Decides(exps, version) == Stated(exps, version) # {} /\ Stated(exps, version) \subseteq {"valid", "invalid"}

\* 1.1 has the groups with its tag or with a verdict of its own, 1.0 those
\* without the tag.
Concerns(g, set, version) ==
  IF version = "1.0" THEN ~Is11(g, set)
  ELSE Is11(g, set) \/ \E exps \in {g.expected} \cup {it.expected : it \in ToSet(g.instances)} :
                         \E e \in ToSet(exps) : e.version = "1.1"

\* Every group that concerns a version and has a verdict for it has one row, and
\* the row holds the schema and every instance there is to its stated verdict.
RowsFollowCatalog(src, rows, version) ==
  \A s \in PresentSets(src, src.files) : \A g \in ToSet(s.groups) :
    LET mine == {i \in DOMAIN rows : rows[i].set = s.href /\ rows[i].name = g.name}
        there == {it \in ToSet(g.instances) : Rel(s, it) \in src.files /\ Decides(it.expected, version)} IN
    /\ Concerns(g, s, version) /\ g.docs # <<>> /\ ToSet(Docs(s, g)) \subseteq src.files /\ Decides(g.expected, version)
         => Cardinality(mine) = 1
    /\ \A r \in {rows[i] : i \in mine} :
         /\ Concerns(g, s, version)
         /\ Decides(g.expected, version) => r.valid \in Stated(g.expected, version)
         /\ \A it \in there : \E x \in ToSet(r.instances) :
              x.rel = Rel(s, it) /\ x.valid \in Stated(it.expected, version)

\* What is a list of a checkout, whose files are all below its root.  Sets are referred
\* to once, names of groups are unique in a set.  A URL is no path to a file.
IsCheckout(src) ==
  LET NoFile(p, u) == IsURL(u) => ResolveRel(Front(p), u) \notin src.files IN
  /\ \A p \in src.files : ContainedPath(p)
  /\ IsList(src.sets) /\ \A i, j \in DOMAIN src.sets : src.sets[i].href = src.sets[j].href /\ src.sets[i].href # <<>> => i = j
  /\ \A s \in ToSet(src.sets) :
       /\ IsList(s.groups) /\ \A i, j \in DOMAIN s.groups : s.groups[i].name = s.groups[j].name => i = j
       /\ \A g \in ToSet(s.groups) :
            /\ IsList(g.docs) /\ IsList(g.expected) /\ IsList(g.instances)
            /\ \A it \in ToSet(g.instances) : IsList(it.expected)
  /\ \A p \in DOMAIN src.refs : \A a \in src.refs[p] :
       CASE a.kind = "one" -> NoFile(p, a.uri)
         [] OTHER -> IsList(a.pairs) /\ \A pair \in ToSet(a.pairs) :
                       IsList(pair) /\ Len(pair) = 2 /\ NoFile(p, pair[2])

\* What helium opens for a row: schemas and instances, and what these locate.
Opens(src, row) ==
  LET Uris(p) == IF p \notin DOMAIN src.refs THEN {}
                 ELSE UNION {IF a.kind = "one" THEN {a.uri} ELSE {pair[2] : pair \in ToSet(a.pairs)} : a \in src.refs[p]}
  IN Reached(ToSet(row.schemas) \cup {it.rel : it \in ToSet(row.instances)},
             [p \in src.files |-> {ResolveRel(Front(p), u) : u \in Uris(p)} \cap src.files])
================================================================================
