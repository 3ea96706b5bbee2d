------------------------------- MODULE XMLCatalog -------------------------------
(***************************************************************************)
(* The catalog of the XML suite (xml/catalog.go): xmlconf.xml refers to    *)
(* catalogs of collections by entities, each of these holds tests, and a   *)
(* test names a document and the output of a canonical parse.              *)
(*                                                                         *)
(* A path is the sequence of its names.  A checkout is a record: top says  *)
(* whether xmlconf.xml is there, blocks are its TESTCASES elements, each a *)
(* base and the entities it refers to, entities their declarations,        *)
(* catalogs the tests of a catalog file in the order in which they are     *)
(* visited, each with the xml:base elements around it; refs are the system *)
(* identifiers in a file.                                                  *)
(***************************************************************************)
EXTENDS CatalogPaths

\* base <<>> leaves the reference as it is.
JoinBase(base, ref) == Clean(base \o ref)

\* One block after the other: which catalog, under which base.
ParseTopCatalog(src) ==
  LET Of(b) == [i \in DOMAIN b.entities |-> [base |-> b.base, entity |-> b.entities[i]]]
      named == FlattenSeq([i \in DOMAIN src.blocks |-> Of(src.blocks[i])])
      ok == src.top = "good" /\ named # <<>> /\ \A r \in ToSet(named) : r.entity \in DOMAIN src.entities
  IN [ok |-> ok,
      refs |-> IF ok THEN [i \in DOMAIN named |->
                             [base |-> named[i].base, file |-> Clean(src.entities[named[i].entity])]] ELSE <<>>]

FileExists(src, p) == ContainedPath(p) /\ p \in src.files

\* Where a reference of a test leads: below the base, or else next to the
\* catalog; <<>> is an error.
ResolveFixture(src, base, catalogDir, ref) ==
  LET found == {p \in {JoinBase(base, ref), JoinBase(catalogDir, ref)} : FileExists(src, p)} IN
  CASE IsURL(ref) \/ found = {} -> <<>>
    [] ~IsURL(ref) /\ JoinBase(base, ref) \in found -> JoinBase(base, ref)
    [] OTHER -> JoinBase(catalogDir, ref)

ScannedExt == {".xml", ".dtd", ".ent"}
ExternalRefs(src, p) ==
  IF p \notin DOMAIN src.refs \/ src.ext[p] \notin ScannedExt THEN {}
  ELSE {JoinBase(Front(p), r) : r \in {x \in src.refs[p] : ~IsURL(x)}}

\* The document and what it refers to, as far as it exists, step by step.
CollectClosure(src, start) ==
  Reached({start}, [p \in src.files |-> {q \in ExternalRefs(src, p) : FileExists(src, q)}])

\* Slip: a test without a document is passed over.
AppendTestSlip(src, walk, base, catalogDir, t) ==
  LET uri == ResolveFixture(src, base, catalogDir, t.uri)
  IN IF ~walk.ok \/ t.uri = <<>> \/ t.id = "" \/ uri = <<>> \/ \E r \in ToSet(walk.rows) : r.id = t.id THEN walk
     ELSE [walk EXCEPT !.rows = Append(@, [id |-> t.id, type |-> t.type, uri |-> uri, output |-> <<>>, skip |-> ""])]

\* The first test of an ID counts.  A document or output that is not there is an
\* error (buildCase too).
AppendTest(src, walk, base, catalogDir, t) ==
  LET uri == ResolveFixture(src, base, catalogDir, t.uri)
      output == ResolveFixture(src, base, catalogDir, t.output)
  IN IF ~walk.ok \/ t.uri = <<>> \/ t.id = "" \/ \E r \in ToSet(walk.rows) : r.id = t.id THEN walk
     ELSE IF uri = <<>> \/ (t.output # <<>> /\ output = <<>>) THEN [walk EXCEPT !.ok = FALSE]
     ELSE [walk EXCEPT !.rows = Append(@,
             [id |-> t.id, type |-> t.type, uri |-> uri,
              output |-> IF t.output = <<>> THEN <<>> ELSE output, skip |-> ""])]

\* The base of a test: collectCases goes down the xml:base chain.
BaseOf(ref, t) ==
  LET base[n \in 0..Len(t.bases)] == IF n = 0 THEN ref.base ELSE JoinBase(base[n - 1], t.bases[n])
  IN base[Len(t.bases)]

ParseCollectionCatalog(src, walk, ref) ==
  LET tests == src.catalogs[ref.file]
      Read(w, t) == AppendTest(src, w, BaseOf(ref, t), Front(ref.file), t)
      read[n \in 0..Len(tests)] == IF n = 0 THEN walk ELSE Read(read[n - 1], tests[n])
  IN IF ~FileExists(src, ref.file) \/ ref.file \notin DOMAIN src.catalogs THEN [walk EXCEPT !.ok = FALSE]
     ELSE read[Len(tests)]

ReadCases(src) ==
  LET top == ParseTopCatalog(src)
      read[n \in 0..Len(top.refs)] == IF n = 0 THEN [ok |-> top.ok, rows |-> <<>>]
                                      ELSE ParseCollectionCatalog(src, read[n - 1], top.refs[n])
  IN read[Len(top.refs)]

FixtureRels(src, row) == CollectClosure(src, row.uri) \cup ({row.output} \ {<<>>})

CollectTests(src) ==
  LET walk == ReadCases(src)
  IN IF walk.ok THEN [ok |-> TRUE, rows |-> walk.rows, files |-> UNION {FixtureRels(src, r) : r \in ToSet(walk.rows)}]
     ELSE [ok |-> FALSE, rows |-> <<>>, files |-> {}]

-------------------------------------------------------------------------------
(* What the catalog says, for the properties *)

\* The tests of the collections referred to, each with all bases around it.
Tests(src) ==
  LET Of(b, t) == [id |-> t.id, type |-> t.type, uri |-> t.uri, output |-> t.output, bases |-> <<b.base>> \o t.bases]
  IN UNION {UNION {{Of(b, t) : t \in ToSet(src.catalogs[Clean(src.entities[e])])}
                   : e \in ToSet(b.entities)} : b \in ToSet(src.blocks)}

\* Every test with an ID and a document has its row, once per ID: the row of some
\* test of the ID, with its type, its output if it has one, and the document
\* the bases lead to when there is one.
RowsFollowCatalog(src, rows) ==
  \A t \in {u \in Tests(src) : u.id # "" /\ u.uri # <<>>} :
    \E i \in DOMAIN rows :
      /\ {j \in DOMAIN rows : rows[j].id = t.id} = {i}
      /\ \E u \in Tests(src) :
           LET place == Clean(FlattenSeq(u.bases) \o u.uri) IN
           /\ u.id = t.id /\ rows[i].type = u.type /\ (rows[i].output = <<>> <=> u.output = <<>>)
           /\ place \in src.files => rows[i].uri = place
      /\ {rows[i].uri, rows[i].output} \ {<<>>} \subseteq src.files

\* What is a list and what a path of a checkout, whose files are all below its root.  A
\* URL is no path to one of them.
IsCheckout(src) ==
  /\ IsList(src.blocks) /\ \A b \in ToSet(src.blocks) : IsList(b.entities) /\ IsPath(b.base)
  /\ \A f \in DOMAIN src.catalogs :
       /\ IsList(src.catalogs[f])
       /\ \A t \in ToSet(src.catalogs[f]) : t.bases \in Seq(Seq(STRING)) /\ IsPath(t.uri)
  /\ \A p \in src.files : ContainedPath(p)
  /\ \A p \in DOMAIN src.refs : \A r \in src.refs[p] : IsURL(r) => Clean(Front(p) \o r) \notin src.files

\* What helium opens for a row: every entity and DTD, from where it is referred to.
Opens(src, row) ==
  LET next(p) == IF p \in DOMAIN src.refs /\ src.ext[p] \in ScannedExt
                 THEN {Clean(Front(p) \o r) : r \in src.refs[p]} \cap src.files ELSE {}
  IN Reached({row.uri}, [p \in src.files |-> next(p)])
================================================================================
