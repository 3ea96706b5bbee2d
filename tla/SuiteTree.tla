------------------------------- MODULE SuiteTree -------------------------------
(***************************************************************************)
(* The working tree of one suite and the w3cgen commands that change it:   *)
(* `fetch' copies fixtures from the source checkout into testdata, file by *)
(* file, `generate' writes the manifest and one Go file per table of       *)
(* cases, `verify' compares them with what generate would write.  Commands *)
(* follow one another in any order, each may fail at any call or be killed *)
(* between two calls, and the lock file and the checkout change meanwhile. *)
(*                                                                         *)
(* There are two families of suites.  qt3 and xslt30 rebuild their tree:   *)
(* they remove it first, warn about a file the checkout lacks, and lay     *)
(* committed curated fixtures over the copies (Rebuilt).  xml, xsd11 and   *)
(* the signature suites copy over whatever is there, and a missing file is *)
(* an error.  (The signature suites generate one table and no manifest:    *)
(* only their fetch is modelled here.)                                     *)
(*                                                                         *)
(* The content of a file is the revision it was copied or generated from.  *)
(***************************************************************************)
EXTENDS Naturals

CONSTANTS
  File,      \* fixtures, as paths relative to the suite root
  Table,     \* generated tables: a contributor, a collection or a category
  Rev,       \* revisions of the upstream suite
  Catalog,   \* Catalog[r]: see CatalogType
  Rebuilt,   \* the suite removes its tree first
  Overlay,   \* the committed curated fixtures of a rebuilt suite
  Zip,       \* the suite is pinned to a zip archive, not to a git commit
  FirstPin,  \* the revision suites.lock.json pins at the start
  NoSource   \* there is no source directory

\* tables: which tables the catalog yields and the files their cases read;
\* extra: files copied for other readers (the XSD 1.0 reader's, resources);
\* files: what the checkout holds; count: the cases, which the manifest states.
CatalogType ==
  [tables : UNION {[D -> SUBSET File] : D \in SUBSET Table},
   extra : SUBSET File, files : SUBSET File, count : Nat]

ASSUME SuiteTreeAssumption ==
  /\ Catalog \in [Rev -> CatalogType]
  /\ FirstPin \in Rev
  /\ NoSource \notin Rev \cup Nat
  /\ Rev \cap {"absent", "torn", "curated"} = {}
  /\ (File \cup Table) \cap {"none", "manifest"} = {}
  /\ Rebuilt \in BOOLEAN /\ Zip \in BOOLEAN
  /\ Overlay \subseteq File
  /\ ~Rebuilt => Overlay = {}

Tables(r) == IF r = NoSource THEN {} ELSE DOMAIN Catalog[r].tables
Reads(t, r) == Catalog[r].tables[t]
Needed(r) == (UNION {Reads(t, r) : t \in Tables(r)}) \cup Catalog[r].extra
Holds(r, f) == f \in Catalog[r].files

\* What the manifest says of the catalog: revisions of one count look alike.
Counts(r) == IF r = NoSource THEN NoSource ELSE Catalog[r].count

VARIABLES
  pin,       \* the revision in suites.lock.json
  source,    \* the revision at sourceDir, or NoSource
  fixtures,  \* testdata/<suite>
  manifest,  \* the pin and the count written into the manifest
  gen,       \* the generated tables
  cmd,       \* the last command
  pc,        \* its control point
  lock,      \* the pin it read
  rev,       \* the revision it works from
  todo,      \* files or tables still to be handled
  open,      \* the fixture or table being written, or "none"
  tree       \* history: what the last fetch was a successful fetch of

job == <<cmd, pc, lock, rev, todo, open>>
vars == <<pin, source, fixtures, manifest, gen, job, tree>>

Ended == {"ok", "error"}

Init ==
  /\ pin = FirstPin
  /\ source = NoSource
  /\ fixtures = [f \in File |-> "absent"]
  /\ manifest = <<"absent", NoSource>>
  /\ gen = [t \in Table |-> "absent"]
  /\ cmd = "none" /\ pc = "ok"
  /\ lock = FirstPin /\ rev = NoSource
  /\ todo = {} /\ open = "none"
  /\ tree = NoSource

At(c, l) == cmd \in c /\ pc = l
Goto(l) == pc' = l /\ UNCHANGED <<cmd, lock, rev>>
Disk == <<pin, source, fixtures, manifest, gen, tree>>

\* LoadLock reads the pin once; the command runs on it.
Start(c) ==
  /\ pc \in Ended
  /\ cmd' = c /\ lock' = pin /\ rev' = NoSource
  /\ pc' = IF c = "fetch" THEN "source" ELSE "read"
  /\ todo' = {} /\ open' = "none"
  /\ tree' = IF c = "fetch" THEN NoSource ELSE tree
  /\ UNCHANGED <<pin, source, fixtures, manifest, gen>>

-------------------------------------------------------------------------------
(* Fetch *)

\* A git source is brought to the pinned commit; a zip source that is there
\* is taken as it is.
FetchSource ==
  /\ At({"fetch"}, "source")
  /\ source' = IF Zip /\ source # NoSource THEN source ELSE lock
  /\ rev' = source'
  /\ pc' = IF Rebuilt THEN "remove" ELSE "catalog"
  /\ UNCHANGED <<pin, fixtures, manifest, gen, cmd, lock, todo, open, tree>>

\* Slip: the tree of an earlier fetch is kept.
RemoveAllSlip ==
  /\ At({"fetch"}, "remove")
  /\ Goto("catalog")
  /\ UNCHANGED <<Disk, todo, open>>

\* os.RemoveAll takes the tree away entry by entry.
RemoveAll ==
  /\ At({"fetch"}, "remove")
  /\ UNCHANGED <<pin, source, manifest, gen, todo, open, tree>>
  /\ \/ \E f \in File :
          /\ fixtures[f] # "absent"
          /\ fixtures' = [fixtures EXCEPT ![f] = "absent"]
          /\ UNCHANGED <<cmd, pc, lock, rev>>
     \/ /\ \A f \in File : fixtures[f] = "absent"
        /\ Goto("catalog")
        /\ UNCHANGED fixtures

\* readCases or collectTests, once for the whole copy; an error is Abort.
ReadCatalog ==
  /\ At({"fetch"}, "catalog")
  /\ Goto("copy")
  /\ todo' = Needed(rev)
  /\ UNCHANGED <<Disk, open>>

\* The file is there: os.Create has truncated the copy before anything is
\* written.  qt3 and xslt30 go through a map in no order, the others in the
\* order of names; every order is explored.
CreateFixture ==
  /\ \/ At({"fetch"}, "copy") /\ open = "none"
     \/ At({"fetch"}, "overlay") /\ open = "none"
  /\ \E f \in todo :
       /\ pc = "copy" => Holds(rev, f)
       /\ fixtures' = [fixtures EXCEPT ![f] = "torn"]
       /\ open' = f
  /\ UNCHANGED <<pin, source, manifest, gen, cmd, pc, lock, rev, todo, tree>>

\* Slip: the file stays on the list.
WriteFixtureSlip ==
  /\ cmd = "fetch" /\ pc \in {"copy", "overlay"} /\ open \in File
  /\ fixtures' = [fixtures EXCEPT ![open] = IF pc = "copy" THEN rev ELSE "curated"]
  /\ open' = "none"
  /\ UNCHANGED <<pin, source, manifest, gen, cmd, pc, lock, rev, todo, tree>>

\* io.Copy and Close.
WriteFixture ==
  /\ cmd = "fetch" /\ pc \in {"copy", "overlay"} /\ open \in File
  /\ fixtures' = [fixtures EXCEPT ![open] = IF pc = "copy" THEN rev ELSE "curated"]
  /\ todo' = todo \ {open}
  /\ open' = "none"
  /\ UNCHANGED <<pin, source, manifest, gen, cmd, pc, lock, rev, tree>>

\* A rebuilt suite warns about a file the checkout lacks and goes on.
SkipMissing ==
  /\ Rebuilt
  /\ At({"fetch"}, "copy") /\ open = "none"
  /\ \E f \in todo : ~Holds(rev, f) /\ todo' = todo \ {f}
  /\ Goto("copy")
  /\ UNCHANGED <<Disk, open>>

\* The other suites stop at it.
StopAtMissing ==
  /\ ~Rebuilt
  /\ At({"fetch"}, "copy") /\ open = "none"
  /\ \E f \in todo : ~Holds(rev, f)
  /\ Goto("error")
  /\ todo' = {}
  /\ UNCHANGED <<Disk, open>>

StartOverlay ==
  /\ Rebuilt
  /\ At({"fetch"}, "copy") /\ todo = {}
  /\ Goto("overlay")
  /\ todo' = Overlay
  /\ UNCHANGED <<Disk, open>>

\* Slip: the copy loop ends with its first file.
CopiedSlip == At({"fetch"}, IF Rebuilt THEN "overlay" ELSE "copy")
Copied == At({"fetch"}, IF Rebuilt THEN "overlay" ELSE "copy") /\ todo = {}

FetchDone ==
  /\ Copied
  /\ open = "none"
  /\ Goto("ok")
  /\ tree' = rev
  /\ UNCHANGED <<pin, source, fixtures, manifest, gen, todo, open>>

-------------------------------------------------------------------------------
(* Generate and verify *)

\* The catalog is read before anything is written.
ReadSource ==
  /\ At({"generate", "verify"}, "read")
  /\ rev' = source
  /\ pc' = "manifest"
  /\ UNCHANGED <<Disk, cmd, lock, todo, open>>

\* os.WriteFile truncates and then writes.
CreateManifest ==
  /\ At({"generate"}, "manifest") /\ open = "none"
  /\ manifest' = <<"torn", NoSource>>
  /\ open' = "manifest"
  /\ UNCHANGED <<pin, source, fixtures, gen, cmd, pc, lock, rev, todo, tree>>

\* Slip: the revision read, not the one pinned, is written.
WriteManifestSlip ==
  /\ At({"generate"}, "manifest") /\ open = "manifest"
  /\ manifest' = <<rev, Counts(rev)>>
  /\ open' = "none"
  /\ Goto("tables")
  /\ todo' = Tables(rev)
  /\ UNCHANGED <<pin, source, fixtures, gen, tree>>

WriteManifest ==
  /\ At({"generate"}, "manifest") /\ open = "manifest"
  /\ manifest' = <<lock, Counts(rev)>>
  /\ open' = "none"
  /\ Goto("tables")
  /\ todo' = Tables(rev)
  /\ UNCHANGED <<pin, source, fixtures, gen, tree>>

CreateTable ==
  /\ At({"generate"}, "tables") /\ open = "none"
  /\ \E t \in todo :
       /\ gen' = [gen EXCEPT ![t] = "torn"]
       /\ open' = t
  /\ UNCHANGED <<pin, source, fixtures, manifest, cmd, pc, lock, rev, todo, tree>>

WriteTable ==
  /\ At({"generate"}, "tables") /\ open \in Table
  /\ gen' = [gen EXCEPT ![open] = rev]
  /\ todo' = todo \ {open}
  /\ open' = "none"
  /\ UNCHANGED <<pin, source, fixtures, manifest, cmd, pc, lock, rev, tree>>

\* The file on disk has the bytes generate would write from r.
SameTable(t, r) ==
  /\ gen[t] \in Rev
  /\ t \in Tables(gen[t])
  /\ Reads(t, gen[t]) = Reads(t, r)

VerifyManifest ==
  /\ At({"verify"}, "manifest")
  /\ Goto(IF manifest = <<lock, Counts(rev)>> THEN "tables" ELSE "error")
  /\ todo' = IF manifest = <<lock, Counts(rev)>> THEN Tables(rev) ELSE todo
  /\ UNCHANGED <<Disk, open>>

\* Slip: a file that cannot be read counts as current.
VerifyTableSlip ==
  /\ At({"verify"}, "tables")
  /\ \E t \in todo :
       IF gen[t] = "absent" \/ SameTable(t, rev)
       THEN Goto("tables") /\ todo' = todo \ {t}
       ELSE Goto("error") /\ todo' = {}
  /\ UNCHANGED <<Disk, open>>

VerifyTable ==
  /\ At({"verify"}, "tables")
  /\ \E t \in todo :
       IF SameTable(t, rev)
       THEN Goto("tables") /\ todo' = todo \ {t}
       ELSE Goto("error") /\ todo' = {}
  /\ UNCHANGED <<Disk, open>>

TablesDone ==
  /\ At({"generate", "verify"}, "tables")
  /\ todo = {} /\ open = "none"
  /\ Goto("ok")
  /\ UNCHANGED <<Disk, todo, open>>

-------------------------------------------------------------------------------
\* A call fails (a catalog that does not parse, an I/O error) or the process
\* is killed: nothing is undone.
Abort ==
  /\ pc \notin Ended
  /\ Goto("error")
  /\ todo' = {} /\ open' = "none"
  /\ UNCHANGED Disk

\* The world between commands: the lock is repinned, the checkout removed.  A
\* repin during a command does nothing to it: the command works from lock.
Repin ==
  /\ pc \in Ended
  /\ pin' \in Rev
  /\ UNCHANGED <<source, fixtures, manifest, gen, job, tree>>

RemoveSource ==
  /\ pc \in Ended
  /\ source # NoSource
  /\ source' = NoSource
  /\ UNCHANGED <<pin, fixtures, manifest, gen, job, tree>>

Fetch ==
  \/ FetchSource \/ RemoveAll \/ ReadCatalog \/ CreateFixture \/ WriteFixture
  \/ SkipMissing \/ StopAtMissing \/ StartOverlay \/ FetchDone

Generate ==
  \/ ReadSource \/ CreateManifest \/ WriteManifest \/ CreateTable \/ WriteTable
  \/ VerifyManifest \/ VerifyTable \/ TablesDone

Next ==
  \/ \E c \in {"fetch", "generate", "verify"} : Start(c)
  \/ Fetch \/ Generate
  \/ Abort \/ Repin \/ RemoveSource

Spec == Init /\ [][Next]_vars

\* A command's own calls return; nothing forces anybody to run, fail or repin.
FairSpec == Spec /\ WF_vars(Fetch) /\ WF_vars(Generate)

-------------------------------------------------------------------------------
(* Properties *)

PC == {"source", "remove", "catalog", "copy", "overlay",
       "read", "manifest", "tables", "ok", "error"}

\* Types of the variables: every copy is absent, torn, curated or of one
\* revision (suites.lock.json, sources/, testdata/, *_gen_test.go).
TypeOK ==
  /\ pin \in Rev /\ lock \in Rev
  /\ source \in Rev \cup {NoSource}
  /\ rev \in Rev \cup {NoSource}
  /\ tree \in Rev \cup {NoSource}
  /\ fixtures \in [File -> {"absent", "torn", "curated"} \cup Rev]
  /\ manifest \in (Rev \X (Nat \cup {NoSource})) \cup ({"absent", "torn"} \X {NoSource})
  /\ gen \in [Table -> {"absent", "torn"} \cup Rev]
  /\ cmd \in {"none", "fetch", "generate", "verify"} /\ pc \in PC
  /\ todo \in SUBSET (File \cup Table)
  /\ open \in File \cup Table \cup {"none", "manifest"}

\* After a fetch that reported success every curated file and every file the
\* catalog names and the checkout holds is in testdata, whole and of that
\* checkout, whatever earlier fetches of other revisions left there when they
\* were killed (populateFixtures).
FetchedTreeIsWhole ==
  tree # NoSource =>
    \A f \in File :
      /\ f \in Overlay => fixtures[f] = "curated"
      /\ f \in Needed(tree) \ Overlay /\ Holds(tree, f) => fixtures[f] = tree

\* "Start from a clean tree so a stale file from a previous fetch can never
\* mask a missing-copy bug": qt3 and xslt30 hold nothing else.
RebuiltTreeIsClean ==
  Rebuilt /\ tree # NoSource =>
    \A f \in File : fixtures[f] # "absent" =>
      f \in Overlay \/ (f \in Needed(tree) /\ Holds(tree, f))

\* A green verify means that the manifest states the pin and the checkout it
\* ran with, and that every table generate would write is on disk with the same
\* content (WriteGoFile in ModeVerify).
VerifyIsHonest ==
  cmd = "verify" /\ pc = "ok" =>
    manifest = <<lock, Counts(rev)>> /\ \A t \in Tables(rev) : SameTable(t, rev)

\* Fetch and verify, run apart and each green, together promise that the
\* compiled cases find their files: none missing, torn or of another revision.
VerifiedCasesHaveFixtures ==
  cmd = "verify" /\ pc = "ok" /\ tree # NoSource /\ rev = tree =>
    \A t \in Tables(rev) : \A f \in Reads(t, gen[t]) :
      Holds(tree, f) \/ f \in Overlay => fixtures[f] \in {tree, "curated"}

\* Every command ends: the copy and compare loops get through their files.
CommandsEnd == pc \notin Ended ~> pc \in Ended
===============================================================================
