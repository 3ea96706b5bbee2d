----------------------------- MODULE SharedCheckout -----------------------------
(***************************************************************************)
(* w3cgen over the signature and encryption suites.  xmldsig11, xmlenc11   *)
(* and merlinxmldsig share one git checkout, which each fetch brings to    *)
(* the commit its own lock entry pins and from which each generate reads   *)
(* whatever is checked out; xmldsig2ed copies fixtures committed here.     *)
(* Invocations of w3cgen run at the same time, fail and are killed, and    *)
(* suites.lock.json is edited meanwhile.                                   *)
(***************************************************************************)
EXTENDS Naturals, Sequences, SequencesExt, FiniteSets

CONSTANTS
  Proc,        \* invocations of w3cgen
  Commit,      \* commits of the upstream repository
  Paths,       \* paths as <<directory, name>>, in the order they are sorted
  Tree,        \* Tree[c]: the paths of commit c
  Committed,   \* the paths below fixtures/xmldsig2ed
  Locks,       \* what suites.lock.json may say: pins by suite
  Selections,  \* the suites a user may name, one after the other
  MaxStarts,   \* bound: invocations
  MaxFaults     \* bound: kills and calls that fail

Shared == {"merlinxmldsig", "xmldsig11", "xmlenc11"}
Suite == Shared \cup {"xmldsig2ed"}

None == "none"
Torn == "torn"    \* truncated by os.Create and not yet written
Here == "here"    \* of this repository
TornTable == {{}} \* a table likewise: no case is without a file

\* What suites.lock.json may say: a commit, none, or one upstream does not have.
Lock == UNION {[D -> Commit \cup {None, "unknown"}] : D \in SUBSET Suite}

ASSUME SharedCheckoutAssumption ==
  /\ Paths \in Seq(ToSet(Paths)) /\ <<"merlin", "b64">> \in ToSet(Paths)
  /\ \A c \in Commit : Tree[c] \subseteq ToSet(Paths)
  /\ Committed \subseteq ToSet(Paths)
  /\ Commit \cap {None, Torn, Here} = {}
  /\ Locks \subseteq Lock /\ \A names \in Selections : names \in Seq(ToSet(names))
  /\ MaxStarts \in Nat /\ MaxFaults \in Nat

-------------------------------------------------------------------------------
(* What the suites make of a tree.  Names that fit a suite's pattern of      *)
(* vectors (signature-enveloping-*.xml, cipherText*.xml, ...) are Vector.    *)

Vector == {"v1", "v2"}
In(t, dir) == {p \in t : p[1] = dir}
VectorFiles(t, dir) == {p \in In(t, dir) : p[2] \in Vector}

\* v2 is a vector the table of keys does not know.
KeyFile(p) == IF p[2] = "v1" THEN {<<"core", "key.p12">>} ELSE {}
ArtifactFiles(t) ==
  VectorFiles(t, "core") \cup {p \in In(t, "core") : p[2] \in {"key.p12", "plaintext.xml"}}

\* The base64 sibling is asked for whether it is there or not.
CopyRels(t) == VectorFiles(t, "merlin") \cup {<<"merlin", "b64">>} \cup In(t, "certs")

\* inputForCase and the two other files of a case of Canonical XML.
C14NReads(p) == {p, <<"c14n11", "input">>, <<"c14n11", "output">>}
C14NCases(t) == {p \in In(t, "c14n11") : p[2] = "xpath"}

\* Directories that are read: a missing one is an error.
Listed(s, cmd) ==
  CASE s = "xmldsig11" -> {"oracle"}
    [] s = "xmlenc11" -> {"core"}
    [] s = "merlinxmldsig" -> IF cmd = "fetch" THEN {"merlin", "certs"} ELSE {"merlin"}
    [] s = "xmldsig2ed" -> IF cmd = "fetch" THEN {} ELSE {"c14n11"}
Listable(s, cmd, t) == \A d \in Listed(s, cmd) : In(t, d) # {}

\* Those of the paths that are in files, in the order of Paths.
Sort(files) ==
  LET Places == {i \in DOMAIN Paths : Paths[i] \in files}
      Rank(i) == Cardinality({j \in Places : j <= i})
  IN [n \in 1..Cardinality(Places) |-> Paths[CHOOSE i \in Places : Rank(i) = n]]

\* Slip: the keys are left where they are.
CopiesSlip(s, t) ==
  CASE s = "xmldsig11" -> Sort(VectorFiles(t, "oracle"))
    [] s = "xmlenc11" -> Sort(VectorFiles(t, "core"))
    [] s = "merlinxmldsig" -> Append(Sort(CopyRels(t)), <<"ext", "xml-stylesheet">>)
    [] s = "xmldsig2ed" -> Sort(t \ In(t, "README.md"))

\* The files a fetch copies.
Copies(s, t) ==
  CASE s = "xmldsig11" -> Sort(VectorFiles(t, "oracle"))
    [] s = "xmlenc11" -> Sort(ArtifactFiles(t))
    [] s = "merlinxmldsig" -> Append(Sort(CopyRels(t)), <<"ext", "xml-stylesheet">>)
    [] s = "xmldsig2ed" -> Sort(t \ In(t, "README.md"))

\* The table of cases, each as the files it names.
Cases(s, t) ==
  CASE s = "xmldsig11" -> {{p} : p \in VectorFiles(t, "oracle")}
    [] s = "xmlenc11" -> {{p} \cup KeyFile(p) : p \in VectorFiles(t, "core")}
    [] s = "merlinxmldsig" -> {{p} : p \in VectorFiles(t, "merlin")}
    [] s = "xmldsig2ed" -> {C14NReads(p) : p \in C14NCases(t)} \cup {{p} : p \in VectorFiles(t, "xmldsig")}

-------------------------------------------------------------------------------
VARIABLES
  repo,      \* sourceDir: absent, foreign (no .git), broken, or a repository
  locked,    \* .git/index.lock exists
  work,      \* the working tree: the commit each path was written from
  head,      \* the commit the index and HEAD are of
  testdata,  \* by suite: the commit each file was copied from
  table,     \* by suite: the generated table, empty at first, or TornTable
  proc,      \* invocations
  starts, faults,
  fetched,   \* history, by suite: the commit the last undisturbed green fetch
             \* copied, if nothing has written into testdata since
  verified   \* history, by suite: the commit the table was last read off

tree == <<repo, locked, work, head>>
out == <<testdata, table, fetched, verified>>
vars == <<tree, out, proc, starts, faults>>

NoFiles == [f \in {} |-> None]
Idle == [cmd |-> None, todo |-> <<>>, lock |-> NoFiles, pc |-> "ok",
         files |-> <<>>, cases |-> {}, from |-> None, alone |-> TRUE]

Init ==
  /\ repo \in {"absent", "foreign"} /\ locked = FALSE /\ work = NoFiles /\ head = None
  /\ testdata = [s \in Suite |-> NoFiles]
  /\ table = [s \in Suite |-> {}]
  /\ proc = [p \in Proc |-> Idle]
  /\ starts = 0 /\ faults = 0
  /\ fetched = [s \in Suite |-> None] /\ verified = [s \in Suite |-> None]

Ended == {"ok", "failed"}
At(p, l) == proc[p].pc = l
This(p) == Head(proc[p].todo)
Pin(p) == proc[p].lock[This(p)]

Step(p, invocation) == proc' = [proc EXCEPT ![p] = invocation]
Goto(p, l) == Step(p, [proc[p] EXCEPT !.pc = l])
Work(p) == Step(p, [proc[p] EXCEPT !.pc = "list", !.alone = TRUE])
End(p, how) == Step(p, [Idle EXCEPT !.pc = how])
Fail(p) == End(p, "failed")

Fault == faults < MaxFaults /\ faults' = faults + 1

\* The same, while others who have their checkout and copy lose it or the files.
Disturbing(p, invocation, others) ==
  proc' = [q \in Proc |-> IF q = p THEN invocation
                          ELSE IF q \in others THEN [proc[q] EXCEPT !.alone = FALSE]
                          ELSE proc[q]]
Working == {q \in Proc : proc[q].pc \in {"list", "copy"}}
On(s) == {q \in Working : This(q) = s}
Sharing == {q \in Working : This(q) \in Shared}

-------------------------------------------------------------------------------
(* The command line *)

\* The other suites w3cgen knows come between them; an Error may be theirs.
Sorted == <<"merlinxmldsig", "xmldsig11", "xmldsig2ed", "xmlenc11">>
Select(names) == IF names \in {<<>>, <<"all">>} THEN Sorted ELSE names

\* The lock is read once, and edited between invocations; an unknown name is an error before anything is done.
Start(p) ==
  /\ proc[p].pc \in Ended /\ starts < MaxStarts
  /\ starts' = starts + 1
  /\ \E cmd \in {"fetch", "generate", "verify"}, names \in Selections, lock \in Locks :
       IF ToSet(Select(names)) \subseteq Suite
       THEN Step(p, [Idle EXCEPT !.cmd = cmd, !.todo = Select(names), !.lock = lock, !.pc = "next"])
       ELSE Fail(p)
  /\ UNCHANGED <<tree, out, faults>>

\* The next suite of the loop; xmldsig2ed has no source to fetch.
NextSuite(p) ==
  /\ At(p, "next")
  /\ CASE proc[p].todo = <<>> -> End(p, "ok")
       [] proc[p].todo # <<>> /\ This(p) \notin DOMAIN proc[p].lock -> Fail(p)
       [] proc[p].todo # <<>> /\ This(p) \in DOMAIN proc[p].lock ->
            CASE proc[p].cmd # "fetch" -> Goto(p, "enumerate")
              [] proc[p].cmd = "fetch" /\ This(p) \notin Shared -> Work(p)
              [] proc[p].cmd = "fetch" /\ This(p) \in Shared -> IF Pin(p) = None THEN Fail(p) ELSE Goto(p, "stat")
  /\ UNCHANGED <<tree, out, starts, faults>>

-------------------------------------------------------------------------------
(* fetchGit.  git itself is external. *)

StatSource(p) ==
  /\ At(p, "stat")
  /\ CASE repo = "absent" -> Goto(p, "clone") [] repo = "foreign" -> Fail(p) [] OTHER -> Goto(p, "fetch")
  /\ UNCHANGED <<tree, out, starts, faults>>

\* git clone writes straight into sourceDir, if nobody else has made it meanwhile.
GitClone(p) ==
  /\ At(p, "clone")
  /\ IF repo = "absent" THEN repo' = "broken" /\ Goto(p, "cloning") ELSE repo' = repo /\ Fail(p)
  /\ UNCHANGED <<locked, work, head, out, starts, faults>>

\* git removes what it made when a clone fails.
GitCloned(p) ==
  /\ At(p, "cloning")
  /\ \/ repo' = "repo" /\ Goto(p, "fetch") /\ UNCHANGED faults
     \/ repo' = "absent" /\ Fail(p) /\ Fault
  /\ UNCHANGED <<locked, work, head, out, starts>>

\* Slip: a repository git cannot use is tried again.
GitFetchSlip(p) ==
  /\ At(p, "fetch")
  /\ Goto(p, IF repo = "repo" THEN "checkout" ELSE "stat")
  /\ UNCHANGED <<tree, out, starts, faults>>

GitFetch(p) ==
  /\ At(p, "fetch")
  /\ IF repo = "repo" THEN Goto(p, "checkout") ELSE Fail(p)
  /\ UNCHANGED <<tree, out, starts, faults>>

CheckedOut(c) == [f \in IF c \in Commit THEN Tree[c] ELSE {} |-> c]
Dirty == work # CheckedOut(head)

\* A checkout under way: of the paths it changes some have been written.
PartlyCheckedOut(c) ==
  LET Written(n) == {Paths[i] : i \in 1..n}
      After(done) == [f \in (DOMAIN work \ done) \cup (Tree[c] \cap done) |-> IF f \in done THEN c ELSE work[f]]
  IN {After(Written(n)) : n \in 0..Len(Paths)}

\* Upstream has no such commit, or another checkout, maybe a killed one, has the index.
Refused(p) == repo # "repo" \/ locked \/ Pin(p) \notin Commit

\* Slip: a checkout git refuses is taken for done.
GitCheckoutSlip(p) ==
  /\ At(p, "checkout")
  /\ \/ /\ Pin(p) \in Commit /\ (Refused(p) \/ Dirty \/ head = Pin(p))
        /\ Work(p) /\ UNCHANGED <<locked, work>>
     \/ /\ ~Refused(p) /\ head # Pin(p) /\ (Dirty => head = None)
        /\ locked' = TRUE /\ work' \in PartlyCheckedOut(Pin(p))
        /\ Disturbing(p, [proc[p] EXCEPT !.pc = "checking out"], Sharing)
  /\ UNCHANGED <<repo, head, out, starts, faults>>

\* Commits differ in every file: git will not go over changes somebody made,
\* and at the commit asked for it leaves them in peace.
GitCheckout(p) ==
  /\ At(p, "checkout")
  /\ \/ /\ Refused(p) \/ (head # Pin(p) /\ Dirty)
        /\ Fail(p) /\ UNCHANGED <<locked, work>>
     \/ /\ ~Refused(p) /\ head = Pin(p)
        /\ Step(p, [proc[p] EXCEPT !.pc = "list", !.alone = ~Dirty]) /\ UNCHANGED <<locked, work>>
     \/ /\ ~Refused(p) /\ head # Pin(p) /\ (Dirty => head = None)
        /\ locked' = TRUE /\ work' \in PartlyCheckedOut(Pin(p))
        /\ Disturbing(p, [proc[p] EXCEPT !.pc = "checking out"], Sharing)
  /\ UNCHANGED <<repo, head, out, starts, faults>>

\* A checkout that fails leaves the tree half changed and the index as it was.
GitCheckedOut(p) ==
  /\ At(p, "checking out")
  /\ locked' = FALSE
  /\ \/ /\ work' = CheckedOut(Pin(p)) /\ head' = Pin(p)
        /\ Disturbing(p, [proc[p] EXCEPT !.pc = "list", !.alone = TRUE], Sharing)
        /\ UNCHANGED faults
     \/ Fail(p) /\ Fault /\ UNCHANGED <<work, head>>
  /\ UNCHANGED <<repo, out, starts>>

-------------------------------------------------------------------------------
(* The rest of Fetch: what is listed is copied over what is there. *)

Source(s) == IF s \in Shared THEN work ELSE [f \in Committed |-> Here]

ListFixtures(p) ==
  /\ At(p, "list")
  /\ LET t == DOMAIN Source(This(p)) IN
       IF Listable(This(p), "fetch", t)
       THEN Step(p, [proc[p] EXCEPT !.pc = "copy", !.files = Copies(This(p), t)]) ELSE Fail(p)
  /\ UNCHANGED <<tree, out, starts, faults>>

Put(s, f, c) ==
  testdata' = [testdata EXCEPT ![s] = [g \in {f} \cup DOMAIN @ |-> IF g = f THEN c ELSE @[g]]]

CopyFile(p) ==
  LET s == This(p)
      f == Head(proc[p].files)
  IN /\ At(p, "copy") /\ proc[p].files # <<>>
     /\ IF f \in DOMAIN Source(s)
        THEN /\ Put(s, f, Source(s)[f])
             /\ Disturbing(p, [proc[p] EXCEPT !.files = Tail(@)], On(s))
             /\ fetched' = [fetched EXCEPT ![s] = None]
        ELSE Fail(p) /\ UNCHANGED <<testdata, fetched>>
     /\ UNCHANGED <<tree, table, verified, starts, faults>>

FetchDone(p) ==
  /\ At(p, "copy") /\ proc[p].files = <<>>
  /\ fetched' = [fetched EXCEPT ![This(p)] =
                   IF ~proc[p].alone THEN None ELSE IF This(p) \in Shared THEN Pin(p) ELSE Here]
  /\ Step(p, [proc[p] EXCEPT !.pc = "next", !.todo = Tail(@)])
  /\ UNCHANGED <<tree, testdata, table, verified, starts, faults>>

-------------------------------------------------------------------------------
(* Generate *)

\* The commit a whole tree is of.
CommitOf(w) == IF \E c \in Commit : w = CheckedOut(c) THEN CHOOSE c \in Commit : w = CheckedOut(c) ELSE None

Tabulate(p, cases, commit) ==
  Step(p, [proc[p] EXCEPT !.pc = "table", !.cases = cases, !.from = commit])

\* Without a source the table is empty; the pin is not looked at.
Enumerate(p) ==
  LET s == This(p)
      t == DOMAIN Source(s)
  IN /\ At(p, "enumerate")
     /\ CASE s \in Shared /\ repo = "absent" -> Tabulate(p, {}, None)
          [] s \in Shared /\ repo # "absent" /\ Listable(s, "generate", t) ->
               Tabulate(p, Cases(s, t), CommitOf(work))
          [] s \notin Shared /\ Listable(s, "generate", t) ->
               Tabulate(p, Cases(s, t), Here)
          [] OTHER -> Fail(p)
     /\ UNCHANGED <<tree, out, starts, faults>>

SameTable(s, cases) == table[s] = cases

WriteGoFile(p) ==
  /\ At(p, "table")
  /\ LET s == This(p) IN
       IF proc[p].cmd = "generate" \/ SameTable(s, proc[p].cases)
       THEN /\ table' = [table EXCEPT ![s] = IF proc[p].cmd = "generate" THEN proc[p].cases ELSE @]
            /\ verified' = [verified EXCEPT ![s] = proc[p].from]
            /\ Step(p, [proc[p] EXCEPT !.pc = "next", !.todo = Tail(@), !.cases = {}, !.from = None])
       ELSE Fail(p) /\ UNCHANGED <<table, verified>>
  /\ UNCHANGED <<tree, testdata, fetched, starts, faults>>

-------------------------------------------------------------------------------
(* The world *)

\* A call returns an error (no network, disk full).
Error(p) ==
  /\ proc[p].pc \notin Ended \cup {"checking out", "cloning"}
  /\ Fail(p) /\ Fault
  /\ UNCHANGED <<tree, out, starts>>

\* w3cgen and the git it runs are killed: what was being written stays torn.  A
\* clone is cleaned up by git, or stays as a directory git does not know, or as
\* one it can go on with; git gives up the index if it still can.
Kill(p) ==
  /\ proc[p].pc \notin Ended /\ Fault
  /\ repo' \in IF At(p, "cloning") THEN {"absent", "broken", "repo"} ELSE {repo}
  /\ locked' \in IF At(p, "checking out") THEN BOOLEAN ELSE {locked}
  /\ CASE At(p, "copy") /\ proc[p].files # <<>> ->
            /\ Put(This(p), Head(proc[p].files), Torn)
            /\ fetched' = [fetched EXCEPT ![This(p)] = None]
            /\ Disturbing(p, [Idle EXCEPT !.pc = "failed"], On(This(p)))
            /\ UNCHANGED <<table, verified>>
       [] At(p, "table") /\ proc[p].cmd = "generate" ->
            /\ table' = [table EXCEPT ![This(p)] = TornTable]
            /\ verified' = [verified EXCEPT ![This(p)] = None]
            /\ Fail(p) /\ UNCHANGED <<testdata, fetched>>
       [] OTHER -> Fail(p) /\ UNCHANGED out
  /\ UNCHANGED <<work, head, starts>>

\* Somebody clears the checkout away while nothing runs.
RemoveSource ==
  /\ \A p \in Proc : proc[p].pc \in Ended
  /\ repo # "absent"
  /\ repo' = "absent" /\ locked' = FALSE /\ work' = NoFiles /\ head' = None
  /\ UNCHANGED <<out, proc, starts, faults>>

Advance(p) ==
  \/ NextSuite(p) \/ StatSource(p) \/ GitClone(p) \/ GitCloned(p) \/ GitFetch(p)
  \/ GitCheckout(p) \/ GitCheckedOut(p) \/ ListFixtures(p) \/ CopyFile(p) \/ FetchDone(p)
  \/ Enumerate(p) \/ WriteGoFile(p)

Next ==
  \/ \E p \in Proc : Start(p) \/ Advance(p) \/ Error(p) \/ Kill(p)
  \/ RemoveSource

Spec == Init /\ [][Next]_vars
FairSpec == Spec /\ \A p \in Proc : WF_vars(Advance(p))

-------------------------------------------------------------------------------
(* Properties *)

\* A fetch that ends green, that no other invocation disturbed and that did not
\* inherit a half-changed tree of the very commit it wants, has put every file of
\* the commit its lock entry pinned where the suite reads it, whatever else was
\* checked out before and whatever a killed fetch had left (fetchGit, Fetch).
FetchedIsPinned ==
  \A s \in Suite : fetched[s] # None =>
    LET t == IF s \in Shared THEN Tree[fetched[s]] ELSE Committed IN
    \A f \in ToSet(Copies(s, t)) : f \in DOMAIN testdata[s] /\ testdata[s][f] = fetched[s]

\* Fetch and generate (or verify) run apart, each green and on the same commit,
\* agree: the table has the cases of that commit, and each finds the files it
\* names, vector and key, whole and of that commit, if the commit has them.
VerifiedCasesFindVectors ==
  \A s \in Suite : verified[s] # None =>
    LET t == IF s \in Shared THEN Tree[verified[s]] ELSE Committed IN
    /\ table[s] = Cases(s, t)
    /\ fetched[s] = verified[s] =>
         \A f \in t \cap UNION table[s] : f \in DOMAIN testdata[s] /\ testdata[s][f] = fetched[s]

\* Every command ends: nobody waits for a checkout another holds.
CommandsEnd == \A p \in Proc : proc[p].pc \notin Ended ~> proc[p].pc \in Ended

Path == ToSet(Paths) \cup {<<"ext", "xml-stylesheet">>}
Named == Path \cup {<<"core", "key.p12">>, <<"c14n11", "input">>, <<"c14n11", "output">>}

Control == Ended \cup {"next", "stat", "clone", "cloning", "fetch", "checkout", "checking out",
                        "list", "copy", "enumerate", "table"}
Invocation ==
  [cmd : {None, "fetch", "generate", "verify"}, todo : Seq(Suite), lock : Lock, pc : Control,
   files : Seq(Path), cases : SUBSET SUBSET Named, from : Commit \cup {None, Here}, alone : BOOLEAN]

\* Types of the variables; while git holds the index, nobody believes the
\* checkout is theirs alone.
TypeOK ==
  /\ repo \in {"absent", "foreign", "broken", "repo"} /\ locked \in BOOLEAN
  /\ head \in Commit \cup {None} /\ (locked => \A p \in Sharing : ~proc[p].alone)
  /\ \A f \in DOMAIN work : work[f] \in Commit /\ f \in Tree[work[f]]
  /\ DOMAIN testdata = Suite /\ table \in [Suite -> SUBSET SUBSET Named]
  /\ \A s \in Suite : \A f \in DOMAIN testdata[s] : testdata[s][f] \in Commit \cup {Torn, Here}
  /\ proc \in [Proc -> Invocation] /\ starts \in 0..MaxStarts /\ faults \in 0..MaxFaults
  /\ \A p \in Proc : proc[p].pc \in Ended \cup {"next"} \/ (proc[p].todo # <<>> /\ This(p) \in DOMAIN proc[p].lock)
  /\ fetched \in [Suite -> Commit \cup {None, Here}] /\ verified \in [Suite -> Commit \cup {None, Here}]
===============================================================================
