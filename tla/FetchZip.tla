-------------------------------- MODULE FetchZip --------------------------------
(***************************************************************************)
(* `w3cgen fetch' of a zip-pinned suite (internal/generator/fetch.go): the *)
(* archive is downloaded, checked against the sha256 of suites.lock.json,  *)
(* unpacked into a temporary sibling of the source directory and renamed   *)
(* into place.  Any number of invocations may run at once, each may fail   *)
(* at any call or be killed between two calls and be run again, and the    *)
(* lock file may be repinned meanwhile.                                    *)
(*                                                                         *)
(* An archive stands for its bytes, so the comparison of digests is the    *)
(* comparison of archives.  A directory tree is the archive it came from   *)
(* and the entries unpacked so far; an entry half written is not counted,  *)
(* since only a complete tree is ever looked at.                           *)
(***************************************************************************)
EXTENDS Naturals

CONSTANTS
  Procs,       \* invocations of w3cgen
  Archives,    \* contents the server may send
  Entries,     \* Entries[a]: the entries of archive a
  NotZip,      \* contents zip.NewReader rejects
  Unpinned,    \* the empty sha256: the lock has no digest yet
  FirstPin,    \* the sha256 in the lock file at the start
  None,        \* no directory, or no data
  MaxCrashes   \* bound on the kills explored

Tree == [archive : Archives, entries : SUBSET UNION {Entries[a] : a \in Archives}]

ASSUME FetchAssumption ==
  /\ NotZip \subseteq Archives
  /\ None \notin Archives /\ None \notin Tree
  /\ Unpinned \notin Archives
  /\ FirstPin \in Archives \cup {Unpinned}
  /\ MaxCrashes \in Nat

VARIABLES
  pin,        \* the sha256 in suites.lock.json
  published,  \* history: every sha256 the lock file has had
  source,     \* the tree at sourceDir, or None
  pc,         \* control point of each invocation
  want,       \* the sha256 each invocation read from the lock
  data,       \* the archive it downloaded
  tmp,        \* its temporary directory, or None
  litter,     \* temporary directories whose owner was killed
  crashes     \* invocations killed so far

vars == <<pin, published, source, pc, want, data, tmp, litter, crashes>>
world == <<pin, published, litter, crashes>>

Complete(tree) == tree.entries = Entries[tree.archive]

Idle == {"idle", "ok", "err"}

Init ==
  /\ pin = FirstPin
  /\ published = {FirstPin}
  /\ source = None
  /\ pc = [p \in Procs |-> "idle"]
  /\ want = [p \in Procs |-> Unpinned]
  /\ data = [p \in Procs |-> None]
  /\ tmp = [p \in Procs |-> None]
  /\ litter = 0
  /\ crashes = 0

Goto(p, l) == pc' = [pc EXCEPT ![p] = l]

\* The calls before MkdirTemp only change control and the process's own memory.
Step(p, from, to) ==
  /\ pc[p] = from
  /\ Goto(p, to)
  /\ UNCHANGED <<pin, published, source, tmp, litter, crashes>>

-------------------------------------------------------------------------------
\* LoadLock: the pin is read once, at the start.
Start(p) ==
  /\ pc[p] \in Idle
  /\ Step(p, pc[p], "stat")
  /\ want' = [want EXCEPT ![p] = pin]
  /\ data' = [data EXCEPT ![p] = None]

\* "already present; skipping download": whatever is there is taken as it is.
StatPresent(p) ==
  /\ source # None
  /\ Step(p, "stat", "ok")
  /\ UNCHANGED <<want, data>>

StatAbsent(p) ==
  /\ source = None
  /\ Step(p, "stat", "download")
  /\ UNCHANGED <<want, data>>

Download(p, a) ==
  /\ Step(p, "download", "verify")
  /\ data' = [data EXCEPT ![p] = a]
  /\ UNCHANGED want

\* Slip: the digest is computed and not compared.
DigestAgreesSlip(p) == TRUE

DigestAgrees(p) == want[p] \in {Unpinned, data[p]}

\* The digest agrees, or there is none to agree with; the archive opens.
Verified(p) ==
  /\ DigestAgrees(p)
  /\ data[p] \notin NotZip
  /\ Step(p, "verify", "mktemp")
  /\ UNCHANGED <<want, data>>

\* Slip: a rejected download is tried again at once.
RejectedSlip(p) ==
  /\ ~DigestAgrees(p) \/ data[p] \in NotZip
  /\ Step(p, "verify", "download")
  /\ UNCHANGED <<want, data>>

Rejected(p) ==
  /\ ~DigestAgrees(p) \/ data[p] \in NotZip
  /\ Step(p, "verify", "err")
  /\ UNCHANGED <<want, data>>

\* Slip: the error of the download is not returned.
FailEarlySlip(p) ==
  /\ Step(p, "download", "verify")
  /\ UNCHANGED <<want, data>>

\* An error of the system before the temporary directory exists: stat, request,
\* status, body, MkdirAll or MkdirTemp.
FailEarly(p) ==
  /\ \E l \in {"stat", "download", "mktemp"} : Step(p, l, "err")
  /\ UNCHANGED <<want, data>>

MkdirTemp(p) ==
  /\ pc[p] = "mktemp"
  /\ Goto(p, "extract")
  /\ tmp' = [tmp EXCEPT ![p] = [archive |-> data[p], entries |-> {}]]
  /\ UNCHANGED <<source, want, data, world>>

ExtractZipEntry(p) ==
  /\ pc[p] = "extract"
  /\ \E e \in Entries[tmp[p].archive] \ tmp[p].entries :
       tmp' = [tmp EXCEPT ![p].entries = @ \cup {e}]
  /\ UNCHANGED <<source, pc, want, data, world>>

\* Slip: the error of an entry that cannot be unpacked is not returned.
ExtractDoneSlip(p) ==
  /\ pc[p] = "extract"
  /\ Goto(p, "rename")
  /\ UNCHANGED <<source, want, data, tmp, world>>

ExtractDone(p) ==
  /\ pc[p] = "extract"
  /\ Complete(tmp[p])
  /\ Goto(p, "rename")
  /\ UNCHANGED <<source, want, data, tmp, world>>

\* Slip: an existing directory is removed first.
RenameWorksSlip == TRUE

\* os.Rename moves a directory onto nothing, or onto an empty directory.
RenameWorks == source # None => source.entries = {}

Rename(p) ==
  /\ pc[p] = "rename"
  /\ RenameWorks
  /\ source' = tmp[p]
  /\ tmp' = [tmp EXCEPT ![p] = None]
  /\ Goto(p, "ok")
  /\ UNCHANGED <<want, data, world>>

\* Slip: no deferred RemoveAll.
FailLateSlip(p) ==
  /\ pc[p] \in {"extract", "rename"}
  /\ Goto(p, "err")
  /\ UNCHANGED <<source, want, data, tmp, world>>

\* An entry cannot be unpacked, or the rename fails: the deferred RemoveAll runs.
FailLate(p) ==
  /\ pc[p] \in {"extract", "rename"}
  /\ tmp' = [tmp EXCEPT ![p] = None]
  /\ Goto(p, "err")
  /\ UNCHANGED <<source, want, data, world>>

\* The process is killed: no deferred call runs.
Crash(p) ==
  /\ pc[p] \notin Idle
  /\ crashes < MaxCrashes
  /\ crashes' = crashes + 1
  /\ litter' = IF tmp[p] = None THEN litter ELSE litter + 1
  /\ tmp' = [tmp EXCEPT ![p] = None]
  /\ Goto(p, "idle")
  /\ UNCHANGED <<pin, published, source, want, data>>

\* suites.lock.json is edited: a new digest is committed.
Repin(d) ==
  /\ pin' = d
  /\ published' = published \cup {d}
  /\ UNCHANGED <<source, pc, want, data, tmp, litter, crashes>>

Advance(p) ==
  \/ StatPresent(p) \/ StatAbsent(p)
  \/ \E a \in Archives : Download(p, a)
  \/ Verified(p) \/ Rejected(p) \/ FailEarly(p)
  \/ MkdirTemp(p) \/ ExtractZipEntry(p) \/ ExtractDone(p)
  \/ Rename(p) \/ FailLate(p)

Next ==
  \/ \E p \in Procs : Start(p) \/ Advance(p) \/ Crash(p)
  \/ \E d \in Archives \cup {Unpinned} : Repin(d)

\* A started invocation runs on by itself; starting one is the user's choice.
Fairness == \A p \in Procs : WF_vars(Advance(p))

Spec == Init /\ [][Next]_vars

FairSpec == Spec /\ Fairness

-------------------------------------------------------------------------------
(* Properties.                                                             *)

PC == Idle \cup {"stat", "download", "verify", "mktemp", "extract", "rename"}

\* Type invariant.
TypeOK ==
  /\ pin \in Archives \cup {Unpinned}
  /\ published \subseteq Archives \cup {Unpinned}
  /\ source \in Tree \cup {None}
  /\ pc \in [Procs -> PC]
  /\ want \in [Procs -> Archives \cup {Unpinned}]
  /\ data \in [Procs -> Archives \cup {None}]
  /\ tmp \in [Procs -> Tree \cup {None}]
  /\ litter \in Nat
  /\ crashes \in 0..MaxCrashes

\* The comment on fetchZip's rename: no failure or interruption, and no race of
\* two invocations, ever leaves a source directory that is not all of an archive.
SourceIsComplete == source # None => Complete(source)

\* The source directory never holds bytes that no lock file asked for: while a
\* digest has always been pinned, its archive is one of the pinned ones.
SourceIsPinned ==
  source # None =>
    /\ source.archive \notin NotZip
    /\ source.archive \in published \/ Unpinned \in published

\* An invocation that reports success leaves a source directory behind, also
\* when it lost the race for the rename; one that ends by itself leaves no
\* temporary directory, and only kills leave litter.
OutcomeIsHonest ==
  /\ \A p \in Procs : pc[p] = "ok" => source # None
  /\ \A p \in Procs : pc[p] \in Idle => tmp[p] = None
  /\ litter <= crashes

\* The directory changes from outside as AtomicInstall says.
Torn == [torn |-> TRUE]
installed == IF source = None THEN None
             ELSE IF Complete(source) THEN source.archive ELSE Torn

AI == INSTANCE AtomicInstall WITH
        Archives <- Archives \ NotZip,
        Hollow <- {a \in Archives \ NotZip : Entries[a] = {}}

InstallsAtomically == AI!InstallSpec

\* Every invocation ends, or is killed.
FetchEnds == \A p \in Procs : pc[p] = "stat" ~> pc[p] \in Idle
===============================================================================
