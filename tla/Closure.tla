-------------------------------- MODULE Closure --------------------------------
(***************************************************************************)
(* The search for the fixtures of a case: schemaClosure (xsd11) from the   *)
(* documents of a test along their schema locations, collectClosure (xml)  *)
(* from a test document along its external DTD and entity references.      *)
(* Both keep a queue and a set of what has been enqueued; references may   *)
(* form cycles, share targets, leave the suite or name nothing.            *)
(*                                                                         *)
(* A path that escapes the suite root is a file that cannot be read: both  *)
(* are dropped at the same place.                                          *)
(***************************************************************************)
EXTENDS Naturals, Sequences

CONSTANTS
  File,    \* clean paths relative to the suite root
  Remote,  \* an http(s) URL
  Disks    \* the checkouts searched: see DiskType

\* start: where the search begins; preset: what the case needs anyway (its
\* OUTPUT); refs: the references in each file, in order; scanned: the files
\* whose references are followed (all of them in schemaClosure).
DiskType ==
  [start : Seq(File), preset : SUBSET File, readable : SUBSET File,
   scanned : SUBSET File, refs : [File -> Seq(File \cup {Remote})]]

ASSUME ClosureAssumption == Disks \subseteq DiskType /\ Remote \notin File

VARIABLES
  disk,      \* the checkout
  queue,     \* files still to be visited
  enqueued,  \* files that have ever been in the queue
  links,     \* references still to be looked at, of the file just read
  fixtures,  \* the result
  read       \* history: the files that have been read

vars == <<disk, queue, enqueued, links, fixtures, read>>

Elems(s) == {s[i] : i \in 1..Len(s)}

Init ==
  /\ disk \in Disks
  /\ queue = <<>> /\ enqueued = {}
  /\ links = disk.start
  /\ fixtures = disk.preset
  /\ read = {}

\* Slip: the check for what was enqueued before is left out.
IsNewSlip(f) == f # Remote

\* Slip: the check for an absolute URL is left out.
IsNewRemoteSlip(f) == f \notin enqueued

\* if isAbsoluteURL { continue }; if !enqueued
IsNew(f) == f # Remote /\ f \notin enqueued

\* One turn of the loop over the documents given, or over the references of
\* the file just read.
Follow ==
  /\ links # <<>>
  /\ links' = Tail(links)
  /\ IF IsNew(Head(links))
     THEN /\ enqueued' = enqueued \cup {Head(links)}
          /\ queue' = Append(queue, Head(links))
     ELSE UNCHANGED <<enqueued, queue>>
  /\ UNCHANGED <<disk, fixtures, read>>

\* Slip: the references of the file are not looked at.
VisitSlip ==
  /\ links = <<>> /\ queue # <<>>
  /\ Head(queue) \in disk.readable
  /\ queue' = Tail(queue)
  /\ fixtures' = fixtures \cup {Head(queue)}
  /\ read' = read \cup {Head(queue)}
  /\ UNCHANGED <<disk, enqueued, links>>

Visit ==
  /\ links = <<>> /\ queue # <<>>
  /\ Head(queue) \in disk.readable
  /\ queue' = Tail(queue)
  /\ fixtures' = fixtures \cup {Head(queue)}
  /\ read' = read \cup {Head(queue)}
  /\ links' = IF Head(queue) \in disk.scanned THEN disk.refs[Head(queue)] ELSE <<>>
  /\ UNCHANGED <<disk, enqueued>>

\* Slip: the file stays at the head of the queue.
DropSlip ==
  /\ links = <<>> /\ queue # <<>>
  /\ Head(queue) \notin disk.readable
  /\ UNCHANGED vars

\* The file is missing, or outside the suite: it is passed over.
Drop ==
  /\ links = <<>> /\ queue # <<>>
  /\ Head(queue) \notin disk.readable
  /\ queue' = Tail(queue)
  /\ UNCHANGED <<disk, enqueued, links, fixtures, read>>

Next == Follow \/ Visit \/ Drop

Spec == Init /\ [][Next]_vars

\* The search is one sequential loop.
FairSpec == Spec /\ WF_vars(Next)

-------------------------------------------------------------------------------
(* Properties *)

\* Types of the variables; a remote reference never gets into the queue.
TypeOK ==
  /\ disk \in DiskType
  /\ queue \in Seq(File) /\ enqueued \in SUBSET File
  /\ links \in Seq(File \cup {Remote})
  /\ fixtures \in SUBSET File /\ read \in SUBSET File

\* S holds the readable files among those given and, with a file whose
\* references are followed, the readable files it refers to.
Closed(S) ==
  /\ Elems(disk.start) \cap disk.readable \subseteq S
  /\ \A f \in S \cap disk.scanned : Elems(disk.refs[f]) \cap disk.readable \subseteq S

\* What a reader of the start documents can come across.
Reachable == {f \in disk.readable : \A S \in SUBSET disk.readable : Closed(S) => f \in S}

Done == queue = <<>> /\ links = <<>>

\* The result is the transitive closure, neither more nor less, beside what the
\* case needs anyway: a reader that follows the same references finds every
\* file in testdata, and no other file is copied.
FindsReachable == Done => fixtures = disk.preset \cup Reachable

\* No file is read twice, however many references lead to it.
ReadsOnce ==
  /\ Elems(queue) \cap read = {}
  /\ \A i, j \in 1..Len(queue) : queue[i] = queue[j] => i = j

\* The search ends on every graph, cycles included.
Terminates == <>[]Done
===============================================================================
