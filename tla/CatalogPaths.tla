------------------------------ MODULE CatalogPaths ------------------------------
(***************************************************************************)
(* What the readers of the suites' catalogs share: paths, the first reason *)
(* to skip that counts, the scan for a catalog.  qt3 and xslt30 have paths  *)
(* <<directory, name>>, where "." is the root of the suite and <<"..", name>> *)
(* leaves it; xsd11 and xml have sequences of as many names as it takes.    *)
(***************************************************************************)
EXTENDS Naturals, Sequences, FiniteSets, SequencesExt, TLC

\* filepath.Join cleans: "../a" in a subdirectory is a file of the root.
Up == [f \in {"../a"} |-> "a"]
Join(dir, file) ==
  IF file \in DOMAIN Up THEN <<IF dir = "." THEN ".." ELSE ".", Up[file]>> ELSE <<dir, file>>

\* path.Clean: a name and the ".." behind it go; what is left of "../" leaves the root.
Onto(p, n) == IF n = ".." /\ p # <<>> /\ Last(p) # ".." THEN Front(p) ELSE Append(p, n)
Clean(names) ==
  LET clean[n \in 0..Len(names)] == IF n = 0 THEN <<>> ELSE Onto(clean[n - 1], names[n])
  IN clean[Len(names)]

\* A path of xsd11 or xml.
IsPath(names) == names \in Seq(STRING)

\* The references that are URLs are those that begin with a scheme.
IsURL(ref) == ref # <<>> /\ ref[1] = "http:"

IsList(s) == s \in Seq(ToSet(s))

\* What is in S of a list, in order.
Among(seq, S) ==
  LET kept[n \in 0..Len(seq)] ==
        IF n = 0 THEN <<>> ELSE IF seq[n] \in S THEN Append(kept[n - 1], seq[n]) ELSE kept[n - 1]
  IN kept[Len(seq)]

\* All that is reached from start, where x leads to next[x]: one round per file
\* and one more find everything.
Grown(s, next) == s \cup UNION {next[x] : x \in s \cap DOMAIN next}
Reached(start, next) ==
  LET after[n \in Nat] == IF n = 0 THEN start ELSE Grown(after[n - 1], next)
  IN after[Cardinality(DOMAIN next) + 1]

\* Trees: children leads from each node of A to others, and never back.
IsTree(A, children) ==
  /\ IsFiniteSet(A) /\ children \in [A -> SUBSET A]
  /\ \A a \in A : a \notin Reached(children[a], children)

ContainedPath(p) == p # <<>> => p[1] # ".."

FirstReason(reasons) == Head(Append(Among(reasons, ToSet(reasons) \ {""}), ""))

\* The catalog the generic scan finds first in a lexical walk: another file of
\* the name sorts before the one at the top.
FoundCatalog(src) == IF src.stray = "absent" THEN src.top ELSE src.stray

\* What the scan says of a source directory: no catalog, none readable, or one.
ReadCatalogInfo(src) ==
  CASE src.dir = "absent" -> "none"
    [] src.dir = "file" -> "fails"
    [] src.dir = "dir" ->
         CASE FoundCatalog(src) = "absent" -> "none"
           [] FoundCatalog(src) = "bad" -> "fails"
           [] FoundCatalog(src) = "good" -> "found"

\* What can be found of a checkout: without a directory there is no catalog.
IsScanned(src) ==
  /\ src.dir \in {"absent", "file", "dir"} /\ {src.top, src.stray} \subseteq {"absent", "bad", "good"}
  /\ src.dir # "dir" => src.top = "absent" /\ src.stray = "absent"

NoPlan == [ok |-> TRUE, cases |-> 0, runnable |-> 0, skipped |-> 0, excluded |-> 0]
=================================================================================
