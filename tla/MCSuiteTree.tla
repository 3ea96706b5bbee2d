------------------------------ MODULE MCSuiteTree ------------------------------
(***************************************************************************)
(* Instances of SuiteTree: revisions that differ in what can go wrong      *)
(* between them.                                                           *)
(***************************************************************************)
EXTENDS SuiteTree, TLC

CONSTANTS f1, f2, f3, a, b, old, new, gap

\* The catalog of new has no table b, and its table a reads more; gap counts
\* as many cases as new and names a file its checkout lacks.
MCOverlaid ==
  (old :> [tables |-> (a :> {f1}) @@ (b :> {f2}), extra |-> {},
           files |-> {f1, f2}, count |-> 2]) @@
  (new :> [tables |-> (a :> {f1, f2}), extra |-> {},
           files |-> {f1, f2}, count |-> 1]) @@
  (gap :> [tables |-> (a :> {f1}), extra |-> {f2}, files |-> {f1}, count |-> 1])

\* new no longer needs f2 and lacks f3, which it names.
MCRebuilt ==
  (old :> [tables |-> (a :> {f1}) @@ (b :> {f2}), extra |-> {f3},
           files |-> {f1, f2, f3}, count |-> 2]) @@
  (new :> [tables |-> (a :> {f1, f3}), extra |-> {}, files |-> {f1, f2}, count |-> 2])
===============================================================================
