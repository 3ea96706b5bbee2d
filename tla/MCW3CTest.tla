------------------------------ MODULE MCW3CTest ------------------------------
(***************************************************************************)
(* Instances of W3CTest for TLC.  Alone, a case takes every combination of *)
(* expectation, expected validity, one or two schema documents and up to   *)
(* two instances in any fixture state; in pairs, cases from a smaller set, *)
(* so that what one case does to the next and to the reports is met.       *)
(***************************************************************************)
EXTENDS W3CTest

Upto(n) == UNION {[1..k -> FileState] : k \in 0..n}

Listed == {"none", "skip", "xfail"}

\* One or two documents; what stops the reading of them comes last.
Docs == {<<d>> : d \in FileState} \cup {<<"present", d>> : d \in FileState}

SingleCases == [listed : Listed, expect : {"accept", "reject"}, docs : Docs, insts : Upto(2)]

\* Cases for the pairs: one document, at most one instance.
PairCases == [listed : Listed, expect : {"accept"},
              docs : {<<"present">>}, insts : Upto(1)]

XSDCatalogs ==
  {<<>>} \cup {<<a>> : a \in SingleCases} \cup {<<a, b>> : a, b \in PairCases}

\* Cases of xml: one document of each TYPE.
XMLCases == [listed : Listed, expect : {"accept", "reject", "either", "unknown"},
             docs : {<<d>> : d \in FileState}, insts : {<<>>}]
XMLCatalogs ==
  {<<>>} \cup {<<a>> : a \in XMLCases} \cup {<<a, b>> : a \in XMLCases, b \in PairCases \cap XMLCases}

MCCatalogs == [n \in {"xsd10", "xsd11", "xml"} |-> IF n = "xml" THEN XMLCatalogs ELSE XSDCatalogs]
===============================================================================
