------------------------------- MODULE MCClosure -------------------------------
(***************************************************************************)
(* Closure over every graph of three files with a few lists of references  *)
(* each: none, one, two, twice the same, a remote one first.               *)
(***************************************************************************)
EXTENDS Closure

CONSTANTS a, b, c

MCRefs == {<<>>, <<a>>, <<b>>, <<c>>, <<a, b>>, <<c, b>>, <<b, b>>, <<Remote, c>>}

\* A file is missing, read without being scanned, or scanned.
MCDisks ==
  {d \in [start : {<<a>>, <<b, a, b>>}, preset : {{}, {c}}, readable : SUBSET {a, b, c},
          scanned : SUBSET {a, b, c}, refs : [{a, b, c} -> MCRefs]] :
     d.scanned \subseteq d.readable}
===============================================================================
