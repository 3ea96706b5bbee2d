------------------------------ MODULE MCFetchZip ------------------------------
(***************************************************************************)
(* Instances of FetchZip: two or three invocations, an archive of two      *)
(* entries, one without any, and a download that is not a zip file.        *)
(***************************************************************************)
EXTENDS FetchZip, TLC

CONSTANTS good, hollow, junk, e1, e2

MCEntries == (good :> {e1, e2}) @@ (hollow :> {}) @@ (junk :> {e1})
===============================================================================
