----------------------------- MODULE AtomicInstall -----------------------------
(***************************************************************************)
(* What fetchZip promises of a zip-pinned suite's source directory, seen   *)
(* from outside: it holds nothing, or all of one acceptable archive, which *)
(* arrives in one step and is then left alone.  (An archive without a      *)
(* single entry unpacks to an empty directory, which os.Rename may replace *)
(* by another one.)                                                        *)
(***************************************************************************)
CONSTANTS
  Archives,   \* archives that may be installed
  Hollow,     \* those without an entry
  None        \* the directory does not exist

VARIABLE installed

InstallInit == installed = None

Install(a) ==
  /\ installed \in Hollow \cup {None}
  /\ installed' = a

InstallNext == \E a \in Archives : Install(a)

InstallSpec == InstallInit /\ [][InstallNext]_installed
===============================================================================
