---------------------------- MODULE MCFolderRuns ----------------------------
(***************************************************************************)
(* FolderRuns for TLC: one folder with two files and one job, two          *)
(* instances that may be killed and started again, and two runs, which     *)
(* overlap or follow one another.                                          *)
(***************************************************************************)
EXTENDS FolderRuns, TLC
=============================================================================
