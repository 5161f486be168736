---------------------------- MODULE MCJobQueue ----------------------------
(***************************************************************************)
(* JobQueue for TLC.  Two requests race for a folder that comes and goes,  *)
(* two instances poll, and three tickets let a third request meet a job in *)
(* progress.  Folders, requests and instances are interchangeable, tickets *)
(* are not; the runs with liveness properties do without the symmetry.     *)
(***************************************************************************)
EXTENDS JobQueue, TLC

Interchangeable ==
    Permutations(Folder) \cup Permutations(Client) \cup Permutations(Instance)
===========================================================================
