------------------------------ MODULE MCRegistry -----------------------------
(* A small instance of Registry under both kinds of traffic for TLC.        *)
EXTENDS RegistryTraffic, TLC

(* Ids are interchangeable, and so are workers.                             *)
Interchangeable == Permutations(Worker) \cup Permutations(App)
                   \cup Permutations(Scoop) \cup Permutations(Domain)

(* Where requests overlap the rows are what the properties are about, and   *)
(* nothing in the cluster decides what becomes of them: a check that finds  *)
(* objects only ends the request, as a crash does as well.  Nothing reads   *)
(* spared anywhere.                                                         *)
Relevant == <<rowVars, pc, localVars, serial, IF serial THEN clusterVars ELSE <<>> >>

=============================================================================
