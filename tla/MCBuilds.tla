------------------------------ MODULE MCBuilds -------------------------------
(* Small instances of Builds for TLC.                                       *)
EXTENDS Builds, TLC

(* Deliveries are interchangeable, and so are workers.                      *)
Interchangeable == Permutations(Push) \cup Permutations(Worker)

(* Nothing reads the columns version of the scoops and current_version of   *)
(* the application again, so two states that differ there only are one.     *)
Relevant == <<jenkinsVars, rec, own, unlocated, pc, localVars>>

=============================================================================
