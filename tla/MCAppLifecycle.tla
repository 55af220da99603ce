--------------------------- MODULE MCAppLifecycle ---------------------------
(* Small instances of AppLifecycle for TLC.                                 *)
EXTENDS AppLifecycle, TLC

(* Creation requests are interchangeable, and so are workers.               *)
Interchangeable == Permutations(Req) \cup Permutations(Worker)

(* A body that brings everything along, and one that has both repositories *)
(* created.                                                                 *)
GivenBody == {[github |-> "given", dockerGiven |-> TRUE]}
FullBody  == {[github |-> "create", dockerGiven |-> FALSE]}

AllBodies == Plan

=============================================================================
