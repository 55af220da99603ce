------------------------------ MODULE MCScoops -------------------------------
(* A small instance of Scoops under both kinds of traffic for TLC.          *)
EXTENDS ScoopsTraffic, TLC

(* Names of scoops are interchangeable, and so are workers.                 *)
Interchangeable == Permutations(Scoop) \cup Permutations(Worker)

(* Where requests do not overlap one port is enough to be handed out again, *)
(* where they do two statuses are: TLC goes no further where two rows have  *)
(* a port, or one is in error.                                              *)
Small ==
    IF serial THEN \A s, t \in Scoop : row[s].port # None /\ row[t].port # None => s = t
    ELSE \A s \in Scoop : status[s] # "error"

=============================================================================
