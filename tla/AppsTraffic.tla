----------------------------- MODULE AppsTraffic -----------------------------
(***************************************************************************)
(* AppLifecycle under two kinds of traffic, of which a behaviour has one   *)
(* from its start: creations of all there is to create, at any time; or    *)
(* requests of every body that do not overlap.                             *)
(***************************************************************************)
EXTENDS AppLifecycle

VARIABLE serial

trafficVars == <<vars, serial>>

(* A body that has both repositories created.                               *)
FullPlan == [github |-> "create", dockerGiven |-> FALSE]

Crowd == INSTANCE AppLifecycle WITH Bodies <- {FullPlan}

(* No other worker has a request under way.                                 *)
Alone(w) == \A v \in Worker \ {w} : pc[v] = "idle"

TrafficInit == Init /\ serial \in BOOLEAN

TrafficNext ==
    /\ UNCHANGED serial
    /\ \/ serial /\ \E w \in Worker : Alone(w) /\ Act(w)
       \/ serial /\ \E s \in Slug : NamespaceGone(s)
       \/ ~serial /\ Crowd!Next

TrafficSpec == TrafficInit /\ [][TrafficNext]_trafficVars

(* OkAppIsBacked where requests do not overlap: an app with status ok has   *)
(* the repositories it did not bring along and its Jenkins job.             *)
SerialOkAppIsBacked == serial => OkAppIsBacked

(* RollbackRemovesOwn where requests do not overlap: _rollback_external     *)
(* removes what its own request made and nothing else.                      *)
SerialRollbackRemovesOwn ==
    [][serial =>
         \A w \in Worker, k \in Kind, s \in Slug :
             pc[w] = "rollback" /\ flags'[w] # flags[w] /\ owner'[k][s] # owner[k][s]
               => owner[k][s] = job[w].id]_trafficVars

=============================================================================
