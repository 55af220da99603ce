----------------------------- MODULE ScoopsTraffic ---------------------------
(***************************************************************************)
(* Scoops under two kinds of traffic, of which a behaviour has one from    *)
(* its start: requests that delete no scoop, at any time; or every request, *)
(* where requests do not overlap and those about a scoop name no namespace  *)
(* but that of its row, which no PUT changes.                               *)
(***************************************************************************)
EXTENDS Scoops

VARIABLES
    serial,  \* requests do not overlap
    home     \* home[s]: where requests do not overlap, the namespace of the row

trafficVars == <<vars, serial, home>>

(* No other worker has a request under way.                                 *)
Alone(w) == \A v \in Worker \ {w} : pc[v] = "idle"

(* No request that deletes a scoop is under way.                            *)
NothingDrops == \A w \in Worker : pc[w] \notin {"check", "drop"} /\ mode[w] = "none"

(* The request of w is about a scoop in the namespace of its row.           *)
AtHome(w) == pc[w] \in {"idle", "insert"} \/ ns[w] = home[target[w]]

(* A row keeps its namespace; a new row of that name may have another.      *)
Settled == \A s \in Scoop : row[s] # NoRow => home'[s] = home[s]

TrafficInit == Init /\ serial \in BOOLEAN /\ home \in [Scoop -> Namespace]

TrafficNext ==
    \/ /\ serial /\ UNCHANGED serial
       /\ home' \in [Scoop -> Namespace] /\ Settled
       /\ \E w \in Worker : Alone(w) /\ Act(w) /\ AtHome(w)'
    \/ ~serial /\ Next /\ NothingDrops' /\ UNCHANGED <<serial, home>>

TrafficSpec == TrafficInit /\ [][TrafficNext]_trafficVars

(* UndeployedIsGone where requests do not overlap: when DELETE              *)
(* ?undeploy=true drops the row, workload and Service have left the cluster.*)
SerialUndeployedIsGone == serial => UndeployedIsGone

(* NoOrphans where requests do not overlap: no workload and no Service is   *)
(* left without a row, unless the DELETE was forced or could not ask the    *)
(* cluster.                                                                 *)
SerialNoOrphans == serial => NoOrphans

=============================================================================
