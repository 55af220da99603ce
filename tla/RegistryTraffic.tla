---------------------------- MODULE RegistryTraffic --------------------------
(***************************************************************************)
(* Registry under two kinds of traffic, of which a behaviour has one from  *)
(* its start: every request, at any time; or requests that do not overlap, *)
(* of clients that leave a scoop in the namespace its application gave it. *)
(***************************************************************************)
EXTENDS Registry

VARIABLE serial

trafficVars == <<vars, serial>>

(* No other worker has a request under way.                                 *)
Alone(w) == \A v \in Worker \ {w} : pc[v] = "idle"

(* No request moves a scoop or names a namespace for it.                    *)
Plain ==
    \A w \in Worker :
        /\ pc[w] # "storeScoop"
        /\ pc[w] = "insertScoop" => seen[w].ns = OwnNamespace(seen[w].app)

TrafficInit == Init /\ serial \in BOOLEAN

TrafficNext ==
    \/ serial /\ (\E w \in Worker : Alone(w) /\ Act(w)) /\ Plain' /\ UNCHANGED serial
    \/ ~serial /\ Next /\ UNCHANGED serial

TrafficSpec == TrafficInit /\ [][TrafficNext]_trafficVars

(* DeadLeavesNothing where requests do not overlap: what is no longer       *)
(* registered has left the cluster, or its deletion has left it there.      *)
SerialDeadLeavesNothing == serial => DeadLeavesNothing

(* RouteReachesScoop where requests do not overlap: the Ingress of a domain *)
(* is applied in the namespace of its scoop.                                *)
SerialRouteReachesScoop == [][serial => RouteReachesScoop]_trafficVars

=============================================================================
