------------------------------- MODULE Scoops --------------------------------
(***************************************************************************)
(* Scoops (app/modules/scoops): the row of a workload, the port of its     *)
(* Service out of a pool shared by all scoops, and the objects that deploy *)
(* and undeploy apply to and remove from the cluster.                      *)
(*                                                                         *)
(* Objects are found by the name of the scoop in a namespace, rows by an   *)
(* id: when a row goes, the sessions that have loaded it hold a row that   *)
(* is not there (live).                                                    *)
(***************************************************************************)
EXTENDS Naturals

CONSTANTS
    Worker,      \* gunicorn worker processes
    Scoop,       \* names of scoops
    Namespace,   \* Kubernetes namespaces
    Port,        \* the pool SERVICE_PORT_RANGE_START..SERVICE_PORT_RANGE_END
    None,        \* no scoop, no port, no namespace
    Requests     \* the requests that clients send

ASSUME PortAssumption == Port \subseteq Nat /\ None \notin Port \cup Scoop
ASSUME RequestsAssumption ==
    Requests \subseteq {"create", "update", "deploy", "undeploy", "delete", "status"}

Kind  == {"Deployment", "CronJob", "Service", "HPA"}
Type  == {"api", "worker", "cronjob"}
Row   == [type : Type, port : Port \cup {None}, scales : BOOLEAN]
Modes == {"none", "check", "force", "undeploy"}

(* ManifestService.build applies in this order; undeploy uses the opposite. *)
Rank == [Deployment |-> 1, CronJob |-> 1, Service |-> 2, HPA |-> 3]

First(k, S) == k \in S /\ \A j \in S : Rank[k] <= Rank[j]
Last(k, S)  == k \in S /\ \A j \in S : Rank[k] >= Rank[j]

VARIABLES
    row,      \* row[s]: the row of table scoops (max_replicas > min: scales)
    status,   \* status[s]: its column status
    there,    \* there[s][n]: the objects named s in namespace n
    svcPort,  \* svcPort[s][n]: the port of that Service
    pc,       \* pc[w]: the step of the handler worker w is about to run
    target,   \* target[w]: the scoop it serves
    seen,     \* seen[w]: the row and status its session has loaded
    ns,       \* ns[w]: the namespace it works in
    live,     \* live[w]: that row is still in the table
    todo,     \* todo[w]: kinds it is still to handle
    mode,     \* mode[w]: how a DELETE treats the cluster
    excused   \* history: names whose row was dropped without a look at the cluster

clusterVars == <<there, svcPort>>
localVars   == <<target, seen, ns, live, todo, mode>>
vars == <<row, status, clusterVars, pc, localVars, excused>>

NoRow  == [type |-> "none", port |-> None, scales |-> FALSE]
NoSeen == [row |-> NoRow, status |-> "pending"]

Init ==
    /\ row     = [s \in Scoop |-> NoRow]
    /\ status  = [s \in Scoop |-> "pending"]
    /\ there   = [s \in Scoop |-> [n \in Namespace |-> {}]]
    /\ svcPort = [s \in Scoop |-> [n \in Namespace |-> None]]
    /\ pc      = [w \in Worker |-> "idle"]
    /\ target  = [w \in Worker |-> None]
    /\ seen    = [w \in Worker |-> NoSeen]
    /\ ns      = [w \in Worker |-> None]
    /\ live    = [w \in Worker |-> FALSE]
    /\ todo    = [w \in Worker |-> {}]
    /\ mode    = [w \in Worker |-> "none"]
    /\ excused = {}

-----------------------------------------------------------------------------
Goto(w, step) == pc' = [pc EXCEPT ![w] = step]

Return(w) ==
    /\ Goto(w, "idle")
    /\ target' = [target EXCEPT ![w] = None]
    /\ seen'   = [seen EXCEPT ![w] = NoSeen]
    /\ ns'     = [ns EXCEPT ![w] = None]
    /\ live'   = [live EXCEPT ![w] = FALSE]
    /\ todo'   = [todo EXCEPT ![w] = {}]
    /\ mode'   = [mode EXCEPT ![w] = "none"]

(* Mutant: the row is not looked for.                                       *)
LoadAny(w, s) ==
    /\ pc[w] = "idle"
    /\ target' = [target EXCEPT ![w] = s]
    /\ seen'   = [seen EXCEPT ![w] = [row |-> row[s], status |-> status[s]]]
    /\ \E n \in Namespace : ns' = [ns EXCEPT ![w] = n]
    /\ live'   = [live EXCEPT ![w] = TRUE]

(* ScoopService.get, or a 404; namespace_for: the namespace the request     *)
(* names, or the one of the row, which PUT can change.                      *)
Load(w, s) ==
    /\ pc[w] = "idle"
    /\ row[s] # NoRow
    /\ target' = [target EXCEPT ![w] = s]
    /\ seen'   = [seen EXCEPT ![w] = [row |-> row[s], status |-> status[s]]]
    /\ \E n \in Namespace : ns' = [ns EXCEPT ![w] = n]
    /\ live'   = [live EXCEPT ![w] = TRUE]

(* set_status writes when the loaded status differs; the UPDATE of a row    *)
(* that is gone raises.                                                     *)
Store(w, st) ==
    status' = [status EXCEPT ![target[w]] =
                 IF live[w] /\ st # seen[w].status THEN st ELSE @]

(* What ManifestService.build makes of the loaded row.                      *)
Kinds(r) ==
    IF r.type = "cronjob" THEN {"CronJob"}
    ELSE {"Deployment"} \cup {k \in {"Service"} : r.type = "api"}
                        \cup {k \in {"HPA"} : r.scales}

-----------------------------------------------------------------------------
(* POST /api/scoops: an api scoop takes the first free port it has read,    *)
(* and the columns name and port are UNIQUE.                                *)
FirstFree(p) ==
    LET used == {row[s].port : s \in Scoop} IN
    p \in Port \ used /\ \A q \in Port \ used : p <= q

BeginCreate(w) ==
    /\ pc[w] = "idle"
    /\ "create" \in Requests
    /\ \E s \in Scoop, b \in BOOLEAN, t \in Type, p \in Port \cup {None} :
         /\ row[s] = NoRow
         /\ IF t = "api" THEN FirstFree(p) ELSE p = None
         /\ target' = [target EXCEPT ![w] = s]
         /\ seen'   = [seen EXCEPT ![w] =
                         [row |-> [type |-> t, port |-> p, scales |-> b],
                          status |-> "pending"]]
    /\ Goto(w, "insert")
    /\ UNCHANGED <<row, status, clusterVars, ns, live, todo, mode, excused>>

Free(w) ==
    /\ row[target[w]] = NoRow
    /\ \A s \in Scoop : row[s].port # seen[w].row.port \/ row[s].port = None

(* Mutant: the column port is not UNIQUE.                                   *)
InsertNameOnly(w) ==
    /\ pc[w] = "insert"
    /\ row[target[w]] = NoRow
    /\ row'    = [row EXCEPT ![target[w]] = seen[w].row]
    /\ status' = [status EXCEPT ![target[w]] = "pending"]
    /\ Return(w)
    /\ UNCHANGED <<clusterVars, excused>>

Insert(w) ==
    /\ pc[w] = "insert"
    /\ Free(w)
    /\ row'    = [row EXCEPT ![target[w]] = seen[w].row]
    /\ status' = [status EXCEPT ![target[w]] = "pending"]
    /\ Return(w)
    /\ UNCHANGED <<clusterVars, excused>>

(* IntegrityError: a 409, although other ports may be free.                 *)
InsertConflicts(w) ==
    /\ pc[w] = "insert"
    /\ ~Free(w)
    /\ Return(w)
    /\ UNCHANGED <<row, status, clusterVars, excused>>

(* PUT /api/scoops/<id>: the replicas and even the status.                  *)
Update(w) ==
    /\ pc[w] = "idle"
    /\ "update" \in Requests
    /\ \E s \in Scoop, b \in BOOLEAN, st \in {"pending", "active", "error"} :
         /\ row[s] # NoRow
         /\ row' = [row EXCEPT ![s].scales = b]
         /\ status' = [status EXCEPT ![s] = st]
    /\ UNCHANGED <<clusterVars, pc, localVars, excused>>

-----------------------------------------------------------------------------
(* POST /api/scoops/<id>/deploy                                             *)
BeginDeploy(w) ==
    /\ "deploy" \in Requests
    /\ \E s \in Scoop : Load(w, s) /\ todo' = [todo EXCEPT ![w] = Kinds(row[s])]
    /\ Goto(w, "apply")
    /\ UNCHANGED <<row, status, clusterVars, mode, excused>>

(* Created, or it exists and is patched.                                    *)
Put(k, w) ==
    LET s == target[w] IN
    /\ there' = [there EXCEPT ![s][ns[w]] = @ \cup {k}]
    /\ svcPort' = IF k # "Service" THEN svcPort
                  ELSE [svcPort EXCEPT ![s][ns[w]] = seen[w].row.port]

Apply(w) ==
    /\ pc[w] = "apply"
    /\ \E k \in Kind :
         /\ First(k, todo[w])
         /\ Put(k, w)
         /\ todo' = [todo EXCEPT ![w] = @ \ {k}]
    /\ UNCHANGED <<row, status, pc, target, seen, ns, live, mode, excused>>

(* An ApiException, with or without effect: what was applied stays, the     *)
(* status tells.  Before the first kind it is the namespace that failed,    *)
(* and any other exception leaves the status alone.                         *)
ApplyFails(w) ==
    /\ pc[w] = "apply"
    /\ \E k \in Kind : First(k, todo[w]) /\ (Put(k, w) \/ UNCHANGED clusterVars)
    /\ Store(w, "error") \/ UNCHANGED status
    /\ Return(w)
    /\ UNCHANGED <<row, excused>>

Applied(w) ==
    /\ pc[w] = "apply"
    /\ todo[w] = {}
    /\ Store(w, "pending")
    /\ Return(w)
    /\ UNCHANGED <<row, clusterVars, excused>>

-----------------------------------------------------------------------------
(* DELETE /api/scoops/<id>/deploy, and DELETE /api/scoops/<id>?undeploy=true*)
BeginUndeploy(w) ==
    /\ "undeploy" \in Requests
    /\ \E s \in Scoop : Load(w, s) /\ todo' = [todo EXCEPT ![w] = Kinds(row[s])]
    /\ \E m \in {"none"} \cup {u \in {"undeploy"} : "delete" \in Requests} :
         mode' = [mode EXCEPT ![w] = m]
    /\ Goto(w, "remove")
    /\ UNCHANGED <<row, status, clusterVars, excused>>

Delete(k, w) ==
    LET s == target[w] IN
    /\ there' = [there EXCEPT ![s][ns[w]] = @ \ {k}]
    /\ svcPort' = IF k # "Service" THEN svcPort
                  ELSE [svcPort EXCEPT ![s][ns[w]] = None]

(* Mutant: an object that cannot be removed is skipped.                     *)
RemoveBestEffort(w) ==
    /\ pc[w] = "remove"
    /\ \E k \in Kind :
         /\ Last(k, todo[w])
         /\ Delete(k, w) \/ UNCHANGED clusterVars
         /\ todo' = [todo EXCEPT ![w] = @ \ {k}]
    /\ UNCHANGED <<row, status, pc, target, seen, ns, live, mode, excused>>

Remove(w) ==
    /\ pc[w] = "remove"
    /\ \E k \in Kind :
         /\ Last(k, todo[w])
         /\ Delete(k, w)
         /\ todo' = [todo EXCEPT ![w] = @ \ {k}]
    /\ UNCHANGED <<row, status, pc, target, seen, ns, live, mode, excused>>

(* Any exception but a 404 ends the request.                                *)
RemoveFails(w) ==
    /\ pc[w] = "remove"
    /\ \E k \in Kind : Last(k, todo[w]) /\ (Delete(k, w) \/ UNCHANGED clusterVars)
    /\ Return(w)
    /\ UNCHANGED <<row, status, excused>>

Removed(w) ==
    /\ pc[w] = "remove"
    /\ todo[w] = {}
    /\ Store(w, "pending")
    /\ \/ mode[w] = "undeploy" /\ Goto(w, "drop") /\ UNCHANGED localVars
       \/ mode[w] = "none" /\ Return(w)
    /\ UNCHANGED <<row, clusterVars, excused>>

-----------------------------------------------------------------------------
(* DELETE /api/scoops/<id>: refused with a 409 when an object is deployed   *)
(* (the HPA is not asked for), unless force=true.                           *)
BeginDelete(w) ==
    /\ "delete" \in Requests
    /\ \E s \in Scoop : Load(w, s) /\ todo' = [todo EXCEPT ![w] = Kinds(row[s]) \ {"HPA"}]
    /\ \/ mode' = [mode EXCEPT ![w] = "check"] /\ Goto(w, "check")
       \/ mode' = [mode EXCEPT ![w] = "force"] /\ Goto(w, "drop")
    /\ UNCHANGED <<row, status, clusterVars, excused>>

(* A question that fails counts as the answer "absent".                     *)
Check(w) ==
    /\ pc[w] = "check"
    /\ \E k \in Kind :
         /\ First(k, todo[w])
         /\ \/ k \notin there[target[w]][ns[w]] /\ UNCHANGED mode
            \/ mode' = [mode EXCEPT ![w] = "force"]
         /\ todo' = [todo EXCEPT ![w] = @ \ {k}]
    /\ UNCHANGED <<row, status, clusterVars, pc, target, seen, ns, live, excused>>

Deployed(w) ==
    /\ pc[w] = "check"
    /\ \E k \in Kind : k \in todo[w] /\ k \in there[target[w]][ns[w]]
    /\ Return(w)
    /\ UNCHANGED <<row, status, clusterVars, excused>>

(* Mutant: what is deployed does not keep the row from being dropped.       *)
CheckedAlways(w) ==
    /\ pc[w] = "check"
    /\ Goto(w, "drop")
    /\ UNCHANGED <<row, status, clusterVars, localVars, excused>>

Checked(w) ==
    /\ pc[w] = "check"
    /\ todo[w] = {}
    /\ Goto(w, "drop")
    /\ UNCHANGED <<row, status, clusterVars, localVars, excused>>

DropRow(w) ==
    /\ pc[w] = "drop"
    /\ row' = [row EXCEPT ![target[w]] = IF live[w] THEN NoRow ELSE @]
    /\ live' = [v \in Worker |-> v # w /\ live[v] /\ (live[w] => target[v] # target[w])]
    /\ Goto(w, "idle")
    /\ target' = [target EXCEPT ![w] = None]
    /\ seen'   = [seen EXCEPT ![w] = NoSeen]
    /\ ns'     = [ns EXCEPT ![w] = None]
    /\ todo'   = [todo EXCEPT ![w] = {}]
    /\ mode'   = [mode EXCEPT ![w] = "none"]
    /\ excused' = IF mode[w] = "force" THEN excused \cup {target[w]} ELSE excused
    /\ status' = [status EXCEPT ![target[w]] = IF live[w] THEN "pending" ELSE @]
    /\ UNCHANGED clusterVars

-----------------------------------------------------------------------------
(* GET /api/scoops/<id>/status: no workload is pending; otherwise the pods  *)
(* decide.                                                                  *)
BeginStatus(w) ==
    /\ "status" \in Requests
    /\ \E s \in Scoop : Load(w, s)
    /\ Goto(w, "status")
    /\ UNCHANGED <<row, status, clusterVars, todo, mode, excused>>

Workload(r) == IF r.type = "cronjob" THEN "CronJob" ELSE "Deployment"

StoreStatus(w) ==
    /\ pc[w] = "status"
    /\ \/ Store(w, "pending")
       \/ /\ Workload(seen[w].row) \in there[target[w]][ns[w]]
          /\ Store(w, "active") \/ Store(w, "error")
    /\ Return(w)
    /\ UNCHANGED <<row, clusterVars, excused>>

(* gunicorn kills the worker, or a call or a commit raises: a scoop with a  *)
(* domain cannot be dropped, because the ORM unsets domains.scoop_id first. *)
Crash(w) ==
    /\ pc[w] # "idle"
    /\ Return(w)
    /\ UNCHANGED <<row, status, clusterVars, excused>>

Step(w) ==
    \/ Insert(w) \/ InsertConflicts(w)
    \/ Apply(w) \/ ApplyFails(w) \/ Applied(w)
    \/ Remove(w) \/ RemoveFails(w) \/ Removed(w)
    \/ Check(w) \/ Deployed(w) \/ Checked(w) \/ DropRow(w)
    \/ StoreStatus(w)

(* What a worker does next, with a new request or the one it has.           *)
Act(w) ==
    \/ BeginCreate(w) \/ Update(w) \/ BeginDeploy(w) \/ BeginUndeploy(w)
    \/ BeginDelete(w) \/ BeginStatus(w) \/ Step(w) \/ Crash(w)

Next == \E w \in Worker : Act(w)

Spec == Init /\ [][Next]_vars

-----------------------------------------------------------------------------
(* Types, and that a busy worker serves a scoop with a row.                 *)
TypeOK ==
    /\ row \in [Scoop -> Row \cup {NoRow}]
    /\ status \in [Scoop -> {"pending", "active", "error"}]
    /\ there \in [Scoop -> [Namespace -> SUBSET Kind]]
    /\ svcPort \in [Scoop -> [Namespace -> Port \cup {None}]]
    /\ pc \in [Worker -> {"idle", "insert", "apply", "remove", "check", "drop", "status"}]
    /\ target \in [Worker -> Scoop \cup {None}]
    /\ seen \in [Worker -> [row : Row \cup {NoRow}, status : {"pending", "active", "error"}]]
    /\ ns \in [Worker -> Namespace \cup {None}]
    /\ live \in [Worker -> BOOLEAN]
    /\ todo \in [Worker -> SUBSET Kind]
    /\ mode \in [Worker -> Modes]
    /\ excused \subseteq Scoop
    /\ \A w \in Worker : pc[w] # "idle" => target[w] \in Scoop /\ seen[w].row \in Row
    /\ \A w \in Worker : todo[w] # {} => ns[w] \in Namespace

(* Two Services never listen on one port, although ports of deleted scoops  *)
(* are handed out again: the row of a deployed scoop goes only after its    *)
(* objects, unless the DELETE was forced or could not ask the cluster.      *)
(* (Checked where requests do not overlap and scoops keep their namespace.) *)
PortsDisjoint ==
    \A s, t \in Scoop, m, n \in Namespace :
        s # t /\ svcPort[s][m] # None /\ svcPort[s][m] = svcPort[t][n]
            => s \in excused \/ t \in excused

(* When DELETE ?undeploy=true drops the row, the workload and its Service   *)
(* have left the cluster, whatever failed in earlier attempts.  (A name     *)
(* whose row was once dropped without a look at the cluster may find what   *)
(* that row left behind.)                                                   *)
UndeployedIsGone ==
    \A w \in Worker : pc[w] = "drop" /\ mode[w] = "undeploy" =>
        \/ there[target[w]][ns[w]] \subseteq {"HPA"}
        \/ target[w] \in excused

(* What DELETE ?undeploy=true has undeployed is gone with its HPA.  (The    *)
(* manifests are those of the row as it is now: an HPA from before          *)
(* max_replicas was lowered is not among them.)                             *)
UndeployLeavesNothing ==
    \A w \in Worker : pc[w] = "drop" /\ mode[w] = "undeploy" =>
        there[target[w]][ns[w]] = {} \/ target[w] \in excused

(* No workload and no Service without a row, unless the DELETE was forced   *)
(* or could not ask the cluster.  (A deploy that has loaded the row goes on *)
(* while another request checks, undeploys and drops it.)                   *)
NoOrphans ==
    \A s \in Scoop, n \in Namespace :
        row[s] = NoRow /\ s \notin excused => there[s][n] \subseteq {"HPA"}

=============================================================================
