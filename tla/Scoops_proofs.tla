---------------------------- MODULE Scoops_proofs -----------------------------
(***************************************************************************)
(* Safety of Scoops for every set of workers, scoops and ports: the ports   *)
(* of Services, where rows are not deleted or where requests do not         *)
(* overlap, and what a deletion leaves in the cluster where they do not.    *)
(***************************************************************************)
EXTENDS ScoopsTraffic, TLAPS

Status == {"pending", "active", "error"}
Loaded == {"apply", "remove", "check", "drop", "status"}

(* A handler that has loaded a row has it, and a namespace to work in.      *)
LocalOK ==
    /\ pc \in [Worker -> {"idle", "insert"} \cup Loaded]
    /\ target \in [Worker -> Scoop \cup {None}]
    /\ seen \in [Worker -> [row : Row \cup {NoRow}, status : Status]]
    /\ ns \in [Worker -> Namespace \cup {None}]
    /\ live \in [Worker -> BOOLEAN]
    /\ todo \in [Worker -> SUBSET Kind]
    /\ mode \in [Worker -> Modes]
    /\ \A w \in Worker :
          /\ pc[w] # "idle" => target[w] \in Scoop /\ seen[w].row \in Row
          /\ pc[w] \in Loaded => ns[w] \in Namespace
          /\ todo[w] # {} => pc[w] \in Loaded

TablesOK ==
    /\ row \in [Scoop -> Row \cup {NoRow}]
    /\ status \in [Scoop -> Status]
    /\ excused \subseteq Scoop

ClusterOK ==
    /\ there \in [Scoop -> [Namespace -> SUBSET Kind]]
    /\ svcPort \in [Scoop -> [Namespace -> Port \cup {None}]]

Typed == LocalOK /\ TablesOK /\ ClusterOK

-----------------------------------------------------------------------------
(* Kinds are kinds, and the row that is not there is none of a type.        *)
LEMMA Constants ==
    /\ NoRow \notin Row
    /\ NoSeen \in [row : Row \cup {NoRow}, status : Status]
    /\ \A r \in Row : Kinds(r) \subseteq Kind
    /\ None \notin Port /\ None \notin Scoop
BY PortAssumption DEF NoRow, NoSeen, Row, Type, Status, Kinds, Kind

(* What an answer leaves of its worker, and of the others.                  *)
LEMMA Returned == ASSUME LocalOK, NEW w \in Worker, Return(w) PROVE LocalOK'
BY Constants DEF LocalOK, Return, Goto, Loaded, Modes

(* A request that goes on with the row that it has loaded.                  *)
LEMMA Continued ==
    ASSUME LocalOK, NEW w \in Worker, pc[w] \in Loaded, NEW step \in Loaded,
           pc' = [pc EXCEPT ![w] = step], UNCHANGED <<target, seen, ns, live>>,
           todo' \in [Worker -> SUBSET Kind], \A v \in Worker \ {w} : todo'[v] = todo[v],
           mode' \in [Worker -> Modes]
    PROVE  LocalOK'
BY DEF LocalOK, Loaded

(* A request that has loaded a row.                                         *)
LEMMA LoadedRow ==
    ASSUME LocalOK, TablesOK, NEW w \in Worker, NEW s \in Scoop, Load(w, s),
           NEW step \in Loaded, pc' = [pc EXCEPT ![w] = step],
           NEW kinds \in SUBSET Kind,
           todo' = [todo EXCEPT ![w] = kinds] \/ UNCHANGED todo,
           mode' \in [Worker -> Modes]
    PROVE  LocalOK'
<1>1. [row |-> row[s], status |-> status[s]] \in [row : Row \cup {NoRow}, status : Status]
  BY DEF TablesOK
<1>2. row[s] \in Row
  BY DEF TablesOK, Load
<1>. QED
  BY <1>1, <1>2 DEF LocalOK, Load, Loaded

(* Every handler serves a row that it has loaded or put together.           *)
LEMMA LocalStep == ASSUME LocalOK, TablesOK, [Next]_vars PROVE LocalOK'
<1>1. ASSUME NEW w \in Worker, Return(w) PROVE LocalOK'
  BY <1>1, Returned
<1>2. ASSUME NEW w \in Worker, BeginCreate(w) PROVE LocalOK'
  <2>1. PICK s \in Scoop, b \in BOOLEAN, t \in Type, p \in Port \cup {None} :
          /\ target' = [target EXCEPT ![w] = s]
          /\ seen' = [seen EXCEPT ![w] =
                [row |-> [type |-> t, port |-> p, scales |-> b], status |-> "pending"]]
    BY <1>2 DEF BeginCreate
  <2>2. [type |-> t, port |-> p, scales |-> b] \in Row
    BY DEF Row
  <2>. QED
    BY <1>2, <2>1, <2>2 DEF BeginCreate, Goto, LocalOK, Loaded, Status
<1>3. ASSUME NEW w \in Worker, Update(w) PROVE LocalOK'
  BY <1>3 DEF Update, localVars, LocalOK
<1>4. ASSUME NEW w \in Worker, BeginDeploy(w) \/ BeginUndeploy(w) \/ BeginDelete(w) PROVE LocalOK'
  <2>1. PICK s \in Scoop : Load(w, s) /\ (todo' = [todo EXCEPT ![w] = Kinds(row[s])]
                                          \/ todo' = [todo EXCEPT ![w] = Kinds(row[s]) \ {"HPA"}])
    BY <1>4 DEF BeginDeploy, BeginUndeploy, BeginDelete
  <2>2. Kinds(row[s]) \in SUBSET Kind /\ Kinds(row[s]) \ {"HPA"} \in SUBSET Kind
    BY <2>1, Constants DEF Load, TablesOK
  <2>3. PICK step \in Loaded : pc' = [pc EXCEPT ![w] = step]
    BY <1>4 DEF BeginDeploy, BeginUndeploy, BeginDelete, Goto, Loaded
  <2>4. mode' \in [Worker -> Modes]
    BY <1>4 DEF BeginDeploy, BeginUndeploy, BeginDelete, LocalOK, Modes
  <2>. QED
    BY <2>1, <2>2, <2>3, <2>4, LoadedRow
<1>5. ASSUME NEW w \in Worker, BeginStatus(w) PROVE LocalOK'
  BY <1>5, LoadedRow DEF BeginStatus, Goto, Loaded, LocalOK
<1>6. ASSUME NEW w \in Worker, Apply(w) \/ Remove(w) \/ Check(w) PROVE LocalOK'
  <2>1. pc[w] \in Loaded /\ pc' = [pc EXCEPT ![w] = pc[w]] /\ UNCHANGED <<target, seen, ns, live>>
    BY <1>6 DEF Apply, Remove, Check, Loaded, LocalOK
  <2>2. PICK k \in Kind : todo' = [todo EXCEPT ![w] = @ \ {k}]
    BY <1>6 DEF Apply, Remove, Check
  <2>3. mode' \in [Worker -> Modes]
    BY <1>6 DEF Apply, Remove, Check, LocalOK, Modes
  <2>. QED
    BY <2>1, <2>2, <2>3, Continued DEF LocalOK
<1>7. ASSUME NEW w \in Worker, Removed(w) \/ Checked(w) PROVE LocalOK'
  <2>1. CASE Return(w)
    BY <2>1, Returned
  <2>2. CASE Goto(w, "drop") /\ UNCHANGED localVars
    BY <1>7, <2>2, Continued DEF Removed, Checked, Goto, localVars, Loaded, LocalOK
  <2>. QED
    BY <1>7, <2>1, <2>2 DEF Removed, Checked
<1>8. ASSUME NEW w \in Worker, DropRow(w) PROVE LocalOK'
  <2>1. live' \in [Worker -> BOOLEAN]
    BY <1>8 DEF DropRow, LocalOK
  <2>. QED
    BY <1>8, <2>1, Constants DEF DropRow, LocalOK, Goto, Loaded, Modes
<1>9. CASE UNCHANGED vars
  BY <1>9 DEF vars, localVars, LocalOK
<1>. QED
  BY <1>1, <1>2, <1>3, <1>4, <1>5, <1>6, <1>7, <1>8, <1>9
  DEF Next, Act, Step, Insert, InsertConflicts, ApplyFails, Applied, RemoveFails, Deployed, StoreStatus,
      Crash

(* Rows stay rows.                                                          *)
LEMMA TablesStep == ASSUME LocalOK, TablesOK, [Next]_vars PROVE TablesOK'
<1> USE DEF TablesOK
<1>1. CASE UNCHANGED <<row, status, excused>>
  BY <1>1
<1>2. ASSUME NEW w \in Worker, NEW st \in Status, Store(w, st), target[w] \in Scoop,
             UNCHANGED <<row, excused>>
      PROVE  TablesOK'
  BY <1>2 DEF Store
<1>3. ASSUME NEW w \in Worker, Insert(w) PROVE TablesOK'
  BY <1>3 DEF Insert, LocalOK, Status
<1>4. ASSUME NEW w \in Worker, Update(w) PROVE TablesOK'
  <2>1. PICK s \in Scoop, b \in BOOLEAN, st \in Status :
          row[s] # NoRow /\ row' = [row EXCEPT ![s].scales = b] /\ status' = [status EXCEPT ![s] = st]
    BY <1>4 DEF Update, Status
  <2>2. [row[s] EXCEPT !.scales = b] \in Row
    BY <2>1 DEF Row
  <2>. QED
    BY <1>4, <2>1, <2>2 DEF Update
<1>5. ASSUME NEW w \in Worker, ApplyFails(w) \/ Applied(w) \/ Removed(w) \/ StoreStatus(w)
      PROVE  TablesOK'
  <2>1. target[w] \in Scoop
    BY <1>5 DEF ApplyFails, Applied, Removed, StoreStatus, LocalOK
  <2>2. \/ UNCHANGED status
        \/ \E st \in Status : Store(w, st)
    BY <1>5 DEF ApplyFails, Applied, Removed, StoreStatus, Status
  <2>3. UNCHANGED <<row, excused>>
    BY <1>5 DEF ApplyFails, Applied, Removed, StoreStatus
  <2>. QED
    BY <1>1, <1>2, <2>1, <2>2, <2>3
<1>6. ASSUME NEW w \in Worker, DropRow(w) PROVE TablesOK'
  BY <1>6 DEF DropRow, LocalOK, Status
<1>. QED
  BY <1>1, <1>3, <1>4, <1>5, <1>6
  DEF Next, Act, Step, BeginCreate, BeginDeploy, BeginUndeploy, BeginDelete, BeginStatus, InsertConflicts,
      Apply, Remove, RemoveFails, Check, Deployed, Checked, Crash, vars

(* A call to Kubernetes leaves objects of some kind, with a port of a row.  *)
LEMMA ObjectsStep ==
    ASSUME LocalOK, ClusterOK, NEW w \in Worker, pc[w] \in Loaded, NEW k \in Kind,
           Put(k, w) \/ Delete(k, w)
    PROVE  ClusterOK'
<1>1. target[w] \in Scoop /\ ns[w] \in Namespace /\ seen[w].row.port \in Port \cup {None}
  BY DEF LocalOK, Loaded, Row
<1>2. \E S \in SUBSET Kind : there' = [there EXCEPT ![target[w]][ns[w]] = S]
  <2>1. there[target[w]][ns[w]] \in SUBSET Kind
    BY <1>1 DEF ClusterOK
  <2>. QED
    BY <2>1 DEF Put, Delete
<1>3. \/ UNCHANGED svcPort
      \/ \E p \in Port \cup {None} : svcPort' = [svcPort EXCEPT ![target[w]][ns[w]] = p]
  BY <1>1 DEF Put, Delete
<1>4. there' \in [Scoop -> [Namespace -> SUBSET Kind]]
  <2>1. PICK S \in SUBSET Kind : there' = [there EXCEPT ![target[w]][ns[w]] = S]
    BY <1>2
  <2>. QED
    BY <1>1, <2>1 DEF ClusterOK
<1>5. svcPort' \in [Scoop -> [Namespace -> Port \cup {None}]]
  <2>1. ASSUME NEW p \in Port \cup {None}, svcPort' = [svcPort EXCEPT ![target[w]][ns[w]] = p]
        PROVE  svcPort' \in [Scoop -> [Namespace -> Port \cup {None}]]
    BY <1>1, <2>1 DEF ClusterOK
  <2>. QED
    BY <1>3, <2>1 DEF ClusterOK
<1>. QED
  BY <1>4, <1>5 DEF ClusterOK

(* Every step keeps what the cluster has in its type.                      *)
LEMMA ClusterStep == ASSUME LocalOK, ClusterOK, [Next]_vars PROVE ClusterOK'
<1>1. CASE UNCHANGED clusterVars
  BY <1>1 DEF clusterVars, ClusterOK
<1>2. ASSUME NEW w \in Worker, Apply(w) \/ ApplyFails(w) \/ Remove(w) \/ RemoveFails(w)
      PROVE  ClusterOK'
  BY <1>1, <1>2, ObjectsStep DEF Apply, ApplyFails, Remove, RemoveFails, Loaded
<1>. QED
  BY <1>1, <1>2
  DEF Next, Act, Step, BeginCreate, Update, BeginDeploy, BeginUndeploy, BeginDelete, BeginStatus, Insert,
      InsertConflicts, Applied, Removed, Check, Deployed, Checked, DropRow, StoreStatus, Crash, vars

(* There are no rows and no objects in the initial state.                   *)
LEMMA TypedInit == Init => Typed
BY Constants DEF Init, Typed, LocalOK, TablesOK, ClusterOK, Loaded, Status, Modes

(* The inductive part that every traffic keeps.                             *)
LEMMA TypedAlways == Spec => []Typed
<1>1. Typed /\ [Next]_vars => Typed'
  BY LocalStep, TablesStep, ClusterStep DEF Typed
<1>. QED
  BY <1>1, TypedInit, PTL DEF Spec

(* Rows, objects and what the handlers hold keep their types, and a busy    *)
(* worker serves a scoop with a row.                                        *)
THEOREM TypeCorrect == Spec => []TypeOK
<1>1. Typed => TypeOK
  BY DEF Typed, LocalOK, TablesOK, ClusterOK, TypeOK, Loaded, Status
<1>. QED
  BY <1>1, TypedAlways, PTL

-----------------------------------------------------------------------------
(* The column port is UNIQUE, and only a Service that is there has a port.  *)
UniquePorts ==
    \A s, t \in Scoop : row[s].port # None /\ row[s].port = row[t].port => s = t

PortOfService ==
    \A s \in Scoop, n \in Namespace : svcPort[s][n] # None => "Service" \in there[s][n]

(* What a call to Kubernetes leaves, object by object.                      *)
LEMMA Objects ==
    ASSUME LocalOK, ClusterOK, NEW w \in Worker, pc[w] \in Loaded, NEW k \in Kind
    PROVE  /\ target[w] \in Scoop /\ ns[w] \in Namespace
           /\ Put(k, w) =>
                 /\ \A s \in Scoop, n \in Namespace :
                       there'[s][n] = IF s = target[w] /\ n = ns[w]
                                      THEN there[s][n] \cup {k} ELSE there[s][n]
                 /\ \A s \in Scoop, n \in Namespace :
                       svcPort'[s][n] = IF k = "Service" /\ s = target[w] /\ n = ns[w]
                                        THEN seen[w].row.port ELSE svcPort[s][n]
           /\ Delete(k, w) =>
                 /\ \A s \in Scoop, n \in Namespace :
                       there'[s][n] = IF s = target[w] /\ n = ns[w]
                                      THEN there[s][n] \ {k} ELSE there[s][n]
                 /\ \A s \in Scoop, n \in Namespace :
                       svcPort'[s][n] = IF k = "Service" /\ s = target[w] /\ n = ns[w]
                                        THEN None ELSE svcPort[s][n]
<1>1. target[w] \in Scoop /\ ns[w] \in Namespace
  BY DEF LocalOK, Loaded
<1>2. ASSUME Put(k, w), NEW s \in Scoop, NEW n \in Namespace
      PROVE  there'[s][n] = IF s = target[w] /\ n = ns[w] THEN there[s][n] \cup {k} ELSE there[s][n]
  BY <1>1, <1>2 DEF ClusterOK, Put
<1>3. ASSUME Put(k, w), NEW s \in Scoop, NEW n \in Namespace
      PROVE  svcPort'[s][n] = IF k = "Service" /\ s = target[w] /\ n = ns[w]
                              THEN seen[w].row.port ELSE svcPort[s][n]
  BY <1>1, <1>3 DEF ClusterOK, Put
<1>4. ASSUME Delete(k, w), NEW s \in Scoop, NEW n \in Namespace
      PROVE  there'[s][n] = IF s = target[w] /\ n = ns[w] THEN there[s][n] \ {k} ELSE there[s][n]
  BY <1>1, <1>4 DEF ClusterOK, Delete
<1>5. ASSUME Delete(k, w), NEW s \in Scoop, NEW n \in Namespace
      PROVE  svcPort'[s][n] = IF k = "Service" /\ s = target[w] /\ n = ns[w]
                              THEN None ELSE svcPort[s][n]
  BY <1>1, <1>5 DEF ClusterOK, Delete
<1>. QED
  BY <1>1, <1>2, <1>3, <1>4, <1>5

(* A change of a row other than by an INSERT leaves its port or takes it.   *)
LEMMA RowChanges ==
    ASSUME LocalOK, TablesOK, [Next]_vars, NEW s \in Scoop, row'[s] # row[s]
    PROVE  \/ \E w \in Worker : Insert(w) /\ target[w] = s
           \/ /\ \E w \in Worker : Update(w)
              /\ row[s] \in Row /\ row'[s] \in Row
              /\ row'[s].port = row[s].port /\ row'[s].type = row[s].type
           \/ /\ \E w \in Worker : DropRow(w) /\ target[w] = s /\ live[w]
              /\ row'[s] = NoRow
<1>1. PICK w \in Worker : Insert(w) \/ Update(w) \/ DropRow(w)
  BY DEF Next, Act, Step, BeginCreate, BeginDeploy, BeginUndeploy, BeginDelete, BeginStatus, InsertConflicts,
         Apply, ApplyFails, Applied, Remove, RemoveFails, Removed, Check, Deployed, Checked,
         StoreStatus, Crash, vars
<1>2. CASE Insert(w)
  BY <1>2 DEF Insert, TablesOK
<1>3. CASE Update(w)
  <2>1. PICK t \in Scoop, b \in BOOLEAN : row[t] # NoRow /\ row' = [row EXCEPT ![t].scales = b]
    BY <1>3 DEF Update
  <2>2. t = s /\ row[s] \in Row /\ row'[s] = [row[s] EXCEPT !.scales = b]
    BY <2>1 DEF TablesOK
  <2>3. row'[s] \in Row /\ row'[s].port = row[s].port /\ row'[s].type = row[s].type
    BY <2>2 DEF Row
  <2>. QED
    BY <1>3, <2>2, <2>3
<1>4. CASE DropRow(w)
  BY <1>4 DEF DropRow, TablesOK
<1>. QED
  BY <1>1, <1>2, <1>3, <1>4

(* Two rows never have one port.                                            *)
LEMMA UniquePortsStep ==
    ASSUME LocalOK, TablesOK, UniquePorts, [Next]_vars
    PROVE  UniquePorts'
<1>1. ASSUME NEW w \in Worker, Insert(w) PROVE UniquePorts'
  BY <1>1 DEF Insert, Free, TablesOK, UniquePorts, LocalOK
<1>2. ASSUME \A w \in Worker : ~Insert(w), NEW s \in Scoop
      PROVE  row'[s].port \in {row[s].port, None}
  BY <1>2, RowChanges DEF NoRow
<1>. QED
  BY <1>1, <1>2 DEF UniquePorts

(* A Service comes and goes with its port.                                  *)
LEMMA PortOfServiceStep ==
    ASSUME LocalOK, ClusterOK, PortOfService, [Next]_vars
    PROVE  PortOfService'
<1>1. CASE UNCHANGED clusterVars
  BY <1>1 DEF clusterVars, PortOfService
<1>2. ASSUME NEW w \in Worker, pc[w] \in Loaded, NEW k \in Kind, Put(k, w) \/ Delete(k, w)
      PROVE  PortOfService'
  <2>1. SUFFICES ASSUME NEW s \in Scoop, NEW n \in Namespace, svcPort'[s][n] # None
                 PROVE  "Service" \in there'[s][n]
    BY DEF PortOfService
  <2>2. CASE Put(k, w)
    <3>1. there'[s][n] = IF s = target[w] /\ n = ns[w] THEN there[s][n] \cup {k} ELSE there[s][n]
      BY <1>2, <2>2, Objects
    <3>2. svcPort'[s][n] = svcPort[s][n] \/ (k = "Service" /\ s = target[w] /\ n = ns[w])
      BY <1>2, <2>2, Objects
    <3>. QED
      BY <2>1, <3>1, <3>2 DEF PortOfService
  <2>3. CASE Delete(k, w)
    <3>1. there'[s][n] = IF s = target[w] /\ n = ns[w] THEN there[s][n] \ {k} ELSE there[s][n]
      BY <1>2, <2>3, Objects
    <3>2. /\ svcPort[s][n] # None
          /\ ~(k = "Service" /\ s = target[w] /\ n = ns[w])
      BY <1>2, <2>1, <2>3, Objects
    <3>. QED
      BY <2>1, <3>1, <3>2 DEF PortOfService
  <2>. QED
    BY <1>2, <2>2, <2>3
<1>3. ASSUME NEW w \in Worker, Apply(w) \/ ApplyFails(w) \/ Remove(w) \/ RemoveFails(w)
      PROVE  PortOfService'
  BY <1>1, <1>2, <1>3 DEF Apply, ApplyFails, Remove, RemoveFails, Loaded
<1>. QED
  BY <1>1, <1>3
  DEF Next, Act, Step, BeginCreate, Update, BeginDeploy, BeginUndeploy, BeginDelete, BeginStatus, Insert,
      InsertConflicts, Applied, Removed, Check, Deployed, Checked, DropRow, StoreStatus, Crash, vars

(* A handler with a row has it from before the step, or loads it now.       *)
LEMMA LoadedBefore ==
    ASSUME LocalOK, TablesOK, [Next]_vars, NEW v \in Worker, pc'[v] \in Loaded
    PROVE  \/ /\ pc[v] \in Loaded
              /\ target'[v] = target[v] /\ seen'[v] = seen[v] /\ ns'[v] = ns[v]
           \/ /\ pc[v] = "idle" /\ UNCHANGED <<row, clusterVars, excused>>
              /\ target'[v] \in Scoop /\ row[target'[v]] # NoRow
              /\ seen'[v].row = row[target'[v]] /\ live'[v] = TRUE
<1> DEFINE Goal ==
           \/ /\ pc[v] \in Loaded
              /\ target'[v] = target[v] /\ seen'[v] = seen[v] /\ ns'[v] = ns[v]
           \/ /\ pc[v] = "idle" /\ UNCHANGED <<row, clusterVars, excused>>
              /\ target'[v] \in Scoop /\ row[target'[v]] # NoRow
              /\ seen'[v].row = row[target'[v]] /\ live'[v] = TRUE
<1> USE DEF LocalOK, Loaded
<1>1. ASSUME NEW w \in Worker, Return(w) PROVE Goal
  BY <1>1 DEF Return, Goto
<1>2. ASSUME NEW w \in Worker, BeginCreate(w) PROVE Goal
  BY <1>2 DEF BeginCreate, Goto
<1>3. ASSUME NEW w \in Worker, Update(w) PROVE Goal
  BY <1>3 DEF Update, localVars
<1>4. ASSUME NEW w \in Worker,
             BeginDeploy(w) \/ BeginUndeploy(w) \/ BeginDelete(w) \/ BeginStatus(w)
      PROVE  Goal
  <2>1. PICK s \in Scoop : Load(w, s)
    BY <1>4 DEF BeginDeploy, BeginUndeploy, BeginDelete, BeginStatus
  <2>2. UNCHANGED <<row, clusterVars, excused>> /\ \E step \in Loaded : Goto(w, step)
    BY <1>4 DEF BeginDeploy, BeginUndeploy, BeginDelete, BeginStatus
  <2>. QED
    BY <2>1, <2>2 DEF Load, Goto
<1>5. ASSUME NEW w \in Worker, Apply(w) \/ Remove(w) \/ Check(w) PROVE Goal
  BY <1>5 DEF Apply, Remove, Check
<1>6. ASSUME NEW w \in Worker, Removed(w) \/ Checked(w) PROVE Goal
  BY <1>1, <1>6 DEF Removed, Checked, Goto, localVars
<1>7. ASSUME NEW w \in Worker, DropRow(w) PROVE Goal
  BY <1>7 DEF DropRow, Goto
<1>8. CASE UNCHANGED vars
  BY <1>8 DEF vars, localVars
<1>. QED
  BY <1>1, <1>2, <1>3, <1>4, <1>5, <1>6, <1>7, <1>8
  DEF Next, Act, Step, Insert, InsertConflicts, ApplyFails, Applied, RemoveFails, Deployed, StoreStatus,
      Crash

-----------------------------------------------------------------------------
(* Where no request deletes a scoop, a Service has the port of its row, and *)
(* so has whatever a deploy is about to apply.                              *)
NoDeletions == "delete" \notin Requests

ServiceHasPort ==
    \A s \in Scoop, n \in Namespace : svcPort[s][n] # None => svcPort[s][n] = row[s].port

CrowdInv ==
    /\ Typed /\ UniquePorts /\ ServiceHasPort /\ NothingDrops
    /\ \A w \in Worker :
          pc[w] \in Loaded => row[target[w]] # NoRow /\ seen[w].row.port = row[target[w]].port

(* No DELETE is ever begun.                                                 *)
LEMMA NothingBegins ==
    ASSUME NoDeletions, CrowdInv, [Next]_vars
    PROVE  NothingDrops'
<1> USE DEF CrowdInv, Typed, LocalOK, NothingDrops
<1>1. ASSUME NEW w \in Worker, Return(w) PROVE NothingDrops'
  BY <1>1 DEF Return, Goto
<1>2. ASSUME NEW w \in Worker, BeginDelete(w) \/ Check(w) \/ Checked(w) \/ DropRow(w) PROVE FALSE
  BY <1>2 DEF NoDeletions, BeginDelete, Check, Checked, DropRow
<1>3. ASSUME NEW w \in Worker, BeginUndeploy(w) PROVE NothingDrops'
  BY <1>3 DEF NoDeletions, BeginUndeploy, Goto
<1>4. ASSUME NEW w \in Worker, Removed(w) PROVE Return(w)
  BY <1>4 DEF Removed
<1>5. ASSUME NEW w \in Worker,
             BeginCreate(w) \/ Update(w) \/ BeginDeploy(w) \/ BeginStatus(w) \/ Apply(w) \/ Remove(w)
      PROVE  NothingDrops'
  BY <1>5 DEF BeginCreate, Update, BeginDeploy, BeginStatus, Apply, Remove, Goto, localVars
<1>6. CASE UNCHANGED vars
  BY <1>6 DEF vars, localVars
<1>. QED
  BY <1>1, <1>2, <1>3, <1>4, <1>5, <1>6
  DEF Next, Act, Step, Insert, InsertConflicts, ApplyFails, Applied, RemoveFails, Deployed, StoreStatus,
      Crash

(* A row that is there keeps its port.                                      *)
LEMMA PortsStay ==
    ASSUME CrowdInv, [Next]_vars, NEW s \in Scoop, row[s] # NoRow
    PROVE  row'[s] # NoRow /\ row'[s].port = row[s].port
<1>1. ASSUME NEW w \in Worker, DropRow(w) PROVE FALSE
  BY <1>1 DEF CrowdInv, NothingDrops, DropRow
<1>2. ASSUME NEW w \in Worker, Insert(w), target[w] = s PROVE FALSE
  BY <1>2 DEF Insert, Free
<1>. QED
  BY <1>1, <1>2, RowChanges, Constants DEF CrowdInv, Typed

(* What is applied has the port of the row, which does not change.          *)
LEMMA CrowdStep == ASSUME CrowdInv, [Next]_vars, NothingDrops' PROVE CrowdInv'
<1>1. Typed' /\ UniquePorts'
  BY LocalStep, TablesStep, ClusterStep, UniquePortsStep DEF CrowdInv, Typed
<1>2. ASSUME NEW v \in Worker, pc'[v] \in Loaded
      PROVE  row'[target'[v]] # NoRow /\ seen'[v].row.port = row'[target'[v]].port
  <2>1. CASE /\ pc[v] \in Loaded
             /\ target'[v] = target[v] /\ seen'[v] = seen[v]
    <3>1. target[v] \in Scoop /\ row[target[v]] # NoRow /\ seen[v].row.port = row[target[v]].port
      BY <2>1 DEF CrowdInv, Typed, LocalOK, Loaded
    <3>. QED
      BY <2>1, <3>1, PortsStay
  <2>2. CASE /\ UNCHANGED row /\ row[target'[v]] # NoRow /\ seen'[v].row = row[target'[v]]
    BY <2>2
  <2>. QED
    BY <1>2, <2>1, <2>2, LoadedBefore DEF CrowdInv, Typed
<1>3. ServiceHasPort'
  <2>1. SUFFICES ASSUME NEW s \in Scoop, NEW n \in Namespace, svcPort'[s][n] # None
                 PROVE  svcPort'[s][n] = row'[s].port
    BY DEF ServiceHasPort
  <2>2. CASE svcPort'[s][n] = svcPort[s][n]
    <3>1. svcPort[s][n] = row[s].port /\ row[s] # NoRow
      BY <2>1, <2>2 DEF CrowdInv, ServiceHasPort, NoRow
    <3>. QED
      BY <2>2, <3>1, PortsStay
  <2>3. ASSUME NEW w \in Worker, pc[w] \in Loaded, NEW k \in Kind, Put(k, w) \/ Delete(k, w),
               UNCHANGED row, svcPort'[s][n] # svcPort[s][n]
        PROVE  svcPort'[s][n] = row'[s].port
    <3>1. s = target[w] /\ svcPort'[s][n] = seen[w].row.port
      BY <2>1, <2>3, Objects DEF CrowdInv, Typed
    <3>. QED
      BY <2>3, <3>1 DEF CrowdInv
  <2>4. ASSUME NEW w \in Worker, Apply(w) \/ ApplyFails(w) \/ Remove(w) \/ RemoveFails(w)
        PROVE  svcPort'[s][n] = row'[s].port
    BY <2>2, <2>3, <2>4 DEF Apply, ApplyFails, Remove, RemoveFails, Loaded, clusterVars
  <2>5. CASE UNCHANGED clusterVars
    BY <2>2, <2>5 DEF clusterVars
  <2>. QED
    BY <2>4, <2>5
    DEF Next, Act, Step, BeginCreate, Update, BeginDeploy, BeginUndeploy, BeginDelete, BeginStatus, Insert,
        InsertConflicts, Applied, Removed, Check, Deployed, Checked, DropRow, StoreStatus, Crash, vars
<1>. QED
  BY <1>1, <1>2, <1>3 DEF CrowdInv

(* Nothing has a port in the initial state.                                 *)
LEMMA CrowdAtStart == Init => CrowdInv
BY TypedInit DEF Init, CrowdInv, NothingDrops, UniquePorts, ServiceHasPort, NoRow, Loaded

(* Ports of rows are unique.                                                *)
LEMMA CrowdDisjoint == CrowdInv => PortsDisjoint
BY DEF CrowdInv, ServiceHasPort, UniquePorts, PortsDisjoint

(* Two Services never listen on one port, however creations, updates,       *)
(* deploys and undeploys overlap, as long as no scoop is deleted.           *)
THEOREM PortsDisjointWithoutDeletions ==
    ASSUME NoDeletions
    PROVE  Spec => []PortsDisjoint
<1>1. CrowdInv /\ [Next]_vars => CrowdInv'
  BY CrowdStep, NothingBegins
<1>. QED
  BY <1>1, CrowdAtStart, CrowdDisjoint, PTL DEF Spec

-----------------------------------------------------------------------------
(* Where requests do not overlap, and those about a scoop work in the       *)
(* namespace of its row.                                                    *)

(* The objects that an undeploy of the row would remove, and an HPA that it *)
(* may not know of any more.                                                *)
Expected(s) == {"HPA"} \cup (IF row[s] = NoRow THEN {} ELSE Kinds(row[s]))

Accounted ==
    \A s \in Scoop \ excused, n \in Namespace :
        there[s][n] \subseteq Expected(s) /\ (svcPort[s][n] # None => svcPort[s][n] = row[s].port)

(* Elsewhere a scoop has nothing, but for an HPA of an earlier row.         *)
NothingAbroad ==
    \A s \in Scoop \ excused, n \in Namespace : n # home[s] => there[s][n] \subseteq {"HPA"}

(* The request serves the row as it is; what it has removed, or found to be *)
(* absent, is.                                                              *)
Serves(w) ==
    /\ pc[w] \in Loaded => live[w] /\ row[target[w]] # NoRow /\ seen[w].row = row[target[w]]
                          /\ ns[w] = home[target[w]]
    /\ pc[w] = "apply" => todo[w] \subseteq Kinds(row[target[w]])
    /\ pc[w] \in {"remove", "drop"} \/ (pc[w] = "check" /\ mode[w] # "force") =>
          \/ target[w] \in excused
          \/ there[target[w]][ns[w]] \subseteq {"HPA"} \cup todo[w]
          \/ pc[w] = "drop" /\ mode[w] = "force"
    /\ pc[w] = "drop" /\ mode[w] # "force" => todo[w] = {}
    /\ pc[w] = "remove" => mode[w] \in {"none", "undeploy"}

SerialInv ==
    /\ Typed /\ UniquePorts /\ PortOfService /\ Accounted /\ NothingAbroad
    /\ \A w \in Worker : Serves(w)

(* The Service of a row has its port, and only an api has one.              *)
LEMMA KindsOfRow ==
    ASSUME NEW r \in Row
    PROVE  /\ \A b \in BOOLEAN : Kinds([r EXCEPT !.scales = b]) \subseteq Kinds(r) \cup {"HPA"}
           /\ \A b \in BOOLEAN : Kinds(r) \subseteq Kinds([r EXCEPT !.scales = b]) \cup {"HPA"}
BY DEF Row, Kinds

(* A request that is over serves nothing.                                   *)
LEMMA ReturnedAlone ==
    ASSUME LocalOK, NEW w \in Worker, Alone(w), pc' = [pc EXCEPT ![w] = "idle"]
    PROVE  \A v \in Worker : Serves(v)'
BY DEF Alone, LocalOK, Serves, Loaded

(* A request serves what it has loaded.                                     *)
LEMMA LoadedAlone ==
    ASSUME SerialInv, NEW w \in Worker, Alone(w), Settled, AtHome(w)',
           BeginDeploy(w) \/ BeginUndeploy(w) \/ BeginDelete(w) \/ BeginStatus(w)
    PROVE  \A v \in Worker : Serves(v)'
<1> USE DEF SerialInv, Typed
<1>1. SUFFICES Serves(w)'
  BY DEF Alone, Serves, LocalOK, Loaded, Goto, BeginDeploy, BeginUndeploy, BeginDelete, BeginStatus
<1>2. PICK s \in Scoop :
        /\ Load(w, s)
        /\ \/ BeginStatus(w)
           \/ (BeginDeploy(w) \/ BeginUndeploy(w)) /\ todo' = [todo EXCEPT ![w] = Kinds(row[s])]
           \/ BeginDelete(w) /\ todo' = [todo EXCEPT ![w] = Kinds(row[s]) \ {"HPA"}]
  BY DEF BeginDeploy, BeginUndeploy, BeginDelete, BeginStatus
<1>3. UNCHANGED <<row, there, excused>>
  BY DEF BeginDeploy, BeginUndeploy, BeginDelete, BeginStatus, clusterVars
<1>4. /\ target'[w] = s /\ live'[w] = TRUE /\ seen'[w].row = row[s] /\ row[s] # NoRow
      /\ ns'[w] \in Namespace /\ home'[s] = home[s]
  BY <1>2 DEF Load, LocalOK, Settled
<1>10. pc'[w] \in Loaded
  BY DEF BeginDeploy, BeginUndeploy, BeginDelete, BeginStatus, Goto, LocalOK, Loaded
<1>11. ns'[w] = home'[s]
  BY <1>4, <1>10 DEF AtHome, Loaded
<1>5. s \in excused \/ there[s][ns'[w]] \subseteq {"HPA"} \cup Kinds(row[s])
  BY <1>4 DEF Accounted, Expected
<1>6. CASE BeginDeploy(w) /\ todo' = [todo EXCEPT ![w] = Kinds(row[s])]
  <2>1. pc'[w] = "apply" /\ todo'[w] = Kinds(row[s])
    BY <1>6 DEF BeginDeploy, Goto, LocalOK
  <2>. QED
    BY <1>3, <1>4, <1>11, <2>1 DEF Serves
<1>7. CASE BeginUndeploy(w) /\ todo' = [todo EXCEPT ![w] = Kinds(row[s])]
  <2>1. pc'[w] = "remove" /\ todo'[w] = Kinds(row[s]) /\ mode'[w] \in {"none", "undeploy"}
    BY <1>7 DEF BeginUndeploy, Goto, LocalOK
  <2>. QED
    BY <1>3, <1>4, <1>5, <1>11, <2>1 DEF Serves
<1>8. CASE BeginDelete(w) /\ todo' = [todo EXCEPT ![w] = Kinds(row[s]) \ {"HPA"}]
  <2>1. /\ todo'[w] = Kinds(row[s]) \ {"HPA"}
        /\ \/ pc'[w] = "check"
           \/ pc'[w] = "drop" /\ mode'[w] = "force"
    BY <1>8 DEF BeginDelete, Goto, LocalOK
  <2>. QED
    BY <1>3, <1>4, <1>5, <1>11, <2>1 DEF Serves
<1>9. CASE BeginStatus(w)
  <2>1. pc'[w] = "status"
    BY <1>9 DEF BeginStatus, Goto, LocalOK
  <2>. QED
    BY <1>3, <1>4, <1>11, <2>1 DEF Serves
<1>. QED
  BY <1>2, <1>6, <1>7, <1>8, <1>9

(* A deploy applies what the row accounts for; an undeploy removes it.      *)
LEMMA ObjectsAccounted ==
    ASSUME SerialInv, NEW w \in Worker, pc[w] \in {"apply", "remove"}, NEW k \in todo[w],
           \/ pc[w] = "apply" /\ Put(k, w)
           \/ pc[w] = "remove" /\ Delete(k, w),
           UNCHANGED <<row, excused>>
    PROVE  Accounted'
<1> USE DEF SerialInv, Typed
<1>1. k \in Kind /\ pc[w] \in Loaded
  BY DEF LocalOK, Loaded
<1>2. SUFFICES ASSUME NEW s \in Scoop \ excused, NEW n \in Namespace
               PROVE  /\ there'[s][n] \subseteq Expected(s)
                      /\ svcPort'[s][n] # None => svcPort'[s][n] = row[s].port
  BY DEF Accounted, Expected
<1>3. /\ there[s][n] \subseteq Expected(s)
      /\ svcPort[s][n] # None => svcPort[s][n] = row[s].port
  BY DEF Accounted
<1>4. CASE pc[w] = "apply" /\ Put(k, w)
  <2>1. there'[s][n] = IF s = target[w] /\ n = ns[w] THEN there[s][n] \cup {k} ELSE there[s][n]
    BY <1>1, <1>4 DEF LocalOK, ClusterOK, Put, Loaded
  <2>2. svcPort'[s][n] = IF k = "Service" /\ s = target[w] /\ n = ns[w]
                         THEN seen[w].row.port ELSE svcPort[s][n]
    BY <1>1, <1>4, Objects
  <2>3. row[target[w]] # NoRow /\ seen[w].row = row[target[w]] /\ k \in Kinds(row[target[w]])
    BY <1>4 DEF Serves, Loaded
  <2>. QED
    BY <1>3, <2>1, <2>2, <2>3 DEF Expected
<1>5. CASE pc[w] = "remove" /\ Delete(k, w)
  <2>1. there'[s][n] = IF s = target[w] /\ n = ns[w] THEN there[s][n] \ {k} ELSE there[s][n]
    BY <1>1, <1>5, Objects
  <2>2. svcPort'[s][n] = IF k = "Service" /\ s = target[w] /\ n = ns[w]
                         THEN None ELSE svcPort[s][n]
    BY <1>1, <1>5, Objects
  <2>. QED
    BY <1>3, <2>1, <2>2
<1>. QED
  BY <1>4, <1>5

(* An INSERT and an UPDATE account for at least what was accounted for.     *)
LEMMA RowsAccounted ==
    ASSUME SerialInv, NEW w \in Worker, Insert(w) \/ Update(w)
    PROVE  Accounted'
<1> USE DEF SerialInv, Typed
<1>1. UNCHANGED <<clusterVars, excused>>
  BY DEF Insert, Update
<1>2. SUFFICES ASSUME NEW s \in Scoop \ excused, NEW n \in Namespace
               PROVE  /\ there[s][n] \subseteq Expected(s)'
                      /\ svcPort[s][n] # None => svcPort[s][n] = row'[s].port
  BY <1>1 DEF Accounted, clusterVars
<1>3. /\ there[s][n] \subseteq Expected(s)
      /\ svcPort[s][n] # None => svcPort[s][n] = row[s].port
  BY DEF Accounted
<1>4. CASE row'[s] = row[s]
  BY <1>3, <1>4 DEF Expected
<1>5. CASE row[s] = NoRow
  BY <1>3, <1>5 DEF Expected, NoRow
<1>6. CASE row'[s] # row[s] /\ row[s] # NoRow
  <2>1. ~Insert(w)
    BY <1>6 DEF Insert, Free, TablesOK, LocalOK
  <2>2. PICK t \in Scoop, b \in BOOLEAN : row' = [row EXCEPT ![t].scales = b]
    BY <2>1 DEF Update
  <2>3. row[s] \in Row /\ row'[s] = [row[s] EXCEPT !.scales = b]
    BY <1>6, <2>2 DEF TablesOK
  <2>4. row'[s] \in Row /\ row'[s].port = row[s].port
    BY <2>3 DEF Row
  <2>. QED
    BY <1>3, <1>6, <2>3, <2>4, KindsOfRow, Constants DEF Expected
<1>. QED
  BY <1>4, <1>5, <1>6

(* A row that goes leaves nothing behind that somebody would have seen.     *)
LEMMA DropAccounted ==
    ASSUME SerialInv, NEW w \in Worker, DropRow(w)
    PROVE  Accounted'
<1> USE DEF SerialInv, Typed
<1> DEFINE t == target[w]
<1>1. /\ t \in Scoop /\ ns[w] \in Namespace /\ live[w] /\ ns[w] = home[t]
      /\ row' = [row EXCEPT ![t] = NoRow]
      /\ excused' = IF mode[w] = "force" THEN excused \cup {t} ELSE excused
      /\ UNCHANGED clusterVars
  BY DEF DropRow, LocalOK, Loaded, Serves
<1>2. SUFFICES ASSUME NEW s \in Scoop \ excused', NEW n \in Namespace
               PROVE  /\ there[s][n] \subseteq Expected(s)'
                      /\ svcPort[s][n] # None => svcPort[s][n] = row'[s].port
  BY <1>1 DEF Accounted, clusterVars
<1>3. CASE s # t
  BY <1>1, <1>3 DEF Accounted, Expected, TablesOK
<1>4. CASE s = t
  <2>1. mode[w] # "force" /\ s \notin excused
    BY <1>1, <1>4
  <2>2. ASSUME n # home[t] PROVE there[s][n] \subseteq {"HPA"}
    BY <1>4, <2>1, <2>2 DEF NothingAbroad
  <2>3. ASSUME n = home[t] PROVE there[s][n] \subseteq {"HPA"}
    BY <1>1, <1>4, <2>1, <2>3 DEF DropRow, Serves
  <2>4. there[s][n] \subseteq {"HPA"}
    BY <2>2, <2>3
  <2>5. svcPort[s][n] = None
    BY <2>4 DEF PortOfService
  <2>. QED
    BY <2>4, <2>5 DEF Expected
<1>. QED
  BY <1>3, <1>4

(* What a step applies is in the namespace of the row, and a row has        *)
(* nothing when it gets another.                                            *)
LEMMA AbroadStep ==
    ASSUME SerialInv, Settled, NEW w \in Worker, Act(w)
    PROVE  NothingAbroad'
<1> USE DEF SerialInv, Typed
<1>1. excused \subseteq excused'
  BY DEF Act, Step, BeginCreate, Update, BeginDeploy, BeginUndeploy, BeginDelete, BeginStatus, Insert,
         InsertConflicts, Apply, ApplyFails, Applied, Remove, RemoveFails, Removed, Check, Deployed,
         Checked, DropRow, StoreStatus, Crash
<1>2. SUFFICES ASSUME NEW s \in Scoop \ excused', NEW n \in Namespace, n # home'[s]
               PROVE  there'[s][n] \subseteq {"HPA"}
  BY DEF NothingAbroad
<1>3. there[s][n] \subseteq {"HPA"}
  <2>1. CASE row[s] = NoRow
    BY <1>1, <2>1 DEF Accounted, Expected
  <2>2. CASE row[s] # NoRow
    BY <1>1, <1>2, <2>2 DEF Settled, NothingAbroad
  <2>. QED
    BY <2>1, <2>2
<1>4. CASE UNCHANGED clusterVars
  BY <1>3, <1>4 DEF clusterVars
<1>5. ASSUME pc[w] \in Loaded, NEW k \in Kind, Put(k, w) \/ Delete(k, w)
      PROVE  there'[s][n] \subseteq {"HPA"}
  <2>1. s # target[w] \/ n # ns[w]
    BY <1>2, <1>5 DEF Serves, Settled
  <2>2. \/ there'[s][n] = IF s = target[w] /\ n = ns[w] THEN there[s][n] \cup {k} ELSE there[s][n]
        \/ there'[s][n] = IF s = target[w] /\ n = ns[w] THEN there[s][n] \ {k} ELSE there[s][n]
    BY <1>5, Objects
  <2>. QED
    BY <1>3, <2>1, <2>2
<1>6. CASE Apply(w) \/ ApplyFails(w) \/ Remove(w) \/ RemoveFails(w)
  BY <1>4, <1>5, <1>6 DEF Apply, ApplyFails, Remove, RemoveFails, Loaded
<1>. QED
  BY <1>4, <1>6
  DEF Act, Step, BeginCreate, Update, BeginDeploy, BeginUndeploy, BeginDelete, BeginStatus, Insert,
      InsertConflicts, Applied, Removed, Check, Deployed, Checked, DropRow, StoreStatus, Crash

(* A request on its way knows what it still has to do.                      *)
LEMMA ContinuesAlone ==
    ASSUME SerialInv, NEW w \in Worker, Alone(w), Settled,
           Apply(w) \/ Remove(w) \/ Check(w) \/ Removed(w) \/ Checked(w)
    PROVE  \A v \in Worker : Serves(v)'
<1> USE DEF SerialInv, Typed
<1>1. pc[w] \in Loaded /\ home'[target[w]] = home[target[w]]
  BY DEF Apply, Remove, Check, Removed, Checked, Loaded, Serves, Settled, LocalOK
<1>6. SUFFICES Serves(w)'
  BY DEF Alone, Serves, LocalOK, Loaded, Goto, Return, Apply, Remove, Check, Removed, Checked
<1>2. CASE Apply(w)
  <2>1. /\ pc[w] = "apply" /\ UNCHANGED <<row, pc, target, seen, ns, live>>
        /\ todo'[w] \subseteq todo[w]
    BY <1>2 DEF Apply, LocalOK
  <2>. QED
    BY <1>1, <2>1 DEF Serves, Loaded
<1>3. CASE Remove(w)
  <2>1. PICK k \in Kind : k \in todo[w] /\ Delete(k, w) /\ todo' = [todo EXCEPT ![w] = @ \ {k}]
    BY <1>3 DEF Remove, Last
  <2>2. pc[w] = "remove" /\ UNCHANGED <<row, pc, target, seen, ns, live, mode, excused>>
    BY <1>3 DEF Remove
  <2>3. todo'[w] = todo[w] \ {k}
    BY <2>1 DEF LocalOK
  <2>4. target[w] \in Scoop /\ ns[w] \in Namespace
    BY <2>2 DEF LocalOK, Loaded
  <2>5. there'[target[w]][ns[w]] = there[target[w]][ns[w]] \ {k}
    BY <2>1, <2>2, <2>4, Objects DEF Loaded
  <2>. QED
    BY <1>1, <2>2, <2>3, <2>5 DEF Serves, Loaded
<1>4. CASE Check(w)
  <2>1. /\ pc[w] = "check"
        /\ UNCHANGED <<row, there, pc, target, seen, ns, live, excused>>
    BY <1>4 DEF Check, clusterVars
  <2>2. PICK k \in Kind : /\ \/ k \notin there[target[w]][ns[w]] /\ UNCHANGED mode
                             \/ mode' = [mode EXCEPT ![w] = "force"]
                          /\ todo' = [todo EXCEPT ![w] = @ \ {k}]
    BY <1>4 DEF Check
  <2>3. /\ \/ k \notin there[target[w]][ns[w]] /\ mode'[w] = mode[w]
           \/ mode'[w] = "force"
        /\ todo'[w] = todo[w] \ {k}
    BY <2>2 DEF LocalOK
  <2>. QED
    BY <1>1, <2>1, <2>3 DEF Serves, Loaded
<1>5. CASE Removed(w) \/ Checked(w)
  <2>1. CASE Return(w)
    BY <2>1, ReturnedAlone DEF Return, Goto
  <2>2. CASE Goto(w, "drop") /\ UNCHANGED localVars
    <3>1. /\ pc'[w] = "drop" /\ todo[w] = {}
          /\ UNCHANGED <<row, there, excused, target, seen, ns, live, mode, todo>>
          /\ pc[w] \in {"remove", "check"}
      BY <1>5, <2>2 DEF Removed, Checked, Goto, localVars, clusterVars, LocalOK
    <3>. QED
      BY <1>1, <3>1 DEF Serves, Loaded
  <2>. QED
    BY <1>5, <2>1, <2>2 DEF Removed, Checked
<1>. QED
  BY <1>2, <1>3, <1>4, <1>5

(* One request after the other keeps rows and objects in agreement.         *)
LEMMA SerialStep ==
    ASSUME SerialInv, NEW w \in Worker, Alone(w), Settled, AtHome(w)', Act(w)
    PROVE  Accounted' /\ \A v \in Worker : Serves(v)'
<1> USE DEF SerialInv, Typed
<1>1. ASSUME UNCHANGED <<row, clusterVars, excused>> PROVE Accounted'
  BY <1>1 DEF clusterVars, Accounted, Expected
<1>2. ASSUME Return(w) PROVE \A v \in Worker : Serves(v)'
  BY <1>2, ReturnedAlone DEF Return, Goto
<1>3. CASE BeginDeploy(w) \/ BeginUndeploy(w) \/ BeginDelete(w) \/ BeginStatus(w)
  BY <1>1, <1>3, LoadedAlone DEF BeginDeploy, BeginUndeploy, BeginDelete, BeginStatus
<1>4. CASE BeginCreate(w)
  <2>1. pc' = [pc EXCEPT ![w] = "insert"] /\ UNCHANGED <<row, clusterVars, excused>>
    BY <1>4 DEF BeginCreate, Goto
  <2>2. \A v \in Worker : Serves(v)'
    BY <2>1 DEF Alone, LocalOK, Serves, Loaded
  <2>. QED
    BY <1>1, <2>1, <2>2
<1>5. CASE Update(w)
  <2>1. pc[w] = "idle" /\ UNCHANGED pc
    BY <1>5 DEF Update
  <2>2. \A v \in Worker : Serves(v)'
    BY <2>1 DEF Alone, Serves, Loaded
  <2>. QED
    BY <1>5, <2>2, RowsAccounted
<1>6. CASE Insert(w)
  BY <1>2, <1>6, RowsAccounted DEF Insert
<1>7. CASE DropRow(w)
  BY <1>7, DropAccounted, ReturnedAlone DEF DropRow, Goto
<1>8. CASE Check(w) \/ Removed(w) \/ Checked(w)
  BY <1>1, <1>8, ContinuesAlone DEF Check, Removed, Checked
<1>9. ASSUME Apply(w) \/ ApplyFails(w) \/ Remove(w) \/ RemoveFails(w)
      PROVE  Accounted'
  BY <1>1, <1>9, ObjectsAccounted DEF Apply, ApplyFails, Remove, RemoveFails, First, Last
<1>10. CASE Apply(w) \/ Remove(w)
  BY <1>9, <1>10, ContinuesAlone
<1>11. CASE ApplyFails(w) \/ RemoveFails(w)
  BY <1>2, <1>9, <1>11 DEF ApplyFails, RemoveFails
<1>12. CASE InsertConflicts(w) \/ Applied(w) \/ Deployed(w) \/ StoreStatus(w) \/ Crash(w)
  BY <1>1, <1>2, <1>12 DEF InsertConflicts, Applied, Deployed, StoreStatus, Crash
<1>. QED
  BY <1>3, <1>4, <1>5, <1>6, <1>7, <1>8, <1>10, <1>11, <1>12 DEF Act, Step

(* The inductive invariant where requests do not overlap.                   *)
THEOREM SerialInvariant == TrafficSpec => [](serial => SerialInv)
<1>1. Init => SerialInv
  BY TypedInit
  DEF Init, SerialInv, UniquePorts, PortOfService, Accounted, NothingAbroad, Serves, NoRow, Loaded
<1>2. ASSUME SerialInv, Settled, NEW w \in Worker, Alone(w), Act(w), AtHome(w)'
      PROVE  SerialInv'
  BY <1>2, LocalStep, TablesStep, ClusterStep, UniquePortsStep, PortOfServiceStep, AbroadStep,
     SerialStep
  DEF SerialInv, Typed, Next
<1>3. ASSUME SerialInv, UNCHANGED <<vars, home>> PROVE SerialInv'
  BY <1>3, LocalStep, TablesStep, ClusterStep
  DEF vars, clusterVars, localVars, SerialInv, Typed, UniquePorts, PortOfService, Accounted,
      NothingAbroad, Expected, Serves
<1>4. (serial => SerialInv) /\ [TrafficNext]_trafficVars => (serial => SerialInv)'
  BY <1>2, <1>3 DEF TrafficNext, trafficVars
<1>. QED
  BY <1>1, <1>4, PTL DEF TrafficSpec, TrafficInit

(* Two Services never listen on one port, but for scoops whose deletion was *)
(* forced or could not ask the cluster: while requests that delete nothing  *)
(* overlap, and, although ports of deleted scoops are handed out again,     *)
(* under requests that do not overlap.                                      *)
THEOREM PortsAreDisjoint == TrafficSpec => []PortsDisjoint
<1>1. ASSUME CrowdInv, Next, NothingDrops' PROVE CrowdInv'
  BY <1>1, CrowdStep
<1>2. ASSUME CrowdInv, UNCHANGED vars PROVE CrowdInv'
  <2>1. NothingDrops'
    BY <1>2 DEF vars, localVars, CrowdInv, NothingDrops
  <2>. QED
    BY <1>2, <2>1, CrowdStep
<1>3. (~serial => CrowdInv) /\ [TrafficNext]_trafficVars => (~serial => CrowdInv)'
  BY <1>1, <1>2 DEF TrafficNext, trafficVars
<1>4. (serial => SerialInv) /\ (~serial => CrowdInv) => PortsDisjoint
  BY CrowdDisjoint DEF SerialInv, Typed, Accounted, UniquePorts, PortsDisjoint
<1>. QED
  BY <1>3, <1>4, CrowdAtStart, SerialInvariant, PTL DEF TrafficSpec, TrafficInit

(* When DELETE ?undeploy=true drops a row, the workload and its Service     *)
(* have left the cluster, whatever failed in earlier attempts.              *)
THEOREM UndeployedAreGone == TrafficSpec => []SerialUndeployedIsGone
<1>1. (serial => SerialInv) => SerialUndeployedIsGone
  BY DEF SerialInv, Serves, UndeployedIsGone, SerialUndeployedIsGone
<1>. QED
  BY <1>1, SerialInvariant, PTL

(* No workload and no Service is left without a row, unless its deletion    *)
(* was forced or could not ask the cluster.                                 *)
THEOREM NothingIsOrphaned == TrafficSpec => []SerialNoOrphans
<1>1. (serial => SerialInv) => SerialNoOrphans
  BY DEF SerialInv, Accounted, Expected, NoOrphans, SerialNoOrphans
<1>. QED
  BY <1>1, SerialInvariant, PTL

=============================================================================
