---------------------------- MODULE Domains_proofs ---------------------------
(***************************************************************************)
(* Safety of Domains and of the DNS override below it, for every set of     *)
(* workers, domains and hosts: types whichever requests overlap, and where  *)
(* they do not that the override implements HostTable, and what an undeploy *)
(* and a deletion leave in the cluster.  And what a deletion from the       *)
(* catalogue of second-level domains has counted still holds.               *)
(***************************************************************************)
EXTENDS DomainsTraffic, TLAPS

(* No other worker is in a call of the override.                            *)
DnsAlone(w) == \A v \in Worker \ {w} : at[v] = "idle"

(* Any worker calls it, but one at a time.                                  *)
DnsTurns == DnsInit /\ [][\E w \in Worker : DnsAlone(w) /\ DnsAct(w)]_dnsVars

CertType == [host : Host \cup {None}, phase : {"absent", "issuing", "ready", "invalid"}]
SeenType == [host : Host \cup {None}, status : Statuses]
Calling  == {"dnsAdd", "dnsRemove"}

RowsOK ==
    /\ state \in [Domain -> {"none", "live", "deleted"}]
    /\ host \in [Domain -> Host \cup {None}]
    /\ status \in [Domain -> Statuses]
    /\ \A d \in Domain : state[d] = "live" => host[d] \in Host

ClusterOK ==
    /\ ingress \in [Domain -> Host \cup {None}]
    /\ cert \in [Domain -> CertType]

(* A handler has loaded a row, which had a host.                            *)
LocalsOK ==
    /\ pc \in [Worker -> Steps]
    /\ target \in [Worker -> Domain \cup {None}]
    /\ seen \in [Worker -> SeenType]
    /\ erasing \in [Worker -> BOOLEAN]
    /\ removed \in [Worker -> SUBSET {"Certificate", "Ingress", "dns"}]
    /\ found \in [Worker -> Statuses]
    /\ \A w \in Worker : pc[w] # "idle" => target[w] \in Domain /\ seen[w].host \in Host

Coupled == \A w \in Worker : at[w] # "idle" <=> pc[w] \in Calling

Typed == DnsTypeOK /\ RowsOK /\ ClusterOK /\ LocalsOK /\ Coupled /\ excused \subseteq Domain

-----------------------------------------------------------------------------
(* A call of add or remove, its steps and its end keep the types, and only  *)
(* the beginning and the end make a worker busy with it or not.             *)
LEMMA DnsBegins ==
    ASSUME DnsTypeOK, NEW w \in Worker, NEW op \in {"add", "remove"}, NEW h \in Host,
           Begin(w, op, h)
    PROVE  DnsTypeOK' /\ at' = [at EXCEPT ![w] = "read"]
BY DEF DnsTypeOK, Begin, Call

(* The end of a call.                                                       *)
LEMMA DnsEnds ==
    ASSUME DnsTypeOK, NEW w \in Worker, End(w)
    PROVE  DnsTypeOK' /\ at' = [at EXCEPT ![w] = "idle"]
BY DEF DnsTypeOK, End, Call, NoCall, Answers

(* A call of add or remove takes a step.                                    *)
LEMMA DnsGoesOn ==
    ASSUME DnsTypeOK, NEW w \in Worker, DnsStep(w)
    PROVE  /\ DnsTypeOK' /\ at[w] # "idle" /\ at'[w] # "idle" /\ call' = call
           /\ \A v \in Worker \ {w} : at'[v] = at[v]
<1>1. CASE Read(w)
  <2>1. Wanted(w) \subseteq Host
    BY <1>1 DEF Read, Wanted, DnsTypeOK
  <2>. QED
    BY <1>1, <2>1 DEF Read, DnsTypeOK
<1>2. CASE ReadSame(w)
  BY <1>2 DEF ReadSame, Answer, DnsTypeOK, Answers
<1>3. CASE ReadFails(w)
  BY <1>3 DEF ReadFails, Answer, DnsTypeOK, Answers
<1>4. CASE Reread(w)
  BY <1>4 DEF Reread, DnsTypeOK
<1>5. CASE Replace(w)
  BY <1>5 DEF Replace, Write, DnsTypeOK
<1>6. CASE WriteFails(w)
  BY <1>6 DEF WriteFails, Write, Answer, DnsTypeOK, Answers
<1>7. CASE Restart(w)
  BY <1>7 DEF Restart, Answer, DnsTypeOK, Answers
<1>8. CASE RestartFails(w)
  BY <1>8 DEF RestartFails, Answer, DnsTypeOK, Answers
<1>. QED
  BY <1>1, <1>2, <1>3, <1>4, <1>5, <1>6, <1>7, <1>8 DEF DnsStep

(* No worker calls it at first.                                             *)
LEMMA DnsBeginning == DnsInit => DnsTypeOK
BY DEF DnsInit, DnsTypeOK, Call, NoCall, Answers

(* The types of the override on its own, for any number of workers.         *)
THEOREM DnsTypeCorrect == DnsSpec => []DnsTypeOK
<1>1. ASSUME DnsTypeOK, [DnsNext]_dnsVars PROVE DnsTypeOK'
  <2>1. CASE DnsNext
    BY <1>1, <2>1, DnsBegins, DnsEnds, DnsGoesOn DEF DnsNext, DnsAct
  <2>2. CASE UNCHANGED dnsVars
    BY <1>1, <2>2 DEF DnsTypeOK, dnsVars
  <2>. QED
    BY <1>1, <2>1, <2>2
<1>. QED
  BY <1>1, DnsBeginning, PTL DEF DnsSpec

-----------------------------------------------------------------------------
(* Where calls do not overlap, the block that one is going to write is      *)
(* still what it asks for, and what it has written is there.                *)
Fresh ==
    \A w \in Worker :
        /\ at[w] \in {"reread", "replace"} => body[w] = Wanted(w)
        /\ at[w] = "restart" => entries = Wanted(w)
        /\ at[w] = "done" /\ answer[w] \notin {"error", "raised"} => entries = Wanted(w)

(* A step of a call leaves the table as it is, or does to it what the call  *)
(* is for.                                                                  *)
LEMMA OneChange ==
    ASSUME DnsTypeOK, Fresh, NEW w \in Worker, DnsAlone(w), DnsStep(w)
    PROVE  /\ Fresh'
           /\ entries' = entries \/ entries' = Wanted(w)
<1>1. call' = call /\ call[w] \in Call
  BY DnsGoesOn DEF DnsTypeOK
<1>2. \A v \in Worker \ {w} : at'[v] = "idle"
  BY DnsGoesOn DEF DnsAlone
<1>3. CASE Read(w)
  BY <1>1, <1>2, <1>3 DEF Read, Fresh, DnsTypeOK, Wanted
<1>4. CASE ReadSame(w)
  BY <1>1, <1>2, <1>4 DEF ReadSame, Answer, Fresh, DnsTypeOK, Wanted
<1>5. CASE ReadFails(w)
  BY <1>1, <1>2, <1>5 DEF ReadFails, Answer, Fresh, DnsTypeOK, Wanted
<1>6. CASE Reread(w)
  BY <1>1, <1>2, <1>6 DEF Reread, Fresh, DnsTypeOK, Wanted
<1>7. CASE Replace(w)
  BY <1>1, <1>2, <1>7 DEF Replace, Write, Fresh, DnsTypeOK, Wanted, Call
<1>8. CASE WriteFails(w)
  BY <1>1, <1>2, <1>8 DEF WriteFails, Write, Answer, Fresh, DnsTypeOK, Wanted, Call
<1>9. CASE Restart(w)
  BY <1>1, <1>2, <1>9 DEF Restart, Answer, Fresh, DnsTypeOK, Wanted
<1>10. CASE RestartFails(w)
  BY <1>1, <1>2, <1>10 DEF RestartFails, Answer, Fresh, DnsTypeOK, Wanted
<1>. QED
  BY <1>3, <1>4, <1>5, <1>6, <1>7, <1>8, <1>9, <1>10 DEF DnsStep

(* So it is a step of the table.                                            *)
LEMMA TableStep ==
    ASSUME DnsTypeOK, Fresh, NEW w \in Worker, DnsAlone(w), DnsStep(w)
    PROVE  [Table!Next]_entries
<1>1. call[w].host \in Host
  BY DnsGoesOn DEF DnsTypeOK
<1>2. entries' = entries \/ entries' = Wanted(w)
  BY OneChange
<1>. QED
  BY <1>1, <1>2 DEF Wanted, Table!Next, Table!Add, Table!Remove

(* A call begins, or ends, and the table stays.                             *)
LEMMA FreshCalls ==
    ASSUME DnsTypeOK, Fresh, NEW w \in Worker, DnsAlone(w),
           \/ \E op \in {"add", "remove"}, h \in Host : Begin(w, op, h)
           \/ End(w)
    PROVE  Fresh' /\ entries' = entries
<1>1. CASE \E op \in {"add", "remove"}, h \in Host : Begin(w, op, h)
  BY <1>1 DEF DnsAlone, Begin, Fresh, DnsTypeOK
<1>2. CASE End(w)
  BY <1>2 DEF DnsAlone, End, Fresh, DnsTypeOK
<1>. QED
  BY <1>1, <1>2

(* The DNS override implements the table of hosts, where calls do not       *)
(* overlap: a write changes the host it is about and no other.              *)
THEOREM DnsImplementsTable == DnsTurns => OneHostAtATime
<1>1. DnsInit => DnsTypeOK /\ Fresh /\ Table!Init
  BY DnsBeginning DEF DnsInit, Fresh, Table!Init
<1>2. ASSUME DnsTypeOK, Fresh, [\E w \in Worker : DnsAlone(w) /\ DnsAct(w)]_dnsVars
      PROVE  DnsTypeOK' /\ Fresh' /\ [Table!Next]_entries
  <2>1. ASSUME NEW w \in Worker, DnsAlone(w), DnsStep(w)
        PROVE  DnsTypeOK' /\ Fresh' /\ [Table!Next]_entries
    BY <1>2, <2>1, DnsGoesOn, OneChange, TableStep
  <2>2. ASSUME NEW w \in Worker, DnsAlone(w),
               \/ \E op \in {"add", "remove"}, h \in Host : Begin(w, op, h)
               \/ End(w)
        PROVE  DnsTypeOK' /\ Fresh' /\ [Table!Next]_entries
    BY <1>2, <2>2, DnsBegins, DnsEnds, FreshCalls
  <2>3. CASE UNCHANGED dnsVars
    BY <1>2, <2>3 DEF dnsVars, DnsTypeOK, Fresh, Wanted
  <2>. QED
    BY <1>2, <2>1, <2>2, <2>3 DEF DnsAct
<1>. QED
  BY <1>1, <1>2, PTL DEF DnsTurns, OneHostAtATime, Table!Spec

-----------------------------------------------------------------------------
(* A handler that answers.                                                  *)
LEMMA Returned ==
    ASSUME LocalsOK, NEW w \in Worker, Return(w)
    PROVE  /\ LocalsOK' /\ pc'[w] = "idle" /\ removed'[w] = {}
           /\ \A v \in Worker \ {w} : pc'[v] = pc[v]
BY DEF LocalsOK, Return, Goto, Steps, SeenType, NoRow, Statuses

(* One that goes on.                                                        *)
LEMMA WentOn ==
    ASSUME LocalsOK, NEW w \in Worker, pc[w] # "idle", NEW step \in Steps, Goto(w, step),
           UNCHANGED <<target, seen, erasing>>,
           removed' \in [Worker -> SUBSET {"Certificate", "Ingress", "dns"}],
           found' \in [Worker -> Statuses]
    PROVE  LocalsOK' /\ pc'[w] = step /\ \A v \in Worker \ {w} : pc'[v] = pc[v]
BY DEF LocalsOK, Goto

(* One that begins.                                                         *)
LEMMA Loaded ==
    ASSUME LocalsOK, RowsOK, NEW w \in Worker, NEW d \in Domain, Load(w, d),
           NEW step \in Steps, Goto(w, step), erasing' \in [Worker -> BOOLEAN],
           UNCHANGED <<removed, found>>
    PROVE  /\ LocalsOK' /\ pc'[w] = step /\ \A v \in Worker \ {w} : pc'[v] = pc[v]
           /\ pc[w] = "idle" /\ state[d] = "live" /\ target'[w] = d
           /\ seen'[w].host = host[d]
<1>1. state[d] = "live" /\ host[d] \in Host /\ status[d] \in Statuses
  BY DEF Load, RowsOK
<1>2. [host |-> host[d], status |-> status[d]] \in SeenType
  BY <1>1 DEF SeenType
<1>. QED
  BY <1>1, <1>2 DEF LocalsOK, Load, Goto

(* An exception of undeploy is caught or not.                               *)
LEMMA Escaped ==
    ASSUME LocalsOK, NEW w \in Worker, pc[w] # "idle", Escape(w)
    PROVE  /\ LocalsOK' /\ pc'[w] = IF erasing[w] THEN "erase" ELSE "idle"
           /\ \A v \in Worker \ {w} : pc'[v] = pc[v]
<1>1. CASE erasing[w]
  BY <1>1, WentOn DEF Escape, localVars, Steps, LocalsOK
<1>2. CASE ~erasing[w]
  BY <1>2, Returned DEF Escape
<1>. QED
  BY <1>1, <1>2

(* The status column is written.                                            *)
LEMMA StatusStored ==
    ASSUME RowsOK, NEW w \in Worker, NEW s \in Statuses, Store(w, s), UNCHANGED <<state, host>>
    PROVE  RowsOK'
BY DEF RowsOK, Store

(* What calls of the Kubernetes API do.                                     *)
LEMMA Applied ==
    ASSUME ClusterOK, LocalsOK, NEW w \in Worker, pc[w] # "idle",
           SetIngress(w) \/ UnsetIngress(w) \/ UNCHANGED ingress,
           SetCertificate(w) \/ UnsetCertificate(w) \/ UNCHANGED cert
    PROVE  ClusterOK'
<1>1. target[w] \in Domain /\ seen[w].host \in Host
  BY DEF LocalsOK
<1>2. ingress' \in [Domain -> Host \cup {None}]
  BY <1>1 DEF ClusterOK, SetIngress, UnsetIngress
<1>3. cert' \in [Domain -> CertType]
  BY <1>1 DEF ClusterOK, CertType, SetCertificate, UnsetCertificate, NoCert
<1>. QED
  BY <1>2, <1>3 DEF ClusterOK

(* Steps that leave the override, the rows or the cluster alone.            *)
LEMMA Untouched ==
    ASSUME Typed
    PROVE  /\ UNCHANGED dnsVars => DnsTypeOK' /\ at' = at
           /\ UNCHANGED rowVars => RowsOK'
           /\ UNCHANGED clusterVars => ClusterOK'
           /\ UNCHANGED <<pc, localVars>> => LocalsOK'
<1>1. ASSUME UNCHANGED dnsVars PROVE DnsTypeOK' /\ at' = at
  BY <1>1 DEF Typed, DnsTypeOK, dnsVars
<1>2. ASSUME UNCHANGED rowVars PROVE RowsOK'
  BY <1>2 DEF Typed, RowsOK, rowVars
<1>3. ASSUME UNCHANGED clusterVars PROVE ClusterOK'
  BY <1>3 DEF Typed, ClusterOK, clusterVars
<1>4. ASSUME UNCHANGED <<pc, localVars>> PROVE LocalsOK'
  BY <1>4 DEF Typed, LocalsOK, localVars
<1>. QED
  BY <1>1, <1>2, <1>3, <1>4

(* Rows are made, changed and loaded.                                       *)
LEMMA RowStep ==
    ASSUME Typed, NEW w \in Worker,
           \/ \E d \in Domain, h \in Host : Create(w, d, h) \/ UpdateHost(w, d, h)
           \/ BeginDeploy(w) \/ BeginUndeploy(w) \/ BeginStatus(w)
    PROVE  Typed'
<1> USE DEF Typed, Coupled, Calling
<1>1. ASSUME NEW d \in Domain, NEW h \in Host, Create(w, d, h) \/ UpdateHost(w, d, h)
      PROVE  Typed'
  <2>1. RowsOK'
    BY <1>1 DEF Create, UpdateHost, RowsOK
  <2>. QED
    BY <1>1, <2>1, Untouched DEF Create, UpdateHost
<1>2. ASSUME BeginDeploy(w) \/ BeginUndeploy(w) \/ BeginStatus(w)
      PROVE  Typed'
  <2>1. PICK d \in Domain : Load(w, d)
    BY <1>2 DEF BeginDeploy, BeginUndeploy, BeginStatus
  <2>2. erasing' \in [Worker -> BOOLEAN] /\ UNCHANGED <<removed, found>>
    BY <1>2 DEF BeginDeploy, BeginUndeploy, BeginStatus, LocalsOK
  <2>3. Goto(w, "ingress") \/ Goto(w, "delCertificate") \/ Goto(w, "readCertificate")
    BY <1>2 DEF BeginDeploy, BeginUndeploy, BeginStatus
  <2>4. /\ LocalsOK' /\ pc[w] \notin Calling /\ pc'[w] \notin Calling
        /\ \A v \in Worker \ {w} : pc'[v] = pc[v]
    BY <2>1, <2>2, <2>3, Loaded DEF Steps
  <2>5. UNCHANGED <<dnsVars, rowVars, clusterVars, excused>>
    BY <1>2 DEF BeginDeploy, BeginUndeploy, BeginStatus
  <2>. QED
    BY <2>4, <2>5, Untouched
<1>. QED
  BY <1>1, <1>2

(* The steps of deploy.                                                     *)
LEMMA DeployStep ==
    ASSUME Typed, NEW w \in Worker,
           \/ ApplyIngress(w) \/ ApplyCertificate(w) \/ ApplyFails(w)
           \/ DnsAdded(w) \/ Deployed(w)
    PROVE  Typed'
<1> USE DEF Typed, Coupled, Calling
<1>1. CASE ApplyIngress(w)
  <2>1. LocalsOK' /\ pc'[w] = "certificate" /\ \A v \in Worker \ {w} : pc'[v] = pc[v]
    BY <1>1, WentOn DEF ApplyIngress, LocalsOK, localVars, Steps
  <2>2. ClusterOK'
    BY <1>1, Applied DEF ApplyIngress
  <2>. QED
    BY <1>1, <2>1, <2>2, Untouched DEF ApplyIngress
<1>2. CASE ApplyCertificate(w)
  <2>1. LocalsOK' /\ pc'[w] = "dnsAdd" /\ \A v \in Worker \ {w} : pc'[v] = pc[v]
    BY <1>2, WentOn DEF ApplyCertificate, LocalsOK, localVars, Steps
  <2>2. ClusterOK'
    BY <1>2, Applied DEF ApplyCertificate
  <2>3. DnsTypeOK' /\ at' = [at EXCEPT ![w] = "read"]
    BY <1>2, DnsBegins DEF ApplyCertificate, LocalsOK
  <2>4. Coupled'
    BY <2>1, <2>3 DEF DnsTypeOK
  <2>. QED
    BY <1>2, <2>1, <2>2, <2>3, <2>4, Untouched DEF ApplyCertificate
<1>3. CASE ApplyFails(w)
  <2>1. LocalsOK' /\ pc'[w] = "idle" /\ \A v \in Worker \ {w} : pc'[v] = pc[v]
    BY <1>3, Returned DEF ApplyFails
  <2>2. ClusterOK'
    BY <1>3, Applied DEF ApplyFails
  <2>. QED
    BY <1>3, <2>1, <2>2, Untouched DEF ApplyFails
<1>4. CASE DnsAdded(w)
  <2>1. LocalsOK' /\ pc'[w] \notin Calling /\ \A v \in Worker \ {w} : pc'[v] = pc[v]
    <3>1. CASE Return(w)
      BY <3>1, Returned
    <3>2. CASE Goto(w, "deployed") /\ UNCHANGED localVars
      BY <1>4, <3>2, WentOn DEF DnsAdded, LocalsOK, localVars, Steps
    <3>. QED
      BY <1>4, <3>1, <3>2 DEF DnsAdded
  <2>2. DnsTypeOK' /\ at' = [at EXCEPT ![w] = "idle"]
    BY <1>4, DnsEnds DEF DnsAdded
  <2>3. Coupled'
    BY <2>1, <2>2 DEF DnsTypeOK
  <2>. QED
    BY <1>4, <2>1, <2>2, <2>3, Untouched DEF DnsAdded
<1>5. CASE Deployed(w)
  <2>1. LocalsOK' /\ pc'[w] = "idle" /\ \A v \in Worker \ {w} : pc'[v] = pc[v]
    BY <1>5, Returned DEF Deployed
  <2>2. RowsOK'
    BY <1>5, StatusStored DEF Deployed, Statuses
  <2>. QED
    BY <1>5, <2>1, <2>2, Untouched DEF Deployed
<1>. QED
  BY <1>1, <1>2, <1>3, <1>4, <1>5

(* The steps of undeploy and soft_delete.                                   *)
LEMMA UndeployStep ==
    ASSUME Typed, NEW w \in Worker,
           \/ DeleteCertificate(w) \/ DeleteIngress(w) \/ DnsRemoved(w)
           \/ UndeployRaises(w) \/ Undeployed(w) \/ Erase(w)
    PROVE  Typed'
<1> USE DEF Typed, Coupled, Calling
<1>1. pc[w] # "idle" => target[w] \in Domain /\ seen[w].host \in Host
  BY DEF LocalsOK
<1>2. \A kind \in {"Certificate", "Ingress", "dns"} : List(w, kind) =>
         removed' \in [Worker -> SUBSET {"Certificate", "Ingress", "dns"}]
  BY DEF List, LocalsOK
<1>3. CASE DeleteCertificate(w)
  <2>1. removed' \in [Worker -> SUBSET {"Certificate", "Ingress", "dns"}]
    BY <1>2, <1>3 DEF DeleteCertificate, LocalsOK
  <2>2. LocalsOK' /\ pc'[w] = "delIngress" /\ \A v \in Worker \ {w} : pc'[v] = pc[v]
    BY <1>3, <2>1, WentOn DEF DeleteCertificate, LocalsOK, Steps
  <2>3. ClusterOK'
    BY <1>3, Applied DEF DeleteCertificate
  <2>4. excused' \subseteq Domain
    BY <1>1, <1>3 DEF DeleteCertificate, GiveUp
  <2>. QED
    BY <1>3, <2>2, <2>3, <2>4, Untouched DEF DeleteCertificate
<1>4. CASE DeleteIngress(w)
  <2>1. removed' \in [Worker -> SUBSET {"Certificate", "Ingress", "dns"}]
    BY <1>2, <1>4 DEF DeleteIngress, LocalsOK
  <2>2. LocalsOK' /\ pc'[w] = "dnsRemove" /\ \A v \in Worker \ {w} : pc'[v] = pc[v]
    BY <1>4, <2>1, WentOn DEF DeleteIngress, LocalsOK, Steps
  <2>3. ClusterOK'
    BY <1>4, Applied DEF DeleteIngress
  <2>4. excused' \subseteq Domain
    BY <1>1, <1>4 DEF DeleteIngress, GiveUp
  <2>5. DnsTypeOK' /\ at' = [at EXCEPT ![w] = "read"]
    BY <1>1, <1>4, DnsBegins DEF DeleteIngress
  <2>6. Coupled'
    BY <2>2, <2>5 DEF DnsTypeOK
  <2>. QED
    BY <1>4, <2>2, <2>3, <2>4, <2>5, <2>6, Untouched DEF DeleteIngress
<1>5. CASE DnsRemoved(w)
  <2>1. removed' \in [Worker -> SUBSET {"Certificate", "Ingress", "dns"}]
    BY <1>2, <1>5 DEF DnsRemoved, LocalsOK
  <2>2. LocalsOK' /\ pc'[w] = "undeployed" /\ \A v \in Worker \ {w} : pc'[v] = pc[v]
    BY <1>5, <2>1, WentOn DEF DnsRemoved, LocalsOK, Steps
  <2>3. DnsTypeOK' /\ at' = [at EXCEPT ![w] = "idle"]
    BY <1>5, DnsEnds DEF DnsRemoved
  <2>4. Coupled'
    BY <2>2, <2>3 DEF DnsTypeOK
  <2>5. excused' \subseteq Domain
    BY <1>1, <1>5 DEF DnsRemoved, GiveUp
  <2>. QED
    BY <1>5, <2>2, <2>3, <2>4, <2>5, Untouched DEF DnsRemoved
<1>6. CASE UndeployRaises(w)
  <2>1. pc[w] # "idle" /\ Escape(w)
    BY <1>6 DEF UndeployRaises
  <2>2. LocalsOK' /\ pc'[w] \notin Calling /\ \A v \in Worker \ {w} : pc'[v] = pc[v]
    BY <2>1, Escaped
  <2>3. DnsTypeOK' /\ Coupled'
    <3>1. CASE pc[w] \in {"delCertificate", "delIngress"} /\ UNCHANGED dnsVars
      BY <2>2, <3>1, Untouched
    <3>2. CASE pc[w] = "dnsRemove" /\ End(w)
      BY <2>2, <3>2, DnsEnds DEF DnsTypeOK
    <3>. QED
      BY <1>6, <3>1, <3>2 DEF UndeployRaises
  <2>4. excused' \subseteq Domain
    BY <1>1, <1>6, <2>1 DEF UndeployRaises, GiveUp
  <2>. QED
    BY <1>6, <2>2, <2>3, <2>4, Untouched DEF UndeployRaises
<1>7. CASE Undeployed(w)
  <2>1. LocalsOK' /\ pc'[w] \notin Calling /\ \A v \in Worker \ {w} : pc'[v] = pc[v]
    BY <1>7, Escaped DEF Undeployed
  <2>2. RowsOK'
    BY <1>7, StatusStored DEF Undeployed, Statuses
  <2>. QED
    BY <1>7, <2>1, <2>2, Untouched DEF Undeployed
<1>8. CASE Erase(w)
  <2>1. LocalsOK' /\ pc'[w] = "idle" /\ \A v \in Worker \ {w} : pc'[v] = pc[v]
    BY <1>8, Returned DEF Erase
  <2>2. RowsOK'
    BY <1>8 DEF Erase, RowsOK
  <2>. QED
    BY <1>8, <2>1, <2>2, Untouched DEF Erase
<1>. QED
  BY <1>3, <1>4, <1>5, <1>6, <1>7, <1>8

(* The steps of GET /status, of a call, of a crash and of cert-manager.     *)
LEMMA OtherStep ==
    ASSUME Typed,
           \/ \E w \in Worker : ReadCertificate(w) \/ StoreStatus(w) \/ CallDns(w) \/ Crash(w)
           \/ \E d \in Domain : Issue(d)
    PROVE  Typed'
<1> USE DEF Typed, Coupled, Calling
<1>1. ASSUME NEW w \in Worker, ReadCertificate(w) PROVE Typed'
  <2>1. LocalsOK' /\ pc'[w] \notin Calling /\ \A v \in Worker \ {w} : pc'[v] = pc[v]
    <3>1. CASE Return(w)
      BY <3>1, Returned
    <3>2. CASE /\ cert[target[w]].phase # "absent" /\ Goto(w, "storeStatus")
               /\ found' = [found EXCEPT ![w] = PhaseStatus[cert[target[w]].phase]]
               /\ UNCHANGED <<target, seen, erasing, removed>>
      <4>1. pc[w] # "idle" /\ target[w] \in Domain
        BY <1>1 DEF ReadCertificate, LocalsOK
      <4>2. cert[target[w]].phase \in {"issuing", "ready", "invalid"}
        BY <3>2, <4>1 DEF ClusterOK, CertType
      <4>3. PhaseStatus[cert[target[w]].phase] \in Statuses
        BY <4>2 DEF PhaseStatus, Statuses
      <4>. QED
        BY <3>2, <4>1, <4>3, WentOn DEF LocalsOK, Steps
    <3>. QED
      BY <1>1, <3>1, <3>2 DEF ReadCertificate
  <2>. QED
    BY <1>1, <2>1, Untouched DEF ReadCertificate
<1>2. ASSUME NEW w \in Worker, StoreStatus(w) PROVE Typed'
  <2>1. LocalsOK' /\ pc'[w] = "idle" /\ \A v \in Worker \ {w} : pc'[v] = pc[v]
    BY <1>2, Returned DEF StoreStatus
  <2>2. RowsOK'
    <3>1. found[w] \in Statuses
      BY DEF LocalsOK
    <3>. QED
      BY <1>2, <3>1, StatusStored DEF StoreStatus
  <2>. QED
    BY <1>2, <2>1, <2>2, Untouched DEF StoreStatus
<1>3. ASSUME NEW w \in Worker, CallDns(w) PROVE Typed'
  <2>1. /\ DnsTypeOK' /\ at[w] # "idle" /\ at'[w] # "idle"
        /\ \A v \in Worker \ {w} : at'[v] = at[v]
    BY <1>3, DnsGoesOn DEF CallDns
  <2>. QED
    BY <1>3, <2>1, Untouched DEF CallDns
<1>4. ASSUME NEW w \in Worker, Crash(w) PROVE Typed'
  <2>1. LocalsOK' /\ pc'[w] = "idle" /\ \A v \in Worker \ {w} : pc'[v] = pc[v]
    BY <1>4, Returned DEF Crash
  <2>2. DnsTypeOK' /\ Coupled'
    <3>1. CASE at[w] = "idle" /\ UNCHANGED dnsVars
      BY <2>1, <3>1, Untouched
    <3>2. CASE End(w)
      BY <2>1, <3>2, DnsEnds DEF DnsTypeOK
    <3>. QED
      BY <1>4, <3>1, <3>2 DEF Crash
  <2>. QED
    BY <1>4, <2>1, <2>2, Untouched DEF Crash
<1>5. ASSUME NEW d \in Domain, Issue(d) PROVE Typed'
  <2>1. cert' \in [Domain -> CertType]
    BY <1>5 DEF Issue, ClusterOK, CertType
  <2>2. ClusterOK'
    BY <1>5, <2>1 DEF Issue, ClusterOK
  <2>. QED
    BY <1>5, <2>2, Untouched DEF Issue
<1>. QED
  BY <1>1, <1>2, <1>3, <1>4, <1>5

(* At first there are no rows, no objects and no work.                      *)
LEMMA TypedInit == Init => Typed
<1> SUFFICES ASSUME Init PROVE Typed
  OBVIOUS
<1>1. DnsTypeOK
  BY DnsBeginning DEF Init
<1>2. RowsOK /\ ClusterOK
  BY DEF Init, RowsOK, ClusterOK, Statuses, CertType, NoCert
<1>3. LocalsOK /\ Coupled
  BY DEF Init, DnsInit, LocalsOK, Coupled, Calling, Steps, Statuses, SeenType, NoRow
<1>. QED
  BY <1>1, <1>2, <1>3 DEF Init, Typed

(* Every step keeps every variable in its type.                             *)
LEMMA TypedStep == ASSUME Typed, [Next]_vars PROVE Typed'
<1>1. CASE Next
  BY <1>1, RowStep, DeployStep, UndeployStep, OtherStep DEF Next, Act, Step
<1>2. CASE UNCHANGED vars
  <2>1. UNCHANGED <<dnsVars, rowVars, clusterVars, pc, localVars, excused>>
    BY <1>2 DEF vars
  <2>. QED
    BY <2>1, Untouched DEF Typed, Coupled
<1>. QED
  BY <1>1, <1>2

(* Every row, object and step has its type, and a worker is inside the DNS  *)
(* override exactly while its handler waits for it, for any number of       *)
(* workers.                                                                 *)
THEOREM TypeCorrect == Spec => []TypeOK
<1>1. Typed => TypeOK
  BY DEF Typed, RowsOK, ClusterOK, LocalsOK, Coupled, TypeOK, CertType, SeenType, Calling
<1>. QED
  BY <1>1, TypedInit, TypedStep, PTL DEF Spec

-----------------------------------------------------------------------------
(* The column host is UNIQUE; the rows with deleted_at count.               *)
UniqueHosts ==
    \A d, e \in Domain : host[d] # None /\ host[d] = host[e] => d = e

(* The request serves the row as it is, and calls the override for its host.*)
Serves ==
    \A w \in Worker :
        /\ pc[w] # "idle" => state[target[w]] = "live" /\ seen[w].host = host[target[w]]
        /\ pc[w] = "dnsAdd" => call[w] = [op |-> "add", host |-> seen[w].host]
        /\ pc[w] = "dnsRemove" => call[w] = [op |-> "remove", host |-> seen[w].host]

(* What undeploy has listed is gone, and what it has not listed is excused. *)
Removing ==
    \A w \in Worker :
        /\ removed[w] # {} => pc[w] \in {"delIngress", "dnsRemove", "undeployed", "erase"}
        /\ "Certificate" \in removed[w] => cert[target[w]] = NoCert
        /\ "Ingress" \in removed[w] => ingress[target[w]] = None
        /\ "dns" \in removed[w] => pc[w] \in {"undeployed", "erase"} /\ seen[w].host \notin entries
        /\ pc[w] = "delIngress" => target[w] \in excused \/ "Certificate" \in removed[w]
        /\ pc[w] = "dnsRemove" =>
              target[w] \in excused \/ {"Certificate", "Ingress"} \subseteq removed[w]
        /\ pc[w] \in {"undeployed", "erase"} =>
              target[w] \in excused \/ removed[w] = {"Certificate", "Ingress", "dns"}

SerialInv == Typed /\ Fresh /\ UniqueHosts /\ Serves /\ Removing /\ DeletedIsGone

(* Once begun, a request stays with its row, which no other request of the  *)
(* time changes.                                                            *)
LEMMA StaysWithRow ==
    ASSUME Typed, NEW w \in Worker, Step(w) \/ Crash(w)
    PROVE  /\ pc[w] # "idle" /\ target[w] \in Domain /\ seen[w].host \in Host /\ host' = host
           /\ pc'[w] # "idle" => target'[w] = target[w] /\ seen'[w] = seen[w] /\ state' = state
<1>1. CASE ApplyIngress(w) \/ ApplyCertificate(w) \/ ApplyFails(w) \/ DnsAdded(w) \/ Deployed(w)
  BY <1>1 DEF ApplyIngress, ApplyCertificate, ApplyFails, DnsAdded, Deployed, Return, Goto,
     Typed, LocalsOK, rowVars, localVars
<1>2. CASE DeleteCertificate(w) \/ DeleteIngress(w) \/ DnsRemoved(w)
  BY <1>2 DEF DeleteCertificate, DeleteIngress, DnsRemoved, Typed, LocalsOK, rowVars
<1>3. CASE UndeployRaises(w) \/ Undeployed(w) \/ Erase(w)
  BY <1>3 DEF UndeployRaises, Undeployed, Erase, Escape, Return, Goto,
     Typed, LocalsOK, rowVars, localVars
<1>4. CASE ReadCertificate(w) \/ StoreStatus(w) \/ Crash(w)
  BY <1>4 DEF ReadCertificate, StoreStatus, Crash, Return, Goto, Typed, LocalsOK, rowVars
<1>5. CASE CallDns(w)
  <2>1. pc[w] # "idle"
    BY <1>5, DnsGoesOn DEF CallDns, Typed, Coupled, Calling
  <2>. QED
    BY <1>5, <2>1 DEF CallDns, Typed, LocalsOK, rowVars, localVars
<1>. QED
  BY <1>1, <1>2, <1>3, <1>4, <1>5 DEF Step

(* The worker's call is for the host of its row.                            *)
LEMMA CallStands ==
    ASSUME Typed, Serves, NEW w \in Worker, Step(w) \/ Crash(w)
    PROVE  /\ pc'[w] = "dnsAdd" => call'[w] = [op |-> "add", host |-> seen[w].host]
           /\ pc'[w] = "dnsRemove" => call'[w] = [op |-> "remove", host |-> seen[w].host]
<1>1. CASE ApplyCertificate(w)
  BY <1>1 DEF ApplyCertificate, Begin, Goto, Typed, LocalsOK, DnsTypeOK
<1>2. CASE DeleteIngress(w)
  BY <1>2 DEF DeleteIngress, Begin, Goto, Typed, LocalsOK, DnsTypeOK
<1>3. CASE CallDns(w)
  <2>1. call' = call
    BY <1>3, DnsGoesOn DEF CallDns, Typed
  <2>. QED
    BY <1>3, <2>1 DEF CallDns, Serves
<1>4. CASE ApplyIngress(w) \/ ApplyFails(w) \/ DnsAdded(w) \/ Deployed(w)
  BY <1>4 DEF ApplyIngress, ApplyFails, DnsAdded, Deployed, Return, Goto, Typed, LocalsOK
<1>5. CASE DeleteCertificate(w) \/ DnsRemoved(w) \/ UndeployRaises(w) \/ Undeployed(w) \/ Erase(w)
  BY <1>5 DEF DeleteCertificate, DnsRemoved, UndeployRaises, Undeployed, Erase, Escape,
     Return, Goto, Typed, LocalsOK
<1>6. CASE ReadCertificate(w) \/ StoreStatus(w) \/ Crash(w)
  BY <1>6 DEF ReadCertificate, StoreStatus, Crash, Return, Goto, Typed, LocalsOK
<1>. QED
  BY <1>1, <1>2, <1>3, <1>4, <1>5, <1>6 DEF Step

(* It leaves the other workers alone.                                       *)
LEMMA OthersRest ==
    ASSUME Typed, NEW w \in Worker, Step(w) \/ Crash(w)
    PROVE  \A v \in Worker \ {w} : pc'[v] = pc[v] /\ removed'[v] = removed[v]
<1> USE DEF Typed, LocalsOK, localVars, Goto, Return
<1>1. CASE ApplyIngress(w) \/ ApplyCertificate(w) \/ ApplyFails(w) \/ DnsAdded(w) \/ Deployed(w)
  BY <1>1 DEF ApplyIngress, ApplyCertificate, ApplyFails, DnsAdded, Deployed
<1>2. CASE DeleteCertificate(w) \/ DeleteIngress(w) \/ DnsRemoved(w)
  BY <1>2 DEF DeleteCertificate, DeleteIngress, DnsRemoved, List
<1>3. CASE UndeployRaises(w) \/ Undeployed(w) \/ Erase(w)
  BY <1>3 DEF UndeployRaises, Undeployed, Erase, Escape
<1>4. CASE ReadCertificate(w) \/ StoreStatus(w) \/ Crash(w)
  BY <1>4 DEF ReadCertificate, StoreStatus, Crash
<1>5. CASE CallDns(w)
  BY <1>5 DEF CallDns
<1>. QED
  BY <1>1, <1>2, <1>3, <1>4, <1>5 DEF Step

(* So a request serves its row to its end.                                  *)
LEMMA ServesStep ==
    ASSUME Typed, Serves, NEW w \in Worker, Alone(w), Step(w) \/ Crash(w)
    PROVE  Serves'
<1>1. \A v \in Worker \ {w} : pc'[v] = "idle"
  BY OthersRest DEF Alone
<1>. QED
  BY <1>1, StaysWithRow, CallStands DEF Serves

(* The table changes by the host of the row, and while a call is made.      *)
LEMMA EntriesChange ==
    ASSUME Typed, Fresh, Serves, NEW w \in Worker, Alone(w), Step(w) \/ Crash(w)
    PROVE  /\ Fresh'
           /\ \/ entries' = entries
              \/ /\ pc[w] \in Calling /\ CallDns(w)
                 /\ entries' \in {entries \cup {seen[w].host}, entries \ {seen[w].host}}
<1> DnsAlone(w)
  BY DEF Alone, DnsAlone, Typed, Coupled, Calling
<1>1. CASE CallDns(w)
  <2>1. Fresh' /\ (entries' = entries \/ entries' = Wanted(w)) /\ at[w] # "idle"
    BY <1>1, OneChange, DnsGoesOn DEF CallDns, Typed
  <2>2. pc[w] \in Calling
    BY <2>1 DEF Typed, Coupled
  <2>3. call[w].host = seen[w].host
    <3>1. \/ call[w] = [op |-> "add", host |-> seen[w].host]
          \/ call[w] = [op |-> "remove", host |-> seen[w].host]
      BY <2>2 DEF Calling, Serves
    <3>. QED
      BY <3>1
  <2>. QED
    BY <1>1, <2>1, <2>2, <2>3 DEF Wanted
<1>2. CASE UNCHANGED dnsVars
  BY <1>2 DEF dnsVars, Fresh, Wanted
<1>3. CASE \/ \E op \in {"add", "remove"}, h \in Host : Begin(w, op, h)
           \/ End(w)
  BY <1>3, FreshCalls DEF Typed
<1>4. pc[w] # "idle" => seen[w].host \in Host
  BY DEF Typed, LocalsOK
<1>. QED
  BY <1>1, <1>2, <1>3, <1>4 DEF Step, Crash, ApplyIngress, ApplyCertificate, ApplyFails, DnsAdded,
     Deployed, DeleteCertificate, DeleteIngress, DnsRemoved, UndeployRaises, Undeployed, Erase,
     ReadCertificate, StoreStatus

(* What the calls of undeploy remove is listed, or given up.                *)
LEMMA RemovingStep ==
    ASSUME Typed, Fresh, Serves, Removing, NEW w \in Worker, Alone(w), Step(w) \/ Crash(w)
    PROVE  Removing'
<1> USE DEF Removing, Typed
<1>1. \A v \in Worker \ {w} : pc'[v] = "idle" /\ removed'[v] = {}
  BY OthersRest DEF Alone
<1>2. /\ pc[w] # "idle" /\ target[w] \in Domain
      /\ pc'[w] # "idle" => target'[w] = target[w] /\ seen'[w] = seen[w]
  BY StaysWithRow
<1>3. ASSUME removed'[w] = {}, pc'[w] \notin {"delIngress", "dnsRemove", "undeployed", "erase"}
      PROVE  Removing'
  BY <1>1, <1>3
<1>4. ASSUME Return(w) PROVE Removing'
  BY <1>3, <1>4, Returned
<1>5. CASE ApplyIngress(w) \/ ApplyCertificate(w) \/ ApplyFails(w) \/ DnsAdded(w) \/ Deployed(w)
  BY <1>3, <1>4, <1>5 DEF ApplyIngress, ApplyCertificate, ApplyFails, DnsAdded, Deployed, Goto,
     LocalsOK, localVars
<1>6. CASE DeleteCertificate(w)
  <2>1. removed[w] = {} /\ entries' = entries /\ ingress' = ingress /\ pc'[w] = "delIngress"
    BY <1>6 DEF DeleteCertificate, dnsVars, Goto, LocalsOK
  <2>2. CASE UnsetCertificate(w) /\ List(w, "Certificate")
    <3>1. removed'[w] = {"Certificate"} /\ cert'[target[w]] = NoCert
      BY <1>2, <2>1, <2>2 DEF UnsetCertificate, List, LocalsOK, ClusterOK
    <3>. QED
      BY <1>1, <1>2, <2>1, <3>1
  <2>3. CASE GiveUp(w) /\ UNCHANGED removed
    <3>1. removed'[w] = {} /\ target[w] \in excused'
      BY <2>1, <2>3 DEF GiveUp
    <3>. QED
      BY <1>1, <1>2, <2>1, <3>1
  <2>. QED
    BY <1>6, <2>2, <2>3 DEF DeleteCertificate
<1>7. CASE DeleteIngress(w)
  <2>1. /\ "Ingress" \in removed[w] => ingress[target[w]] = None
        /\ removed[w] \subseteq {"Certificate", "Ingress"}
        /\ entries' = entries /\ cert' = cert /\ pc'[w] = "dnsRemove"
        /\ target[w] \in excused \/ "Certificate" \in removed[w]
    BY <1>7 DEF DeleteIngress, Begin, Goto, LocalsOK
  <2>2. CASE UnsetIngress(w) /\ List(w, "Ingress") /\ UNCHANGED excused
    <3>1. removed'[w] = removed[w] \cup {"Ingress"} /\ ingress'[target[w]] = None
      BY <1>2, <2>2 DEF UnsetIngress, List, LocalsOK, ClusterOK
    <3>. QED
      BY <1>1, <1>2, <2>1, <2>2, <3>1
  <2>3. CASE (UnsetIngress(w) \/ UNCHANGED ingress) /\ GiveUp(w) /\ UNCHANGED removed
    <3>1. removed'[w] = removed[w] /\ target[w] \in excused'
      BY <2>3 DEF GiveUp
    <3>2. ingress'[target[w]] \in {ingress[target[w]], None}
      BY <1>2, <2>3 DEF UnsetIngress, ClusterOK
    <3>. QED
      BY <1>1, <1>2, <2>1, <3>1, <3>2
  <2>. QED
    BY <1>7, <2>2, <2>3 DEF DeleteIngress
<1>8. CASE DnsRemoved(w)
  <2>1. /\ pc[w] = "dnsRemove" /\ at[w] = "done" /\ answer[w] # "raised" /\ End(w)
        /\ entries' = entries /\ cert' = cert /\ ingress' = ingress /\ pc'[w] = "undeployed"
    BY <1>8 DEF DnsRemoved, End, Goto, LocalsOK, clusterVars
  <2>2. CASE answer[w] # "error" /\ List(w, "dns") /\ UNCHANGED excused
    <3>1. removed'[w] = removed[w] \cup {"dns"}
      BY <2>2 DEF List, LocalsOK
    <3>2. entries = Wanted(w) /\ call[w] = [op |-> "remove", host |-> seen[w].host]
      BY <2>1, <2>2 DEF Fresh, Serves
    <3>3. call[w].op = "remove" /\ call[w].host = seen[w].host
      BY <3>2
    <3>4. seen[w].host \notin entries
      BY <3>2, <3>3 DEF Wanted
    <3>5. target[w] \in excused' \/ removed'[w] = {"Certificate", "Ingress", "dns"}
      <4>1. removed[w] \subseteq {"Certificate", "Ingress", "dns"}
        BY DEF LocalsOK
      <4>2. target[w] \in excused \/ {"Certificate", "Ingress"} \subseteq removed[w]
        BY <2>1
      <4>. QED
        BY <2>2, <3>1, <4>1, <4>2
    <3>6. ("Certificate" \in removed[w] => cert[target[w]] = NoCert)
          /\ ("Ingress" \in removed[w] => ingress[target[w]] = None)
      OBVIOUS
    <3>. QED
      BY <1>1, <1>2, <2>1, <3>1, <3>4, <3>5, <3>6
  <2>3. CASE GiveUp(w) /\ UNCHANGED removed
    <3>1. removed'[w] = removed[w] /\ target[w] \in excused'
      BY <2>3 DEF GiveUp
    <3>. QED
      BY <1>1, <1>2, <2>1, <3>1
  <2>. QED
    BY <1>8, <2>2, <2>3 DEF DnsRemoved
<1>9. CASE UndeployRaises(w)
  <2>1. /\ entries' = entries /\ cert' = cert /\ ingress' = ingress /\ target[w] \in excused'
    BY <1>9 DEF UndeployRaises, End, GiveUp, dnsVars, clusterVars
  <2>2. CASE Goto(w, "erase") /\ UNCHANGED localVars
    BY <1>1, <1>2, <2>1, <2>2 DEF Goto, LocalsOK, localVars
  <2>. QED
    BY <1>4, <1>9, <2>2 DEF UndeployRaises, Escape
<1>10. CASE Undeployed(w)
  <2>1. /\ entries' = entries /\ cert' = cert /\ ingress' = ingress /\ excused' = excused
        /\ pc[w] = "undeployed"
    BY <1>10 DEF Undeployed, dnsVars, clusterVars
  <2>2. CASE Goto(w, "erase") /\ UNCHANGED localVars
    BY <1>1, <1>2, <2>1, <2>2 DEF Goto, LocalsOK, localVars
  <2>. QED
    BY <1>4, <1>10, <2>2 DEF Undeployed, Escape
<1>11. CASE Erase(w) \/ StoreStatus(w) \/ Crash(w)
  BY <1>4, <1>11 DEF Erase, StoreStatus, Crash
<1>12. CASE ReadCertificate(w)
  BY <1>3, <1>4, <1>12 DEF ReadCertificate, Goto, LocalsOK
<1>13. CASE CallDns(w)
  <2>1. /\ pc' = pc /\ target' = target /\ seen' = seen /\ removed' = removed
        /\ cert' = cert /\ ingress' = ingress /\ excused' = excused
    BY <1>13 DEF CallDns, clusterVars, localVars
  <2>2. "dns" \notin removed[w]
    BY <1>13, DnsGoesOn DEF CallDns, Coupled, Calling
  <2>. QED
    BY <1>1, <2>1, <2>2
<1>. QED
  BY <1>5, <1>6, <1>7, <1>8, <1>9, <1>10, <1>11, <1>12, <1>13 DEF Step

(* A request leaves what other domains have in the cluster alone, and the   *)
(* entries of other hosts.                                                  *)
LEMMA OthersKept ==
    ASSUME Typed, Fresh, Serves, NEW w \in Worker, Alone(w), Step(w) \/ Crash(w)
    PROVE  /\ \A d \in Domain \ {target[w]} : cert'[d] = cert[d] /\ ingress'[d] = ingress[d]
           /\ \A h \in Host \ {seen[w].host} : h \in entries' <=> h \in entries
           /\ excused \subseteq excused'
<1>1. entries' = entries \/ entries' \in {entries \cup {seen[w].host}, entries \ {seen[w].host}}
  BY EntriesChange
<1>2. target[w] \in Domain
  BY StaysWithRow
<1>3. /\ SetIngress(w) \/ UnsetIngress(w) \/ UNCHANGED ingress
      /\ SetCertificate(w) \/ UnsetCertificate(w) \/ UNCHANGED cert
      /\ excused' = excused \/ GiveUp(w)
  BY DEF Step, Crash, CallDns, ApplyIngress, ApplyCertificate, ApplyFails, DnsAdded,
     Deployed, DeleteCertificate, DeleteIngress, DnsRemoved, UndeployRaises, Undeployed, Erase,
     ReadCertificate, StoreStatus, clusterVars
<1>4. \A d \in Domain \ {target[w]} : cert'[d] = cert[d] /\ ingress'[d] = ingress[d]
  BY <1>2, <1>3 DEF SetIngress, UnsetIngress, SetCertificate, UnsetCertificate, Typed, ClusterOK
<1>. QED
  BY <1>1, <1>3, <1>4 DEF GiveUp

(* So a domain that is deleted stays gone, and one that is being deleted is *)
(* gone when its row says so.                                               *)
LEMMA DeletedStep ==
    ASSUME SerialInv, NEW w \in Worker, Alone(w), Step(w) \/ Crash(w)
    PROVE  DeletedIsGone'
<1> SUFFICES ASSUME NEW d \in Domain, state'[d] = "deleted", d \notin excused'
             PROVE  cert'[d] = NoCert /\ ingress'[d] = None /\ host'[d] \notin entries'
  BY DEF DeletedIsGone
<1> USE DEF SerialInv, Typed
<1>1. /\ \A e \in Domain \ {target[w]} : cert'[e] = cert[e] /\ ingress'[e] = ingress[e]
      /\ \A h \in Host \ {seen[w].host} : h \in entries' <=> h \in entries
      /\ excused \subseteq excused'
  BY OthersKept
<1>2. /\ pc[w] # "idle" /\ target[w] \in Domain /\ host' = host /\ seen[w].host \in Host
      /\ state[target[w]] = "live" /\ seen[w].host = host[target[w]]
  BY StaysWithRow DEF Serves
<1>3. CASE d # target[w]
  <2>1. state[d] = "deleted"
    <3>1. state' = state \/ Erase(w)
      BY DEF Step, Crash, CallDns, ApplyIngress, ApplyCertificate, ApplyFails, DnsAdded,
         Deployed, DeleteCertificate, DeleteIngress, DnsRemoved, UndeployRaises, Undeployed,
         ReadCertificate, StoreStatus, rowVars
    <3>. QED
      BY <1>3, <3>1 DEF Erase, RowsOK
  <2>2. cert[d] = NoCert /\ ingress[d] = None /\ host[d] \notin entries
    BY <1>1, <2>1 DEF DeletedIsGone
  <2>3. host[d] # seen[w].host
    BY <1>2, <1>3, NoneIsNoHost DEF UniqueHosts
  <2>4. host[d] \notin entries'
    <3>1. CASE host[d] \in Host
      BY <1>1, <2>2, <2>3, <3>1
    <3>2. CASE host[d] \notin Host
      <4>1. DnsTypeOK'
        BY TypedStep DEF Next, Act
      <4>. QED
        BY <3>2, <4>1 DEF DnsTypeOK
    <3>. QED
      BY <3>1, <3>2
  <2>. QED
    BY <1>1, <1>2, <1>3, <2>2, <2>4
<1>4. CASE d = target[w]
  <2>1. Erase(w)
    <3>1. state' = state \/ Erase(w)
      BY DEF Step, Crash, CallDns, ApplyIngress, ApplyCertificate, ApplyFails, DnsAdded,
         Deployed, DeleteCertificate, DeleteIngress, DnsRemoved, UndeployRaises, Undeployed,
         ReadCertificate, StoreStatus, rowVars
    <3>. QED
      BY <1>2, <1>4, <3>1
  <2>2. removed[w] = {"Certificate", "Ingress", "dns"}
    BY <1>1, <1>4, <2>1 DEF Erase, Removing
  <2>3. UNCHANGED <<cert, ingress, entries>>
    BY <2>1 DEF Erase, clusterVars, dnsVars
  <2>. QED
    BY <1>2, <1>4, <2>2, <2>3 DEF Removing
<1>. QED
  BY <1>3, <1>4

(* A host is given to a row only when no row has it, and while no request   *)
(* is served.                                                               *)
LEMMA HostStep ==
    ASSUME SerialInv, NEW w \in Worker, Alone(w),
           NEW d \in Domain, NEW h \in Host, Create(w, d, h) \/ UpdateHost(w, d, h)
    PROVE  SerialInv'
<1> USE DEF SerialInv
<1>1. /\ \A v \in Worker : pc[v] = "idle" /\ pc'[v] = "idle"
      /\ UNCHANGED <<dnsVars, clusterVars, localVars, excused>>
      /\ host' = [host EXCEPT ![d] = h] /\ \A e \in Domain : host[e] # h
      /\ state[d] # "deleted" /\ state'[d] = "live"
      /\ \A e \in Domain \ {d} : state'[e] = state[e]
  BY DEF Alone, Create, UpdateHost, Typed, RowsOK, LocalsOK
<1>2. Typed'
  BY TypedStep DEF Next, Act
<1>3. UniqueHosts'
  BY <1>1 DEF UniqueHosts, Typed, RowsOK
<1>4. Serves' /\ Removing' /\ Fresh'
  BY <1>1 DEF Serves, Removing, Fresh, Wanted, dnsVars, clusterVars, localVars
<1>5. DeletedIsGone'
  BY <1>1 DEF DeletedIsGone, Typed, RowsOK, dnsVars, clusterVars
<1>. QED
  BY <1>2, <1>3, <1>4, <1>5

(* A request begins with the row as it is.                                  *)
LEMMA BeginStep ==
    ASSUME SerialInv, NEW w \in Worker, Alone(w),
           BeginDeploy(w) \/ BeginUndeploy(w) \/ BeginStatus(w)
    PROVE  SerialInv'
<1> USE DEF SerialInv
<1>1. PICK d \in Domain : Load(w, d)
  BY DEF BeginDeploy, BeginUndeploy, BeginStatus
<1>2. /\ UNCHANGED <<dnsVars, rowVars, clusterVars, removed, excused>>
      /\ Goto(w, "ingress") \/ Goto(w, "delCertificate") \/ Goto(w, "readCertificate")
  BY DEF BeginDeploy, BeginUndeploy, BeginStatus
<1>3. /\ state[d] = "live" /\ target'[w] = d /\ seen'[w].host = host[d] /\ removed'[w] = {}
      /\ pc'[w] \in {"ingress", "delCertificate", "readCertificate"}
  BY <1>1, <1>2 DEF Load, Goto, Typed, LocalsOK, Removing
<1>4. Typed'
  BY TypedStep DEF Next, Act
<1>5. \A v \in Worker \ {w} : pc'[v] = "idle" /\ removed'[v] = {}
  BY <1>2 DEF Alone, Goto, Typed, LocalsOK, Removing
<1>6. Serves' /\ Removing'
  BY <1>2, <1>3, <1>5 DEF Serves, Removing, rowVars
<1>7. Fresh' /\ UniqueHosts' /\ DeletedIsGone'
  BY <1>2 DEF Fresh, Wanted, UniqueHosts, DeletedIsGone, dnsVars, rowVars, clusterVars
<1>. QED
  BY <1>4, <1>6, <1>7

(* cert-manager makes no Certificate.                                       *)
LEMMA IssueStep ==
    ASSUME SerialInv, NEW d \in Domain, Issue(d)
    PROVE  SerialInv'
<1> USE DEF SerialInv
<1>1. UNCHANGED <<dnsVars, rowVars, ingress, pc, localVars, excused>>
  BY DEF Issue
<1>2. \A e \in Domain : cert[e] = NoCert => cert'[e] = NoCert
  BY DEF Issue, Typed, ClusterOK, NoCert
<1>3. Typed'
  BY TypedStep DEF Next, Act
<1>4. Fresh' /\ UniqueHosts' /\ Serves'
  BY <1>1 DEF Fresh, Wanted, UniqueHosts, Serves, dnsVars, rowVars, localVars
<1>5. DeletedIsGone'
  BY <1>1, <1>2 DEF DeletedIsGone, dnsVars, rowVars
<1>6. Removing'
  <2>1. \A v \in Worker : removed[v] # {} => target[v] \in Domain
    BY DEF Removing, Typed, LocalsOK
  <2>. QED
    BY <1>1, <1>2, <2>1 DEF Removing, dnsVars, localVars
<1>. QED
  BY <1>3, <1>4, <1>5, <1>6

(* Where requests do not overlap, every request serves the row as it is,    *)
(* and what it removes stays removed.                                       *)
THEOREM SerialInvariant == EitherSpec => []SerialInv
<1>1. Init => SerialInv
  BY TypedInit DEF Init, DnsInit, SerialInv, Fresh, UniqueHosts, Serves, Removing, DeletedIsGone
<1>2. ASSUME SerialInv, [EitherNext]_allVars PROVE SerialInv'
  <2>1. ASSUME NEW w \in Worker, Alone(w), Step(w) \/ Crash(w) PROVE SerialInv'
    <3>1. Typed'
      BY <1>2, <2>1, TypedStep DEF SerialInv, Next, Act
    <3>2. UniqueHosts'
      BY <1>2, <2>1, StaysWithRow DEF SerialInv, UniqueHosts
    <3>. QED
      BY <1>2, <2>1, <3>1, <3>2, ServesStep, EntriesChange, RemovingStep, DeletedStep DEF SerialInv
  <2>2. CASE UNCHANGED vars
    <3>1. Typed'
      BY <1>2, <2>2, TypedStep DEF SerialInv
    <3>. QED
      BY <1>2, <2>2, <3>1 DEF SerialInv, Fresh, Wanted, UniqueHosts, Serves, Removing, DeletedIsGone,
         vars, dnsVars, rowVars, clusterVars, localVars
  <2>. QED
    BY <1>2, <2>1, <2>2, HostStep, BeginStep, IssueStep DEF EitherNext, allVars, Act
<1>. QED
  BY <1>1, <1>2, PTL DEF EitherSpec, EitherInit

(* What an undeploy reports as deleted is not in the cluster, whatever      *)
(* calls of the Kubernetes API and of the override failed.                  *)
THEOREM UndeploysAreTruthful == EitherSpec => []UndeployTruthful
<1>1. SerialInv => UndeployTruthful
  BY DEF SerialInv, Removing, UndeployTruthful
<1>. QED
  BY <1>1, SerialInvariant, PTL

(* A deleted domain has left the cluster, unless a removal was given up on, *)
(* and no later request of another domain brings its host back.             *)
THEOREM DeletedAreGone == EitherSpec => []DeletedIsGone
<1>1. SerialInv => DeletedIsGone
  BY DEF SerialInv
<1>. QED
  BY <1>1, SerialInvariant, PTL

(* Under the requests of domains, too, the DNS override is a table of hosts *)
(* of which a write changes one, where requests do not overlap.             *)
THEOREM DomainsImplementTable == EitherSpec => OneHostAtATime
<1>1. Init => Table!Init
  BY DEF Init, DnsInit, Table!Init
<1>2. ASSUME SerialInv, [EitherNext]_allVars PROVE [Table!Next]_entries
  <2>1. ASSUME NEW w \in Worker, Alone(w), Step(w) \/ Crash(w) PROVE [Table!Next]_entries
    <3>1. seen[w].host \in Host
      BY <1>2, <2>1, StaysWithRow DEF SerialInv
    <3>2. \/ entries' = entries
          \/ entries' \in {entries \cup {seen[w].host}, entries \ {seen[w].host}}
      BY <1>2, <2>1, EntriesChange DEF SerialInv
    <3>. QED
      BY <3>1, <3>2 DEF Table!Next, Table!Add, Table!Remove
  <2>2. CASE \/ \E w \in Worker, d \in Domain, h \in Host : Create(w, d, h) \/ UpdateHost(w, d, h)
             \/ \E w \in Worker : BeginDeploy(w) \/ BeginUndeploy(w) \/ BeginStatus(w)
             \/ \E d \in Domain : Issue(d)
             \/ UNCHANGED vars
    BY <2>2 DEF Create, UpdateHost, BeginDeploy, BeginUndeploy, BeginStatus, Issue, vars, dnsVars
  <2>. QED
    BY <1>2, <2>1, <2>2 DEF EitherNext, allVars, Act
<1>. QED
  BY <1>1, <1>2, SerialInvariant, PTL DEF EitherSpec, EitherInit, OneHostAtATime, Table!Spec

-----------------------------------------------------------------------------
(* The catalogue of second-level domains.                                   *)

PoolTyped == Catalogue!TypeOK /\ poolSubject \in [Worker -> PoolDomain \cup PoolHost \cup {None}]

(* Where requests do not overlap, no host is registered between the count   *)
(* of a deletion and its DELETE.                                            *)
CountHolds ==
    \A w \in Worker : poolPc[w] = "deletePool" => ~Catalogue!InUse(poolSubject[w])

(* Every step keeps the types.                                              *)
LEMMA PoolTypedStep ==
    ASSUME Catalogue!NoneAssumption, PoolTyped, [Catalogue!Next]_(Catalogue!vars)
    PROVE  PoolTyped'
<1> USE DEF PoolTyped, Catalogue!TypeOK, Catalogue!NoneAssumption
<1>1. ASSUME NEW w \in Worker, Catalogue!Return(w)
      PROVE  /\ poolPc' \in [Worker -> {"idle", "deletePool", "dropDomain"}]
             /\ poolSubject' \in [Worker -> PoolDomain \cup PoolHost \cup {None}]
             /\ \A v \in Worker :
                   poolSubject'[v] \in (CASE poolPc'[v] = "idle"       -> {None}
                                          [] poolPc'[v] = "deletePool" -> PoolDomain
                                          [] poolPc'[v] = "dropDomain" -> PoolHost)
  BY <1>1 DEF Catalogue!Return
<1>2. ASSUME NEW w \in Worker,
             Catalogue!DeletePool(w) \/ Catalogue!DropDomain(w) \/ Catalogue!Crash(w)
      PROVE  PoolTyped'
  <2>1. Catalogue!Return(w)
    BY <1>2 DEF Catalogue!DeletePool, Catalogue!DropDomain, Catalogue!Crash
  <2>2. pool' \subseteq PoolDomain /\ poolRow' \in [PoolHost -> {"none", "live", "deleted"}]
    BY <1>2 DEF Catalogue!DeletePool, Catalogue!DropDomain, Catalogue!Crash
  <2>. QED
    BY <1>1, <2>1, <2>2
<1>3. ASSUME NEW w \in Worker, NEW p \in PoolDomain,
             Catalogue!CreatePool(w, p) \/ Catalogue!BeginDeletePool(w, p)
      PROVE  PoolTyped'
  BY <1>3 DEF Catalogue!CreatePool, Catalogue!BeginDeletePool, Catalogue!Take
<1>4. ASSUME NEW w \in Worker, NEW h \in PoolHost, NEW g \in PoolHost,
             \/ Catalogue!CreateDomain(w, h) \/ Catalogue!BeginDropDomain(w, h)
             \/ Catalogue!ChangeHost(w, h, g)
      PROVE  PoolTyped'
  BY <1>4 DEF Catalogue!CreateDomain, Catalogue!BeginDropDomain, Catalogue!ChangeHost,
              Catalogue!Take
<1>5. CASE UNCHANGED Catalogue!vars
  BY <1>5 DEF Catalogue!vars
<1>. QED
  BY <1>2, <1>3, <1>4, <1>5 DEF Catalogue!Next, Catalogue!Act

(* A count that was taken still holds when the DELETE is sent.              *)
LEMMA CountStep ==
    ASSUME Catalogue!NoneAssumption, PoolTyped, CountHolds,
           \/ \E w \in Worker : PoolAlone(w) /\ Catalogue!Act(w)
           \/ UNCHANGED Catalogue!vars
    PROVE  CountHolds'
<1> USE DEF PoolAlone, PoolTyped, Catalogue!TypeOK, CountHolds, Catalogue!InUse
<1>1. ASSUME NEW w \in Worker, PoolAlone(w),
             Catalogue!DeletePool(w) \/ Catalogue!DropDomain(w) \/ Catalogue!Crash(w)
      PROVE  CountHolds'
  BY <1>1 DEF Catalogue!DeletePool, Catalogue!DropDomain, Catalogue!Crash, Catalogue!Return
<1>2. ASSUME NEW w \in Worker, PoolAlone(w), NEW p \in PoolDomain,
             Catalogue!CreatePool(w, p) \/ Catalogue!BeginDeletePool(w, p)
      PROVE  CountHolds'
  BY <1>2 DEF Catalogue!CreatePool, Catalogue!BeginDeletePool, Catalogue!Take
<1>3. ASSUME NEW w \in Worker, PoolAlone(w), NEW h \in PoolHost, NEW g \in PoolHost,
             \/ Catalogue!CreateDomain(w, h) \/ Catalogue!BeginDropDomain(w, h)
             \/ Catalogue!ChangeHost(w, h, g)
      PROVE  CountHolds'
  BY <1>3 DEF Catalogue!CreateDomain, Catalogue!BeginDropDomain, Catalogue!ChangeHost,
              Catalogue!Take
<1>4. CASE UNCHANGED Catalogue!vars
  BY <1>4 DEF Catalogue!vars
<1>. QED
  BY <1>1, <1>2, <1>3, <1>4 DEF Catalogue!Act

(* A second-level domain leaves the catalogue only while no live host lies  *)
(* under it, where requests do not overlap: the count before the DELETE is  *)
(* of another statement.                                                    *)
THEOREM PoolsGoUnused == EitherSpec => PoolGoesUnused
<1> DEFINE Held == PoolTyped /\ CountHolds
<1> USE PoolConstants
<1>1. EitherInit => Held
  BY DEF EitherInit, Catalogue!Init, PoolTyped, CountHolds, Catalogue!TypeOK
<1>2. [EitherNext]_allVars => \/ \E w \in Worker : PoolAlone(w) /\ Catalogue!Act(w)
                              \/ UNCHANGED Catalogue!vars
  BY DEF EitherNext, allVars, poolVars, Catalogue!vars
<1>3. Held /\ [EitherNext]_allVars => Held'
  BY <1>2, PoolTypedStep, CountStep DEF Catalogue!Next
<1>4. Held /\ [EitherNext]_allVars => [Catalogue!PoolGoesUnused]_allVars
  <2>1. ASSUME CountHolds, NEW w \in Worker, Catalogue!DeletePool(w)
        PROVE  Catalogue!PoolGoesUnused
    BY <2>1 DEF Catalogue!PoolGoesUnused, CountHolds, Catalogue!DeletePool
  <2>2. ASSUME pool \subseteq pool' PROVE Catalogue!PoolGoesUnused
    BY <2>2 DEF Catalogue!PoolGoesUnused
  <2>. QED
    BY <1>2, <2>1, <2>2
    DEF Catalogue!Act, Catalogue!vars, Catalogue!DropDomain, Catalogue!Crash,
        Catalogue!CreatePool, Catalogue!BeginDeletePool, Catalogue!CreateDomain,
        Catalogue!BeginDropDomain, Catalogue!ChangeHost
<1>. QED
  BY <1>1, <1>3, <1>4, PTL DEF EitherSpec, PoolGoesUnused

=============================================================================
