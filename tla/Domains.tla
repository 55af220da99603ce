------------------------------- MODULE Domains -------------------------------
(***************************************************************************)
(* Domains of scoops (app/modules/domains/service.py): a row that names a  *)
(* host, and the Ingress, Certificate and DNS entry that deploy applies in *)
(* this order and undeploy removes in the opposite one.  Workers call      *)
(* ClusterDNS for the entry.  GET /status copies the state of the          *)
(* Certificate into the row.                                               *)
(***************************************************************************)
EXTENDS ClusterDNS

CONSTANT Domain   \* ids of domains

VARIABLES
    state,    \* state[d]: no row, a row, a row with deleted_at
    host,     \* host[d]: its columns host
    status,   \* status[d]: and status
    ingress,  \* ingress[d]: the host its Ingress routes
    cert,     \* cert[d]: its Certificate
    pc,       \* pc[w]: the step of the handler worker w is about to run
    target,   \* target[w]: the domain it serves
    seen,     \* seen[w]: the row as its session has loaded it
    erasing,  \* erasing[w]: it undeploys on behalf of soft_delete
    removed,  \* removed[w]: what the answer of undeploy will list as deleted
    found,    \* found[w]: the status the Certificate stands for
    excused   \* history: domains of which a removal was given up

rowVars     == <<state, host, status>>
clusterVars == <<ingress, cert>>
localVars   == <<target, seen, erasing, removed, found>>
vars == <<dnsVars, rowVars, clusterVars, pc, localVars, excused>>

Statuses == {"pending", "active", "error"}
NoCert   == [host |-> None, phase |-> "absent"]
NoRow    == [host |-> None, status |-> "pending"]

Init ==
    /\ DnsInit
    /\ state   = [d \in Domain |-> "none"]
    /\ host    = [d \in Domain |-> None]
    /\ status  = [d \in Domain |-> "pending"]
    /\ ingress = [d \in Domain |-> None]
    /\ cert    = [d \in Domain |-> NoCert]
    /\ pc      = [w \in Worker |-> "idle"]
    /\ target  = [w \in Worker |-> None]
    /\ seen    = [w \in Worker |-> NoRow]
    /\ erasing = [w \in Worker |-> FALSE]
    /\ removed = [w \in Worker |-> {}]
    /\ found   = [w \in Worker |-> "pending"]
    /\ excused = {}

-----------------------------------------------------------------------------
Goto(w, step) == pc' = [pc EXCEPT ![w] = step]

(* The handler returns or raises.                                           *)
Return(w) ==
    /\ Goto(w, "idle")
    /\ target'  = [target EXCEPT ![w] = None]
    /\ seen'    = [seen EXCEPT ![w] = NoRow]
    /\ erasing' = [erasing EXCEPT ![w] = FALSE]
    /\ removed' = [removed EXCEPT ![w] = {}]
    /\ found'   = [found EXCEPT ![w] = "pending"]

(* Mutant: the row is not looked for.                                       *)
LoadAny(w, d) ==
    /\ pc[w] = "idle"
    /\ target' = [target EXCEPT ![w] = d]
    /\ seen'   = [seen EXCEPT ![w] = [host |-> host[d], status |-> status[d]]]

(* DomainService.get: a row without deleted_at, or a 404.                   *)
Load(w, d) ==
    /\ pc[w] = "idle"
    /\ state[d] = "live"
    /\ target' = [target EXCEPT ![w] = d]
    /\ seen'   = [seen EXCEPT ![w] = [host |-> host[d], status |-> status[d]]]

(* SQLAlchemy writes a column that differs from what the session loaded.    *)
Store(w, s) ==
    status' = [status EXCEPT ![target[w]] = IF s # seen[w].status THEN s ELSE @]

GiveUp(w) == excused' = excused \cup {target[w]}

(* An exception leaves undeploy: soft_delete goes on, the endpoint does not.*)
Escape(w) ==
    IF erasing[w]
    THEN Goto(w, "erase") /\ UNCHANGED localVars
    ELSE Return(w)

-----------------------------------------------------------------------------
(* POST /api/domains and the host of PUT: the column host is UNIQUE, and    *)
(* the rows with deleted_at count.                                          *)
Create(w, d, h) ==
    /\ pc[w] = "idle"
    /\ state[d] = "none"
    /\ \A e \in Domain : host[e] # h
    /\ state' = [state EXCEPT ![d] = "live"]
    /\ host'  = [host EXCEPT ![d] = h]
    /\ UNCHANGED <<dnsVars, status, clusterVars, pc, localVars, excused>>

UpdateHost(w, d, h) ==
    /\ pc[w] = "idle"
    /\ state[d] = "live"
    /\ \A e \in Domain : host[e] # h
    /\ host' = [host EXCEPT ![d] = h]
    /\ UNCHANGED <<dnsVars, state, status, clusterVars, pc, localVars, excused>>

-----------------------------------------------------------------------------
(* POST /api/domains/<id>/deploy                                            *)
BeginDeploy(w) ==
    /\ \E d \in Domain : Load(w, d)
    /\ Goto(w, "ingress")
    /\ UNCHANGED <<dnsVars, rowVars, clusterVars, erasing, removed, found, excused>>

SetIngress(w) == ingress' = [ingress EXCEPT ![target[w]] = seen[w].host]

(* A Certificate for another host is issued anew.                           *)
SetCertificate(w) ==
    cert' = [cert EXCEPT ![target[w]] =
               IF @.host = seen[w].host THEN @
               ELSE [host |-> seen[w].host, phase |-> "issuing"]]

ApplyIngress(w) ==
    /\ pc[w] = "ingress"
    /\ SetIngress(w)
    /\ Goto(w, "certificate")
    /\ UNCHANGED <<dnsVars, rowVars, cert, localVars, excused>>

ApplyCertificate(w) ==
    /\ pc[w] = "certificate"
    /\ SetCertificate(w)
    /\ Begin(w, "add", seen[w].host)
    /\ Goto(w, "dnsAdd")
    /\ UNCHANGED <<rowVars, ingress, localVars, excused>>

(* The namespace, the Ingress or the Certificate cannot be applied: the     *)
(* exception leaves deploy, what was applied stays.                         *)
ApplyFails(w) ==
    /\ \/ pc[w] = "ingress" /\ (SetIngress(w) \/ UNCHANGED ingress) /\ UNCHANGED cert
       \/ pc[w] = "certificate" /\ (SetCertificate(w) \/ UNCHANGED cert) /\ UNCHANGED ingress
    /\ Return(w)
    /\ UNCHANGED <<dnsVars, rowVars, excused>>

(* Only a ClusterDNSError is caught around add.                             *)
DnsAdded(w) ==
    /\ pc[w] = "dnsAdd" /\ at[w] = "done"
    /\ \/ answer[w] # "raised" /\ Goto(w, "deployed") /\ UNCHANGED localVars
       \/ answer[w] = "raised" /\ Return(w)
    /\ End(w)
    /\ UNCHANGED <<rowVars, clusterVars, excused>>

Deployed(w) ==
    /\ pc[w] = "deployed"
    /\ Store(w, "pending")
    /\ Return(w)
    /\ UNCHANGED <<dnsVars, state, host, clusterVars, excused>>

-----------------------------------------------------------------------------
(* DELETE /api/domains/<id>/deploy, and DELETE /api/domains/<id>, which     *)
(* undeploys first.                                                         *)
BeginUndeploy(w) ==
    /\ \E d \in Domain : Load(w, d)
    /\ \E b \in BOOLEAN : erasing' = [erasing EXCEPT ![w] = b]
    /\ Goto(w, "delCertificate")
    /\ UNCHANGED <<dnsVars, rowVars, clusterVars, removed, found, excused>>

UnsetCertificate(w) == cert' = [cert EXCEPT ![target[w]] = NoCert]
UnsetIngress(w)     == ingress' = [ingress EXCEPT ![target[w]] = None]

List(w, kind) == removed' = [removed EXCEPT ![w] = @ \cup {kind}]

DeleteCertificate(w) ==
    /\ pc[w] = "delCertificate"
    /\ Goto(w, "delIngress")
    /\ \/ UnsetCertificate(w) /\ List(w, "Certificate") /\ UNCHANGED excused
       \/ (UnsetCertificate(w) \/ UNCHANGED cert) /\ GiveUp(w) /\ UNCHANGED removed
    /\ UNCHANGED <<dnsVars, rowVars, ingress, target, seen, erasing, found>>

(* Mutant: undeploy leaves the DNS entry alone.                             *)
DeleteIngressNoDns(w) ==
    /\ pc[w] = "delIngress"
    /\ UnsetIngress(w) /\ List(w, "Ingress") /\ UNCHANGED excused
    /\ Goto(w, "undeployed")
    /\ UNCHANGED <<dnsVars, rowVars, cert, target, seen, erasing, found>>

DeleteIngress(w) ==
    /\ pc[w] = "delIngress"
    /\ \/ UnsetIngress(w) /\ List(w, "Ingress") /\ UNCHANGED excused
       \/ (UnsetIngress(w) \/ UNCHANGED ingress) /\ GiveUp(w) /\ UNCHANGED removed
    /\ Begin(w, "remove", seen[w].host)
    /\ Goto(w, "dnsRemove")
    /\ UNCHANGED <<rowVars, cert, target, seen, erasing, found>>

(* Mutant: an error of remove is listed like a success.                     *)
DnsRemovedAlways(w) ==
    /\ pc[w] = "dnsRemove" /\ at[w] = "done"
    /\ answer[w] # "raised"
    /\ Goto(w, "undeployed")
    /\ List(w, "dns")
    /\ End(w)
    /\ UNCHANGED <<rowVars, clusterVars, target, seen, erasing, found, excused>>

DnsRemoved(w) ==
    /\ pc[w] = "dnsRemove" /\ at[w] = "done"
    /\ answer[w] # "raised"
    /\ Goto(w, "undeployed")
    /\ \/ answer[w] # "error" /\ List(w, "dns") /\ UNCHANGED excused
       \/ answer[w] = "error" /\ GiveUp(w) /\ UNCHANGED removed
    /\ End(w)
    /\ UNCHANGED <<rowVars, clusterVars, target, seen, erasing, found>>

(* What is not an ApiException at the first two, not a ClusterDNSError at   *)
(* the third, leaves undeploy.                                              *)
UndeployRaises(w) ==
    /\ \/ pc[w] \in {"delCertificate", "delIngress"} /\ UNCHANGED dnsVars
       \/ pc[w] = "dnsRemove" /\ at[w] = "done" /\ answer[w] = "raised" /\ End(w)
    /\ GiveUp(w)
    /\ Escape(w)
    /\ UNCHANGED <<rowVars, clusterVars>>

Undeployed(w) ==
    /\ pc[w] = "undeployed"
    /\ Store(w, "pending")
    /\ Escape(w)
    /\ UNCHANGED <<dnsVars, state, host, clusterVars, excused>>

Erase(w) ==
    /\ pc[w] = "erase"
    /\ state' = [state EXCEPT ![target[w]] = "deleted"]
    /\ Return(w)
    /\ UNCHANGED <<dnsVars, host, status, clusterVars, excused>>

-----------------------------------------------------------------------------
(* GET /api/domains/<id>/status                                             *)
BeginStatus(w) ==
    /\ \E d \in Domain : Load(w, d)
    /\ Goto(w, "readCertificate")
    /\ UNCHANGED <<dnsVars, rowVars, clusterVars, erasing, removed, found, excused>>

PhaseStatus == [issuing |-> "pending", ready |-> "active", invalid |-> "error"]

(* The phase is read, and half a dozen calls later it is compared with the  *)
(* status the session loaded.  Without a Certificate the row stays.         *)
ReadCertificate(w) ==
    LET c == cert[target[w]] IN
    /\ pc[w] = "readCertificate"
    /\ \/ c.phase = "absent" /\ Return(w)
       \/ /\ c.phase # "absent"
          /\ found' = [found EXCEPT ![w] = PhaseStatus[c.phase]]
          /\ Goto(w, "storeStatus")
          /\ UNCHANGED <<target, seen, erasing, removed>>
    /\ UNCHANGED <<dnsVars, rowVars, clusterVars, excused>>

StoreStatus(w) ==
    /\ pc[w] = "storeStatus"
    /\ Store(w, found[w])
    /\ Return(w)
    /\ UNCHANGED <<dnsVars, state, host, clusterVars, excused>>

-----------------------------------------------------------------------------
(* gunicorn kills the worker, or the database refuses the commit.           *)
Crash(w) ==
    /\ pc[w] # "idle"
    /\ Return(w)
    /\ \/ at[w] = "idle" /\ UNCHANGED dnsVars
       \/ at[w] # "idle" /\ End(w)
    /\ UNCHANGED <<rowVars, clusterVars, excused>>

(* cert-manager: the HTTP-01 challenge needs the Ingress and the DNS entry. *)
Issue(d) ==
    /\ cert[d].phase = "issuing"
    /\ \/ /\ ingress[d] = cert[d].host /\ cert[d].host \in served
          /\ cert' = [cert EXCEPT ![d] = [host |-> @.host, phase |-> "ready"]]
       \/ cert' = [cert EXCEPT ![d] = [host |-> @.host, phase |-> "invalid"]]
    /\ UNCHANGED <<dnsVars, rowVars, ingress, pc, localVars, excused>>

CallDns(w) == DnsStep(w) /\ UNCHANGED <<rowVars, clusterVars, pc, localVars, excused>>

Step(w) ==
    \/ ApplyIngress(w) \/ ApplyCertificate(w) \/ ApplyFails(w) \/ DnsAdded(w) \/ Deployed(w)
    \/ DeleteCertificate(w) \/ DeleteIngress(w) \/ DnsRemoved(w) \/ UndeployRaises(w)
    \/ Undeployed(w) \/ Erase(w)
    \/ ReadCertificate(w) \/ StoreStatus(w)
    \/ CallDns(w)

Act(w) ==
    \/ \E d \in Domain, h \in Host : Create(w, d, h) \/ UpdateHost(w, d, h)
    \/ BeginDeploy(w) \/ BeginUndeploy(w) \/ BeginStatus(w)
    \/ Step(w) \/ Crash(w)

Next == (\E w \in Worker : Act(w)) \/ (\E d \in Domain : Issue(d))

Spec == Init /\ [][Next]_vars

-----------------------------------------------------------------------------
Steps == {"idle", "ingress", "certificate", "dnsAdd", "deployed", "delCertificate",
          "delIngress", "dnsRemove", "undeployed", "erase", "readCertificate", "storeStatus"}

(* Types, and that a worker is inside ClusterDNS exactly while its handler  *)
(* waits for it.                                                            *)
TypeOK ==
    /\ DnsTypeOK
    /\ state \in [Domain -> {"none", "live", "deleted"}]
    /\ host \in [Domain -> Host \cup {None}]
    /\ status \in [Domain -> Statuses]
    /\ ingress \in [Domain -> Host \cup {None}]
    /\ cert \in [Domain -> [host : Host \cup {None},
                            phase : {"absent", "issuing", "ready", "invalid"}]]
    /\ pc \in [Worker -> Steps]
    /\ target \in [Worker -> Domain \cup {None}]
    /\ seen \in [Worker -> [host : Host \cup {None}, status : Statuses]]
    /\ erasing \in [Worker -> BOOLEAN]
    /\ removed \in [Worker -> SUBSET {"Certificate", "Ingress", "dns"}]
    /\ found \in [Worker -> Statuses]
    /\ excused \subseteq Domain
    /\ \A w \in Worker : at[w] # "idle" <=> pc[w] \in {"dnsAdd", "dnsRemove"}

(* A deleted domain has left the cluster, unless a removal was given up on. *)
(* (Checked where requests do not overlap.)                                 *)
DeletedIsGone ==
    \A d \in Domain : state[d] = "deleted" /\ d \notin excused =>
        cert[d] = NoCert /\ ingress[d] = None /\ host[d] \notin entries

(* What an undeploy is about to report as deleted is not in the cluster.    *)
(* (Checked where requests do not overlap.)                                 *)
UndeployTruthful ==
    \A w \in Worker : pc[w] = "undeployed" =>
        /\ "Certificate" \in removed[w] => cert[target[w]] = NoCert
        /\ "Ingress" \in removed[w] => ingress[target[w]] = None
        /\ "dns" \in removed[w] => seen[w].host \notin entries

(* A host that add is about to report as there resolves: CoreDNS has been   *)
(* restarted since its entry was written.  (After a failed restart the next *)
(* add finds the entry and leaves CoreDNS alone.)                           *)
AddedResolves ==
    \A w \in Worker :
        call[w].op = "add" /\ answer[w] \in {"same", "changed"} => call[w].host \in served

(* When every domain is deleted, and no removal was given up, the table of  *)
(* hosts is empty.  (The entry of a host that PUT has replaced stays.)      *)
AllDeletedAllGone ==
    (\A d \in Domain : state[d] = "deleted") /\ excused = {} => entries = {}

=============================================================================
