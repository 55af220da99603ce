------------------------------- MODULE Registry ------------------------------
(***************************************************************************)
(* The rows around an application - itself, its scoops, their domains -    *)
(* and what they stand for in the cluster, across the services that write  *)
(* them (apps, scoops and domains).  AppLifecycle, Scoops and Domains have *)
(* the inside of each operation with its failures; here an operation is    *)
(* what it reads, what it applies, what it commits, and the question is    *)
(* how operations of different services meet.                              *)
(*                                                                         *)
(* MySQL holds the foreign keys: all CASCADE, scoops.application_id may be *)
(* NULL.  Ids are given out once.  The namespace of an application is      *)
(* user-apps-<slug>, here the application itself.                          *)
(***************************************************************************)
CONSTANTS
    Worker,    \* gunicorn worker processes
    App,       \* ids of applications, and their namespaces (of no other table)
    Scoop,     \* ids of scoops
    Domain,    \* ids of domains, one host each
    Default,   \* DEFAULT_NAMESPACE, or any other that belongs to no application
    None,      \* no application, no scoop, no namespace
    Requests   \* what clients ask for, beyond creating and deploying

ASSUME NamesAssumption == None \notin App \cup Scoop \cup Domain \cup {Default} /\ Default \notin App
ASSUME IdsAssumption == App \cap Scoop = {} /\ App \cap Domain = {} /\ Scoop \cap Domain = {}
ASSUME RequestsAssumption == Requests \subseteq {"override", "move", "force", "deleteApp"}

Namespace == App \cup {Default}

VARIABLES
    app,     \* app[a]: the row of table applications
    scoop,   \* scoop[s]: of table scoops, with its application and namespace
    domain,  \* domain[d]: of table domains, with its application and scoop
    spaces,  \* the namespaces of applications in the cluster
    svc,     \* svc[s]: the namespaces with the objects of scoop s
    route,   \* route[d]: the namespaces with the Ingress of domain d
    entry,   \* the domains whose host the DNS block has
    spared,  \* history: the rows whose last deletion has left the cluster alone
    pc,      \* pc[w]: the step of the handler worker w is about to run
    target,  \* target[w]: the row it serves
    seen,    \* seen[w]: that row as its session has loaded it
    mode     \* mode[w]: the variant of the request

rowVars     == <<app, scoop, domain>>
clusterVars == <<spaces, svc, route, entry, spared>>
localVars   == <<target, seen, mode>>
vars == <<rowVars, clusterVars, pc, localVars>>

NoScoop  == [st |-> "none", app |-> None, ns |-> None]
NoDomain == [st |-> "none", app |-> None, scoop |-> None]

Init ==
    /\ app    = [a \in App |-> "none"]
    /\ scoop  = [s \in Scoop |-> NoScoop]
    /\ domain = [d \in Domain |-> NoDomain]
    /\ spaces = {}
    /\ svc    = [s \in Scoop |-> {}]
    /\ route  = [d \in Domain |-> {}]
    /\ entry  = {}
    /\ spared = {}
    /\ pc     = [w \in Worker |-> "idle"]
    /\ target = [w \in Worker |-> None]
    /\ seen   = [w \in Worker |-> NoScoop]
    /\ mode   = [w \in Worker |-> "none"]

-----------------------------------------------------------------------------
Goto(w, step) == pc' = [pc EXCEPT ![w] = step]

Return(w) ==
    /\ Goto(w, "idle")
    /\ target' = [target EXCEPT ![w] = None]
    /\ seen'   = [seen EXCEPT ![w] = NoScoop]
    /\ mode'   = [mode EXCEPT ![w] = "none"]

(* The handler has read a row and goes on to step.                          *)
Begin(w, id, row, variant, step) ==
    /\ pc[w] = "idle"
    /\ target' = [target EXCEPT ![w] = id]
    /\ seen'   = [seen EXCEPT ![w] = row]
    /\ mode'   = [mode EXCEPT ![w] = variant]
    /\ Goto(w, step)
    /\ UNCHANGED <<rowVars, clusterVars>>

AppLive(a)    == a \in App /\ app[a] = "live"
ScoopLive(s)  == s \in Scoop /\ scoop[s].st = "live"
DomainRow(d)  == domain[d].st \in {"live", "deleted"}

(* create_namespace where there is none; the default one is always there.   *)
EnsureSpace(n) == spaces' = spaces \cup ({n} \cap App)

-----------------------------------------------------------------------------
(* POST /api/apps, of which AppLifecycle has the steps.                     *)
CreateApp(w, a) ==
    /\ pc[w] = "idle"
    /\ app[a] = "none"
    /\ app' = [app EXCEPT ![a] = "live"]
    /\ EnsureSpace(a)
    /\ UNCHANGED <<scoop, domain, svc, route, entry, spared, pc, localVars>>

(* What a deletion does about the objects of its row: it removes them, or   *)
(* goes on without.                                                         *)
Removed(id) == spared' = spared \ {id}
Spared(id)  == spared' = spared \cup {id}

(* DELETE /api/apps/<id>: the namespace with all there is in it (an error   *)
(* is logged), then the row with all that refers to it.                     *)
BeginDeleteApp(w, a) ==
    /\ "deleteApp" \in Requests
    /\ AppLive(a)
    /\ Begin(w, a, NoScoop, "none", "deleteSpace")

DeleteSpace(w) ==
    LET a == target[w] IN
    /\ pc[w] = "deleteSpace"
    /\ \/ /\ spaces' = spaces \ {a}
          /\ svc'    = [s \in Scoop |-> svc[s] \ {a}]
          /\ route'  = [d \in Domain |-> route[d] \ {a}]
          /\ Removed(a)
       \/ UNCHANGED <<spaces, svc, route>> /\ Spared(a)
    /\ Goto(w, "dropApp")
    /\ UNCHANGED <<rowVars, entry, localVars>>

(* The foreign keys: applications -> scoops, and both -> domains.           *)
Cascade(a) ==
    LET own == {s \in Scoop : scoop[s].st = "live" /\ scoop[s].app = a} IN
    /\ app'    = [app EXCEPT ![a] = "gone"]
    /\ scoop'  = [s \in Scoop |->
                    IF s \in own THEN [scoop[s] EXCEPT !.st = "gone"] ELSE scoop[s]]
    /\ domain' = [d \in Domain |->
                    IF DomainRow(d) /\ (domain[d].app = a \/ domain[d].scoop \in own)
                    THEN [domain[d] EXCEPT !.st = "gone"] ELSE domain[d]]

(* Another deletion may have taken the row: the DELETE matches none.        *)
DropApp(w) ==
    /\ pc[w] = "dropApp"
    /\ \/ AppLive(target[w]) /\ Cascade(target[w])
       \/ ~AppLive(target[w]) /\ UNCHANGED rowVars
    /\ Return(w)
    /\ UNCHANGED clusterVars

-----------------------------------------------------------------------------
(* POST /api/scoops: namespace of the body, or of the application, or the   *)
(* default.                                                                 *)
(* Mutant: the default is forgotten.                                        *)
NamespaceOrNull(a) == a

(* Mutant: the application is forgotten.                                    *)
NamespaceDefault(a) == Default

OwnNamespace(a) == IF a = None THEN Default ELSE a

Chosen == IF "override" \in Requests THEN Namespace ELSE {}

BeginCreateScoop(w, s) ==
    /\ scoop[s].st = "none"
    /\ \E a \in App \cup {None} : \E n \in {OwnNamespace(a)} \cup Chosen :
         /\ a # None => AppLive(a)
         /\ Begin(w, s, [st |-> "live", app |-> a, ns |-> n], "none", "insertScoop")

(* The INSERT, unless a key refuses it.                                     *)
InsertScoop(w) ==
    /\ pc[w] = "insertScoop"
    /\ \/ /\ scoop[target[w]].st = "none"
          /\ seen[w].app # None => AppLive(seen[w].app)
          /\ scoop' = [scoop EXCEPT ![target[w]] = seen[w]]
       \/ /\ scoop[target[w]].st # "none" \/ (seen[w].app # None /\ ~AppLive(seen[w].app))
          /\ UNCHANGED scoop
    /\ Return(w)
    /\ UNCHANGED <<app, domain, clusterVars>>

(* PUT /api/scoops/<id>: an application that exists, any namespace; the     *)
(* UPDATE names the columns that differ from what was loaded, and fails     *)
(* when the row or the application is gone.                                 *)
MoveScoop(w, s) ==
    /\ "move" \in Requests
    /\ ScoopLive(s)
    /\ Begin(w, s, scoop[s], "none", "storeScoop")

StoreScoop(w) ==
    LET s == target[w] IN
    /\ pc[w] = "storeScoop"
    /\ \/ ScoopLive(s) /\ \E a \in App \cup {None}, n \in Namespace :
            /\ a \in {None, seen[w].app} \/ AppLive(a)
            /\ scoop' = [scoop EXCEPT
                  ![s].app = IF a = seen[w].app THEN @ ELSE a,
                  ![s].ns  = IF n = seen[w].ns THEN @ ELSE n]
       \/ UNCHANGED scoop
    /\ Return(w)
    /\ UNCHANGED <<app, domain, clusterVars>>

-----------------------------------------------------------------------------
(* POST and DELETE /api/scoops/<id>/deploy, in the namespace of the row as  *)
(* it was loaded.                                                           *)
BeginDeployScoop(w, s) ==
    /\ ScoopLive(s)
    /\ \E up \in {"apply", "remove"} : Begin(w, s, scoop[s], up, "deployScoop")

RemoveObjects(s, n) == svc' = [svc EXCEPT ![s] = @ \ {n}]

DeployScoop(w) ==
    /\ pc[w] = "deployScoop"
    /\ \/ /\ mode[w] = "apply"
          /\ EnsureSpace(seen[w].ns)
          /\ svc' = [svc EXCEPT ![target[w]] = @ \cup {seen[w].ns}]
       \/ /\ mode[w] = "remove"
          /\ RemoveObjects(target[w], seen[w].ns)
          /\ UNCHANGED spaces
    /\ Return(w)
    /\ UNCHANGED <<rowVars, route, entry, spared>>

(* DELETE /api/scoops/<id>: looks into the cluster, or cleans it, or (with  *)
(* force) neither.                                                          *)
BeginDeleteScoop(w, s) ==
    /\ ScoopLive(s)
    /\ \E m \in {"check", "undeploy", "force"} :
         /\ m = "force" => m \in Requests
         /\ Begin(w, s, scoop[s], m, "clearScoop")

(* Mutant: the check is left out.                                           *)
ClearScoopAnyhow(w) ==
    /\ pc[w] = "clearScoop"
    /\ IF mode[w] = "undeploy" THEN RemoveObjects(target[w], seen[w].ns) ELSE UNCHANGED svc
    /\ IF mode[w] = "force" THEN Spared(target[w]) ELSE Removed(target[w])
    /\ Goto(w, "dropScoop")
    /\ UNCHANGED <<rowVars, spaces, route, entry, localVars>>

(* Where the check gets an error, nothing counts as deployed.               *)
ClearScoop(w) ==
    LET deployed == seen[w].ns \in svc[target[w]] IN
    /\ pc[w] = "clearScoop"
    /\ \/ /\ mode[w] = "check" /\ deployed
          /\ Return(w)
          /\ UNCHANGED <<svc, spared>>
       \/ /\ \/ mode[w] \in {"force", "check"} /\ Spared(target[w])
             \/ mode[w] = "check" /\ ~deployed /\ Removed(target[w])
          /\ Goto(w, "dropScoop")
          /\ UNCHANGED <<svc, localVars>>
       \/ /\ mode[w] = "undeploy"
          /\ RemoveObjects(target[w], seen[w].ns)
          /\ Removed(target[w])
          /\ Goto(w, "dropScoop")
          /\ UNCHANGED localVars
    /\ UNCHANGED <<rowVars, spaces, route, entry>>

(* Scoop.domains has neither a cascade nor passive_deletes: the session     *)
(* unsets scoop_id of every domain of the scoop, those with deleted_at too, *)
(* and the column is NOT NULL.                                              *)
HasDomains(s) == \E d \in Domain : DomainRow(d) /\ domain[d].scoop = s

DropScoop(w) ==
    LET s == target[w] IN
    /\ pc[w] = "dropScoop"
    /\ \/ /\ ScoopLive(s) /\ ~HasDomains(s)
          /\ scoop' = [scoop EXCEPT ![s].st = "gone"]
       \/ /\ ~ScoopLive(s) \/ HasDomains(s)
          /\ UNCHANGED scoop
    /\ Return(w)
    /\ UNCHANGED <<app, domain, clusterVars>>

-----------------------------------------------------------------------------
(* POST /api/domains: application and scoop are read and belong together.   *)
BeginCreateDomain(w, d) ==
    /\ domain[d].st = "none"
    /\ \E a \in App, s \in Scoop :
         /\ AppLive(a) /\ ScoopLive(s) /\ scoop[s].app = a
         /\ Begin(w, d, [st |-> "live", app |-> a, scoop |-> s], "none", "insertDomain")

(* Mutant: the keys are not checked with the INSERT.                        *)
InsertDomainUnchecked(w) ==
    /\ pc[w] = "insertDomain"
    /\ domain[target[w]].st = "none"
    /\ domain' = [domain EXCEPT ![target[w]] = seen[w]]
    /\ Return(w)
    /\ UNCHANGED <<app, scoop, clusterVars>>

(* The INSERT, unless a key refuses it.                                     *)
InsertDomain(w) ==
    LET fits == /\ domain[target[w]].st = "none"
                /\ AppLive(seen[w].app) /\ ScoopLive(seen[w].scoop) IN
    /\ pc[w] = "insertDomain"
    /\ \/ fits /\ domain' = [domain EXCEPT ![target[w]] = seen[w]]
       \/ ~fits /\ UNCHANGED domain
    /\ Return(w)
    /\ UNCHANGED <<app, scoop, clusterVars>>

(* POST /api/domains/<id>/deploy: in the namespace of the application, and  *)
(* in the DNS block, which is shared.                                       *)
BeginDeployDomain(w, d) ==
    /\ domain[d].st = "live"
    /\ Begin(w, d, domain[d], "none", "applyRoute")

ApplyRoute(w) ==
    /\ pc[w] = "applyRoute"
    /\ EnsureSpace(seen[w].app)
    /\ route' = [route EXCEPT ![target[w]] = @ \cup {seen[w].app}]
    /\ Goto(w, "addEntry")
    /\ UNCHANGED <<rowVars, svc, entry, spared, localVars>>

AddEntry(w) ==
    /\ pc[w] = "addEntry"
    /\ entry' = entry \cup {target[w]}
    /\ Return(w)
    /\ UNCHANGED <<rowVars, spaces, svc, route, spared>>

(* DELETE /api/domains/<id>/deploy, and DELETE /api/domains/<id>: what      *)
(* fails in the cluster is passed over.                                     *)
BeginUndeployDomain(w, d) ==
    /\ domain[d].st = "live"
    /\ \E m \in {"undeploy", "erase"} : Begin(w, d, domain[d], m, "removeRoute")

RemoveRoute(w) ==
    LET d == target[w] IN
    /\ pc[w] = "removeRoute"
    /\ \/ /\ route' = [route EXCEPT ![d] = @ \ {seen[w].app}]
          /\ IF mode[w] = "erase" THEN Removed(d) ELSE UNCHANGED spared
       \/ /\ UNCHANGED route
          /\ IF mode[w] = "erase" THEN Spared(d) ELSE UNCHANGED spared
    /\ Goto(w, "removeEntry")
    /\ UNCHANGED <<rowVars, spaces, svc, entry, localVars>>

(* soft_delete goes on to the row, which may be gone by then.               *)
RemoveEntry(w) ==
    LET d == target[w] IN
    /\ pc[w] = "removeEntry"
    /\ \/ entry' = entry \ {d} /\ UNCHANGED spared
       \/ /\ UNCHANGED entry
          /\ IF mode[w] = "erase" THEN Spared(d) ELSE UNCHANGED spared
    /\ \/ /\ mode[w] = "erase" /\ domain[d].st = "live"
          /\ domain' = [domain EXCEPT ![d].st = "deleted"]
       \/ /\ mode[w] = "undeploy" \/ domain[d].st # "live"
          /\ UNCHANGED domain
    /\ Return(w)
    /\ UNCHANGED <<app, scoop, spaces, svc, route>>

-----------------------------------------------------------------------------
(* The worker is killed, or what it calls or commits raises.                *)
Crash(w) ==
    /\ pc[w] # "idle"
    /\ Return(w)
    /\ UNCHANGED <<rowVars, clusterVars>>

(* What a worker does next, with a new request or the one it has.           *)
Act(w) ==
    \/ \E a \in App : CreateApp(w, a) \/ BeginDeleteApp(w, a)
    \/ \E s \in Scoop :
         BeginCreateScoop(w, s) \/ MoveScoop(w, s) \/ BeginDeployScoop(w, s) \/ BeginDeleteScoop(w, s)
    \/ \E d \in Domain :
         BeginCreateDomain(w, d) \/ BeginDeployDomain(w, d) \/ BeginUndeployDomain(w, d)
    \/ DeleteSpace(w) \/ DropApp(w)
    \/ InsertScoop(w) \/ StoreScoop(w) \/ DeployScoop(w) \/ ClearScoop(w) \/ DropScoop(w)
    \/ InsertDomain(w) \/ ApplyRoute(w) \/ AddEntry(w) \/ RemoveRoute(w) \/ RemoveEntry(w)
    \/ Crash(w)

Next == \E w \in Worker : Act(w)

Spec == Init /\ [][Next]_vars

-----------------------------------------------------------------------------
Steps == {"idle", "deleteSpace", "dropApp", "insertScoop", "storeScoop", "deployScoop",
          "clearScoop", "dropScoop", "insertDomain", "applyRoute", "addEntry",
          "removeRoute", "removeEntry"}

ScoopRow  == [st : {"none", "live", "gone"}, app : App \cup {None}, ns : Namespace \cup {None}]
DomainRows == [st : {"none", "live", "deleted", "gone"},
               app : App \cup {None}, scoop : Scoop \cup {None}]

TypeOK ==
    /\ app \in [App -> {"none", "live", "gone"}]
    /\ scoop \in [Scoop -> ScoopRow]
    /\ domain \in [Domain -> DomainRows]
    /\ spaces \subseteq App
    /\ svc \in [Scoop -> SUBSET Namespace]
    /\ route \in [Domain -> SUBSET App]
    /\ entry \subseteq Domain
    /\ spared \subseteq App \cup Scoop \cup Domain
    /\ pc \in [Worker -> Steps]
    /\ target \in [Worker -> App \cup Scoop \cup Domain \cup {None}]
    /\ seen \in [Worker -> ScoopRow \cup DomainRows]
    /\ mode \in [Worker -> {"none", "apply", "remove", "check", "undeploy", "force", "erase"}]

(* A row refers to rows, whatever the requests that overlap: a domain to    *)
(* its application and its scoop, a scoop to its application if it has one. *)
(* The code checks them long before it inserts; the keys must hold the rest.*)
RowsRefer ==
    /\ \A d \in Domain : DomainRow(d) => AppLive(domain[d].app) /\ ScoopLive(domain[d].scoop)
    /\ \A s \in Scoop : ScoopLive(s) /\ scoop[s].app # None => AppLive(scoop[s].app)

(* A scoop is published by a domain of its own application, as the creation *)
(* of the domain demands.                                                   *)
DomainWithinApp ==
    \A d \in Domain : DomainRow(d) => scoop[domain[d].scoop].app = domain[d].app

(* A step that applies the Ingress of a domain applies it in the namespace  *)
(* of its scoop, where the Service is that it routes to.                    *)
RouteReachesScoop ==
    \A d \in Domain : \A n \in route'[d] \ route[d] : n = scoop[domain[d].scoop].ns

(* What is no longer registered has left the cluster, unless the deletion   *)
(* that took its row has said that it leaves it there: the namespace of an  *)
(* application, the objects of a scoop, the Ingress and (of a domain that   *)
(* was deleted for itself) the DNS entry.  A failure before that, a crash,  *)
(* a retry or what was deployed in between is no excuse.                    *)
(* (Checked where requests do not overlap.)                                 *)
DeadLeavesNothing ==
    /\ \A a \in App : app[a] = "gone" => a \notin spaces \ spared
    /\ \A s \in Scoop : scoop[s].st = "gone" => s \in spared \/ svc[s] \subseteq spared
    /\ \A d \in Domain :
         domain[d].st \in {"deleted", "gone"} => d \in spared \/ route[d] \subseteq spared
    /\ \A d \in Domain : domain[d].st = "deleted" => d \notin entry \ spared

(* The DNS block has hosts of registered domains only.                      *)
EntriesHaveDomains == \A d \in entry : domain[d].st = "live"

(* Where a DELETE has cleaned the cluster of a scoop, its row can go.       *)
CleanedCanGo ==
    \A w \in Worker : pc[w] = "dropScoop" /\ mode[w] = "undeploy" => ~HasDomains(target[w])

(* A scoop outlives its application.                                        *)
ScoopsSurvive ==
    [][\A s \in Scoop, a \in App :
         scoop[s].st = "live" /\ scoop[s].app = a /\ app[a] = "live" /\ app'[a] = "gone"
         => scoop'[s] = [scoop[s] EXCEPT !.app = None]]_vars

=============================================================================
