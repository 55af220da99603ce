--------------------------- MODULE Registry_proofs ----------------------------
(***************************************************************************)
(* Safety of Registry for every set of workers, applications, scoops and    *)
(* domains: what the foreign keys hold whichever requests overlap, and what *)
(* the services hold of the cluster where they do not.                      *)
(***************************************************************************)
EXTENDS RegistryTraffic, TLAPS

AppSteps    == {"deleteSpace", "dropApp"}
ScoopSteps  == {"insertScoop", "storeScoop", "deployScoop", "clearScoop", "dropScoop"}
DomainSteps == {"insertDomain", "applyRoute", "addEntry", "removeRoute", "removeEntry"}

LiveScoop  == [st : {"live"}, app : App \cup {None}, ns : Namespace]
LiveDomain == [st : {"live"}, app : App, scoop : Scoop]

(* A handler serves a row of the table it belongs to, and has loaded (or    *)
(* put together) one with all its columns.                                  *)
LocalOK ==
    /\ pc \in [Worker -> Steps]
    /\ target \in [Worker -> App \cup Scoop \cup Domain \cup {None}]
    /\ seen \in [Worker -> ScoopRow \cup DomainRows]
    /\ mode \in [Worker -> {"none", "apply", "remove", "check", "undeploy", "force", "erase"}]
    /\ \A w \in Worker :
          /\ pc[w] \in AppSteps => target[w] \in App
          /\ pc[w] \in ScoopSteps => target[w] \in Scoop /\ seen[w] \in LiveScoop
          /\ pc[w] \in DomainSteps => target[w] \in Domain /\ seen[w] \in LiveDomain

(* The tables, with a namespace for every scoop that there is.              *)
RowsOK ==
    /\ app \in [App -> {"none", "live", "gone"}]
    /\ scoop \in [Scoop -> ScoopRow]
    /\ domain \in [Domain -> DomainRows]
    /\ \A s \in Scoop : scoop[s].st # "none" => scoop[s].ns \in Namespace

ClusterOK ==
    /\ spaces \subseteq App
    /\ svc \in [Scoop -> SUBSET Namespace]
    /\ route \in [Domain -> SUBSET App]
    /\ entry \subseteq Domain
    /\ spared \subseteq App \cup Scoop \cup Domain

IInv == LocalOK /\ RowsOK /\ ClusterOK /\ RowsRefer

-----------------------------------------------------------------------------
(* The rows that are not there, and the columns of those that are.          *)
LEMMA Columns ==
    /\ NoScoop \in ScoopRow /\ NoDomain \in DomainRows
    /\ LiveScoop \subseteq ScoopRow /\ LiveDomain \subseteq DomainRows
    /\ None \notin App /\ None \notin Scoop /\ None \notin Domain
    /\ Default \notin App /\ Default # None
    /\ \A a \in App \cup {None} : OwnNamespace(a) \in Namespace
BY NamesAssumption DEF NoScoop, NoDomain, ScoopRow, DomainRows, LiveScoop, LiveDomain, Namespace,
                       OwnNamespace

(* A row that is there has its columns.                                     *)
LEMMA LiveRows ==
    ASSUME RowsOK, RowsRefer
    PROVE  /\ \A s \in Scoop : ScoopLive(s) => scoop[s] \in LiveScoop
           /\ \A d \in Domain : domain[d].st = "live" => domain[d] \in LiveDomain
BY DEF RowsOK, RowsRefer, ScoopRow, DomainRows, LiveScoop, LiveDomain, ScoopLive, AppLive,
       DomainRow

(* What an answer leaves of its worker, and of the others.                  *)
LEMMA Returned == ASSUME LocalOK, NEW w \in Worker, Return(w) PROVE LocalOK'
BY Columns DEF LocalOK, Return, Goto, Steps, AppSteps, ScoopSteps, DomainSteps

(* So does a step that stays with its row.                                  *)
LEMMA Continued ==
    ASSUME LocalOK, NEW w \in Worker, NEW step, Goto(w, step), UNCHANGED localVars,
           \/ pc[w] \in AppSteps /\ step \in AppSteps
           \/ pc[w] \in ScoopSteps /\ step \in ScoopSteps
           \/ pc[w] \in DomainSteps /\ step \in DomainSteps
    PROVE  LocalOK'
BY DEF LocalOK, Goto, Steps, AppSteps, ScoopSteps, DomainSteps, localVars

(* A handler that has read its row has the columns of its table.            *)
LEMMA Begun ==
    ASSUME LocalOK, NEW w \in Worker, NEW id, NEW row, NEW variant, NEW step,
           Begin(w, id, row, variant, step),
           variant \in {"none", "apply", "remove", "check", "undeploy", "force", "erase"},
           \/ step \in AppSteps /\ id \in App /\ row = NoScoop
           \/ step \in ScoopSteps /\ id \in Scoop /\ row \in LiveScoop
           \/ step \in DomainSteps /\ id \in Domain /\ row \in LiveDomain
    PROVE  LocalOK'
BY Columns DEF LocalOK, Begin, Goto, Steps, AppSteps, ScoopSteps, DomainSteps

(* Every handler serves a row of its own table.                             *)
LEMMA LocalStep == ASSUME IInv, [Next]_vars PROVE LocalOK'
<1> USE DEF IInv
<1>1. ASSUME NEW w \in Worker, NEW a \in App, CreateApp(w, a) PROVE LocalOK'
  BY <1>1 DEF CreateApp, LocalOK, localVars
<1>2. ASSUME NEW w \in Worker, NEW a \in App, BeginDeleteApp(w, a) PROVE LocalOK'
  BY <1>2, Begun DEF BeginDeleteApp, AppSteps
<1>3. ASSUME NEW w \in Worker, NEW s \in Scoop, BeginCreateScoop(w, s) PROVE LocalOK'
  <2>1. PICK a \in App \cup {None} : \E m \in {OwnNamespace(a)} \cup Chosen :
            Begin(w, s, [st |-> "live", app |-> a, ns |-> m], "none", "insertScoop")
    BY <1>3 DEF BeginCreateScoop
  <2>2. PICK n \in Namespace :
            Begin(w, s, [st |-> "live", app |-> a, ns |-> n], "none", "insertScoop")
    BY <2>1, Columns DEF Chosen
  <2>3. [st |-> "live", app |-> a, ns |-> n] \in LiveScoop
    BY DEF LiveScoop
  <2>. QED
    BY <2>2, <2>3, Begun DEF ScoopSteps
<1>4. ASSUME NEW w \in Worker, NEW s \in Scoop,
             MoveScoop(w, s) \/ BeginDeployScoop(w, s) \/ BeginDeleteScoop(w, s)
      PROVE  LocalOK'
  <2>1. scoop[s] \in LiveScoop
    BY <1>4, LiveRows DEF MoveScoop, BeginDeployScoop, BeginDeleteScoop
  <2>2. PICK m \in {"none", "apply", "remove", "check", "undeploy", "force"}, step \in ScoopSteps :
            Begin(w, s, scoop[s], m, step)
    BY <1>4 DEF MoveScoop, BeginDeployScoop, BeginDeleteScoop, ScoopSteps
  <2>. QED
    BY <2>1, <2>2, Begun
<1>5. ASSUME NEW w \in Worker, NEW d \in Domain, BeginCreateDomain(w, d) PROVE LocalOK'
  <2>1. PICK a \in App, s \in Scoop :
            Begin(w, d, [st |-> "live", app |-> a, scoop |-> s], "none", "insertDomain")
    BY <1>5 DEF BeginCreateDomain
  <2>2. [st |-> "live", app |-> a, scoop |-> s] \in LiveDomain
    BY DEF LiveDomain
  <2>. QED
    BY <2>1, <2>2, Begun DEF DomainSteps
<1>6. ASSUME NEW w \in Worker, NEW d \in Domain,
             BeginDeployDomain(w, d) \/ BeginUndeployDomain(w, d)
      PROVE  LocalOK'
  <2>1. domain[d] \in LiveDomain
    BY <1>6, LiveRows DEF BeginDeployDomain, BeginUndeployDomain
  <2>2. PICK m \in {"none", "undeploy", "erase"}, step \in DomainSteps :
            Begin(w, d, domain[d], m, step)
    BY <1>6 DEF BeginDeployDomain, BeginUndeployDomain, DomainSteps
  <2>. QED
    BY <2>1, <2>2, Begun
<1>7. ASSUME NEW w \in Worker, DeleteSpace(w) \/ ApplyRoute(w) \/ RemoveRoute(w) PROVE LocalOK'
  BY <1>7, Continued DEF DeleteSpace, ApplyRoute, RemoveRoute, AppSteps, DomainSteps
<1>8. ASSUME NEW w \in Worker, ClearScoop(w) PROVE LocalOK'
  BY <1>8, Continued, Returned DEF ClearScoop, ScoopSteps
<1>9. ASSUME NEW w \in Worker, Return(w) PROVE LocalOK'
  BY <1>9, Returned
<1>10. CASE UNCHANGED vars
  BY <1>10 DEF vars, localVars, LocalOK
<1>. QED
  BY <1>1, <1>2, <1>3, <1>4, <1>5, <1>6, <1>7, <1>8, <1>9, <1>10
  DEF Next, Act, DropApp, InsertScoop, StoreScoop, DeployScoop, DropScoop, InsertDomain, AddEntry,
      RemoveEntry, Crash

(* The cluster has objects of registered names only.                        *)
LEMMA ClusterStep == ASSUME IInv, [Next]_vars PROVE ClusterOK'
<1> USE DEF IInv, ClusterOK, LocalOK, clusterVars, Namespace, Removed, Spared
<1>1. CASE UNCHANGED clusterVars
  BY <1>1
<1>2. ASSUME NEW w \in Worker, NEW a \in App, CreateApp(w, a) PROVE ClusterOK'
  BY <1>2 DEF CreateApp, EnsureSpace
<1>3. ASSUME NEW w \in Worker, DeleteSpace(w) PROVE ClusterOK'
  BY <1>3 DEF DeleteSpace, AppSteps
<1>4. ASSUME NEW w \in Worker, DeployScoop(w) PROVE ClusterOK'
  BY <1>4 DEF DeployScoop, EnsureSpace, RemoveObjects, ScoopSteps, LiveScoop
<1>5. ASSUME NEW w \in Worker, ClearScoop(w) PROVE ClusterOK'
  BY <1>5 DEF ClearScoop, RemoveObjects, ScoopSteps
<1>6. ASSUME NEW w \in Worker, ApplyRoute(w) PROVE ClusterOK'
  BY <1>6 DEF ApplyRoute, EnsureSpace, DomainSteps, LiveDomain
<1>7. ASSUME NEW w \in Worker, AddEntry(w) \/ RemoveRoute(w) \/ RemoveEntry(w) PROVE ClusterOK'
  BY <1>7 DEF AddEntry, RemoveRoute, RemoveEntry, DomainSteps
<1>8. ASSUME NEW w \in Worker,
             \/ \E a \in App : BeginDeleteApp(w, a)
             \/ \E s \in Scoop : \/ BeginCreateScoop(w, s) \/ MoveScoop(w, s)
                                 \/ BeginDeployScoop(w, s) \/ BeginDeleteScoop(w, s)
             \/ \E d \in Domain : \/ BeginCreateDomain(w, d) \/ BeginDeployDomain(w, d)
                                  \/ BeginUndeployDomain(w, d)
      PROVE  UNCHANGED clusterVars
  BY <1>8 DEF BeginDeleteApp, BeginCreateScoop, MoveScoop, BeginDeployScoop, BeginDeleteScoop,
              BeginCreateDomain, BeginDeployDomain, BeginUndeployDomain, Begin
<1>9. ASSUME NEW w \in Worker,
             \/ DropApp(w) \/ InsertScoop(w) \/ StoreScoop(w) \/ DropScoop(w)
             \/ InsertDomain(w) \/ Crash(w)
      PROVE  UNCHANGED clusterVars
  BY <1>9 DEF DropApp, InsertScoop, StoreScoop, DropScoop, InsertDomain, Crash
<1>10. CASE UNCHANGED vars
  BY <1>1, <1>10 DEF vars
<1>. QED
  BY <1>1, <1>2, <1>3, <1>4, <1>5, <1>6, <1>7, <1>8, <1>9, <1>10 DEF Next, Act

(* The UPDATE of a moved scoop: the application it had, another that is     *)
(* there or none, and the namespace it had or another.                      *)
LEMMA StoreWrites ==
    ASSUME RowsOK, LocalOK, NEW w \in Worker, StoreScoop(w), scoop' # scoop
    PROVE  \E row \in LiveScoop :
              /\ scoop' = [scoop EXCEPT ![target[w]] = row]
              /\ target[w] \in Scoop /\ ScoopLive(target[w])
              /\ row.app \in {None, scoop[target[w]].app} \/ AppLive(row.app)
<1> DEFINE s == target[w]
<1>1. s \in Scoop /\ ScoopLive(s) /\ scoop[s] \in LiveScoop
  BY DEF StoreScoop, LocalOK, ScoopSteps, RowsOK, ScoopLive, ScoopRow, LiveScoop
<1>2. PICK a \in App \cup {None}, n \in Namespace :
        /\ a \in {None, seen[w].app} \/ AppLive(a)
        /\ scoop' = [scoop EXCEPT ![s].app = IF a = seen[w].app THEN @ ELSE a,
                                  ![s].ns  = IF n = seen[w].ns THEN @ ELSE n]
  BY DEF StoreScoop
<1> DEFINE row == [scoop[s] EXCEPT !.app = IF a = seen[w].app THEN @ ELSE a,
                                   !.ns  = IF n = seen[w].ns THEN @ ELSE n]
<1>3. scoop' = [scoop EXCEPT ![s] = row]
  BY <1>1, <1>2 DEF RowsOK
<1>4. row \in LiveScoop /\ row.app = IF a = seen[w].app THEN scoop[s].app ELSE a
  BY <1>1 DEF LiveScoop
<1>. HIDE DEF row
<1>. QED
  BY <1>1, <1>2, <1>3, <1>4

(* The rows that a key lets go with an application, and those it keeps.     *)
LEMMA CascadeKeeps ==
    ASSUME RowsOK, RowsRefer, NEW a \in App, AppLive(a), Cascade(a)
    PROVE  RowsOK' /\ RowsRefer'
<1> DEFINE own == {s \in Scoop : scoop[s].st = "live" /\ scoop[s].app = a}
<1>1. app' = [app EXCEPT ![a] = "gone"]
  BY DEF Cascade
<1>2. \A s \in Scoop : /\ scoop'[s] \in ScoopRow
                       /\ scoop'[s].st = IF s \in own THEN "gone" ELSE scoop[s].st
                       /\ scoop'[s].app = scoop[s].app /\ scoop'[s].ns = scoop[s].ns
  BY DEF Cascade, RowsOK, ScoopRow
<1>3. \A d \in Domain : /\ domain'[d] \in DomainRows
                        /\ domain'[d].app = domain[d].app /\ domain'[d].scoop = domain[d].scoop
                        /\ domain'[d].st = IF DomainRow(d) /\ (domain[d].app = a \/ domain[d].scoop \in own)
                                           THEN "gone" ELSE domain[d].st
  BY DEF Cascade, RowsOK, DomainRows
<1>4. RowsOK'
  BY <1>1, <1>2, <1>3 DEF RowsOK, Cascade
<1>5. ASSUME NEW s \in Scoop, ScoopLive(s)' PROVE ScoopLive(s) /\ s \notin own
  BY <1>2, <1>5 DEF ScoopLive
<1>6. ASSUME NEW s \in Scoop, ScoopLive(s)', scoop'[s].app # None PROVE AppLive(scoop[s].app)'
  BY <1>1, <1>2, <1>5, <1>6 DEF RowsRefer, ScoopLive, AppLive, RowsOK
<1>7. ASSUME NEW d \in Domain, DomainRow(d)'
      PROVE  AppLive(domain[d].app)' /\ ScoopLive(domain[d].scoop)'
  <2>1. DomainRow(d) /\ domain[d].app # a /\ domain[d].scoop \notin own
    BY <1>3, <1>7 DEF DomainRow
  <2>2. AppLive(domain[d].app) /\ ScoopLive(domain[d].scoop)
    BY <2>1 DEF RowsRefer
  <2>. QED
    BY <1>1, <1>2, <1>3, <2>1, <2>2 DEF AppLive, ScoopLive, RowsOK
<1>. QED
  BY <1>4, <1>6, <1>7 DEF RowsRefer

(* Whatever the handlers have checked, the keys keep the tables whole.      *)
LEMMA RowsStep == ASSUME IInv, [Next]_vars PROVE RowsOK' /\ RowsRefer'
<1> USE DEF IInv
<1>1. CASE UNCHANGED rowVars
  BY <1>1 DEF rowVars, RowsOK, RowsRefer, DomainRow, ScoopLive, AppLive
<1>2. ASSUME NEW w \in Worker, NEW a \in App, CreateApp(w, a) PROVE RowsOK' /\ RowsRefer'
  BY <1>2 DEF CreateApp, RowsOK, RowsRefer, DomainRow, ScoopLive, AppLive
<1>3. ASSUME NEW w \in Worker, DropApp(w) PROVE RowsOK' /\ RowsRefer'
  <2>1. target[w] \in App
    BY <1>3 DEF DropApp, LocalOK, AppSteps
  <2>. QED
    BY <1>1, <1>3, <2>1, CascadeKeeps DEF DropApp
<1>4. ASSUME NEW w \in Worker, NEW s \in Scoop, NEW row \in LiveScoop,
             scoop' = [scoop EXCEPT ![s] = row],
             row.app # None => AppLive(row.app),
             UNCHANGED <<app, domain>>
      PROVE  RowsOK' /\ RowsRefer'
  BY <1>4, Columns DEF LiveScoop, RowsOK, RowsRefer, DomainRow, ScoopLive, AppLive
<1>5. ASSUME NEW w \in Worker, InsertScoop(w) PROVE RowsOK' /\ RowsRefer'
  <2>1. target[w] \in Scoop /\ seen[w] \in LiveScoop
    BY <1>5 DEF InsertScoop, LocalOK, ScoopSteps
  <2>. QED
    BY <1>1, <1>4, <1>5, <2>1 DEF InsertScoop, rowVars
<1>6. ASSUME NEW w \in Worker, StoreScoop(w) PROVE RowsOK' /\ RowsRefer'
  <2>1. CASE scoop' = scoop
    BY <1>1, <1>6, <2>1 DEF StoreScoop, rowVars
  <2>2. CASE scoop' # scoop
    <3>1. PICK row \in LiveScoop :
              /\ scoop' = [scoop EXCEPT ![target[w]] = row]
              /\ target[w] \in Scoop /\ ScoopLive(target[w])
              /\ row.app \in {None, scoop[target[w]].app} \/ AppLive(row.app)
      BY <1>6, <2>2, StoreWrites
    <3>2. row.app # None => AppLive(row.app)
      BY <3>1 DEF RowsRefer
    <3>. QED
      BY <1>4, <1>6, <3>1, <3>2 DEF StoreScoop
  <2>. QED
    BY <2>1, <2>2
<1>7. ASSUME NEW w \in Worker, DropScoop(w) PROVE RowsOK' /\ RowsRefer'
  <2>1. CASE UNCHANGED scoop
    BY <1>1, <1>7, <2>1 DEF DropScoop, rowVars
  <2>2. CASE /\ ScoopLive(target[w]) /\ ~HasDomains(target[w])
             /\ scoop' = [scoop EXCEPT ![target[w]].st = "gone"]
    BY <1>7, <2>2 DEF DropScoop, HasDomains, RowsOK, RowsRefer, DomainRow, ScoopLive, AppLive, ScoopRow
  <2>. QED
    BY <1>7, <2>1, <2>2 DEF DropScoop
<1>8. ASSUME NEW w \in Worker, InsertDomain(w) PROVE RowsOK' /\ RowsRefer'
  <2>1. target[w] \in Domain /\ seen[w] \in LiveDomain
    BY <1>8 DEF InsertDomain, LocalOK, DomainSteps
  <2>2. CASE UNCHANGED domain
    BY <1>1, <1>8, <2>2 DEF InsertDomain, rowVars
  <2>3. CASE /\ AppLive(seen[w].app) /\ ScoopLive(seen[w].scoop)
             /\ domain' = [domain EXCEPT ![target[w]] = seen[w]]
    BY <1>8, <2>1, <2>3, Columns
    DEF InsertDomain, RowsOK, RowsRefer, DomainRow, ScoopLive, AppLive
  <2>. QED
    BY <1>8, <2>2, <2>3 DEF InsertDomain
<1>9. ASSUME NEW w \in Worker, RemoveEntry(w) PROVE RowsOK' /\ RowsRefer'
  <2>1. CASE UNCHANGED domain
    BY <1>1, <1>9, <2>1 DEF RemoveEntry, rowVars
  <2>2. CASE /\ domain[target[w]].st = "live"
             /\ domain' = [domain EXCEPT ![target[w]].st = "deleted"]
    <3>1. target[w] \in Domain
      BY <1>9 DEF RemoveEntry, LocalOK, DomainSteps
    <3>. QED
      BY <1>9, <2>2, <3>1
      DEF RemoveEntry, RowsOK, RowsRefer, DomainRow, ScoopLive, AppLive, DomainRows
  <2>. QED
    BY <1>9, <2>1, <2>2 DEF RemoveEntry
<1>. QED
  BY <1>1, <1>2, <1>3, <1>5, <1>6, <1>7, <1>8, <1>9
  DEF Next, Act, BeginDeleteApp, BeginCreateScoop, MoveScoop, BeginDeployScoop, BeginDeleteScoop,
      BeginCreateDomain, BeginDeployDomain, BeginUndeployDomain, Begin, DeleteSpace, DeployScoop,
      ClearScoop, ApplyRoute, AddEntry, RemoveRoute, Crash, vars, rowVars

(* There are no rows and no objects in the initial state.                   *)
LEMMA HoldsAtStart == Init => IInv
BY Columns DEF Init, IInv, LocalOK, RowsOK, ClusterOK, RowsRefer, NoScoop, NoDomain, Steps, AppSteps,
   ScoopSteps, DomainSteps, DomainRow, ScoopLive

-----------------------------------------------------------------------------
(* The inductive invariant.                                                 *)
THEOREM Invariant == Spec => []IInv
<1>1. Init => IInv
  BY HoldsAtStart
<1>2. IInv /\ [Next]_vars => IInv'
  BY LocalStep, ClusterStep, RowsStep DEF IInv
<1>. QED
  BY <1>1, <1>2, PTL DEF Spec

(* The tables, the cluster and what the handlers hold keep their types.     *)
THEOREM TypeCorrect == Spec => []TypeOK
<1>1. IInv => TypeOK
  BY DEF IInv, LocalOK, RowsOK, ClusterOK, TypeOK
<1>. QED
  BY <1>1, Invariant, PTL

(* A domain refers to an application and a scoop that are there, a scoop to *)
(* an application that is there, whatever requests overlap between the      *)
(* check of a handler and its INSERT.                                       *)
THEOREM RowsReferToRows == Spec => []RowsRefer
<1>1. IInv => RowsRefer
  BY DEF IInv
<1>. QED
  BY <1>1, Invariant, PTL

-----------------------------------------------------------------------------
(* Where requests do not overlap, and leave scoops where their application  *)
(* has put them.                                                            *)

(* A scoop is in the namespace of its application.                          *)
Placed == \A s \in Scoop : scoop[s].st # "none" => scoop[s].ns = OwnNamespace(scoop[s].app)

(* The deletion of application a has gone, and left its namespace.          *)
LeftBehind(a) == a \in App /\ app[a] = "gone" /\ a \in spared

(* What the cluster has is what the rows ask for, or what the deletions of  *)
(* the rows have left there.                                                *)
OnlyRegistered ==
    /\ \A a \in spaces : app[a] = "live" \/ LeftBehind(a)
    /\ \A s \in Scoop : svc[s] # {} =>
          /\ scoop[s].st # "none" /\ svc[s] = {scoop[s].ns}
          /\ scoop[s].st = "live" \/ s \in spared \/ LeftBehind(scoop[s].ns)
    /\ \A d \in Domain : route[d] # {} =>
          /\ domain[d].st # "none" /\ route[d] = {domain[d].app}
          /\ domain[d].st = "live" \/ d \in spared \/ LeftBehind(domain[d].app)
    /\ \A d \in Domain : domain[d].st = "deleted" /\ d \in entry => d \in spared

USE DEF LeftBehind

(* What the request has loaded is what the row has, and what it has removed *)
(* from the cluster is gone when it comes to the row.                       *)
Current(w) ==
    /\ pc[w] \in AppSteps => AppLive(target[w])
    /\ pc[w] = "dropApp" /\ target[w] \notin spared =>
          /\ target[w] \notin spaces
          /\ \A s \in Scoop : target[w] \notin svc[s]
          /\ \A d \in Domain : target[w] \notin route[d]
    /\ pc[w] = "insertScoop" => scoop[target[w]].st = "none"
    /\ pc[w] \in {"deployScoop", "clearScoop", "dropScoop"} =>
          ScoopLive(target[w]) /\ seen[w] = scoop[target[w]]
    /\ pc[w] = "dropScoop" => svc[target[w]] = {} \/ target[w] \in spared
    /\ pc[w] = "insertDomain" =>
          domain[target[w]].st = "none" /\ scoop[seen[w].scoop].app = seen[w].app
    /\ pc[w] \in {"applyRoute", "addEntry", "removeRoute", "removeEntry"} =>
          domain[target[w]].st = "live" /\ seen[w] = domain[target[w]]
    /\ pc[w] = "removeEntry" /\ mode[w] = "erase" =>
          route[target[w]] = {} \/ target[w] \in spared

SerialInv ==
    /\ IInv /\ Plain
    /\ Placed /\ OnlyRegistered /\ DomainWithinApp /\ \A w \in Worker : Current(w)

(* A worker that has nothing to do holds nothing.                           *)
LEMMA IdleIsCurrent == ASSUME NEW w \in Worker, pc[w] = "idle" PROVE Current(w)
BY DEF Current, AppSteps

(* A request that is over holds nothing.                                    *)
LEMMA ReturnedAlone ==
    ASSUME LocalOK, NEW w \in Worker, Alone(w), Return(w)
    PROVE  \A v \in Worker : Current(v)'
BY DEF Alone, LocalOK, Return, Goto, Current, AppSteps

(* The rows and the cluster as a request reads them are there until it has  *)
(* come to its end.                                                         *)
LEMMA BeginsCurrent ==
    ASSUME SerialInv, Plain', NEW w \in Worker, Alone(w),
           \/ \E a \in App : BeginDeleteApp(w, a)
           \/ \E s \in Scoop : \/ BeginCreateScoop(w, s) \/ MoveScoop(w, s)
                               \/ BeginDeployScoop(w, s) \/ BeginDeleteScoop(w, s)
           \/ \E d \in Domain : \/ BeginCreateDomain(w, d) \/ BeginDeployDomain(w, d)
                                \/ BeginUndeployDomain(w, d)
    PROVE  \A v \in Worker : Current(v)'
<1> USE DEF SerialInv, IInv, LocalOK, Begin, Goto, rowVars, clusterVars
<1>1. SUFFICES Current(w)'
  BY DEF Alone, Current, AppSteps, BeginDeleteApp, BeginCreateScoop, MoveScoop, BeginDeployScoop,
         BeginDeleteScoop, BeginCreateDomain, BeginDeployDomain, BeginUndeployDomain
<1>2. CASE \E a \in App : BeginDeleteApp(w, a)
  BY <1>2 DEF BeginDeleteApp, Current, AppSteps, AppLive
<1>3. ASSUME NEW s \in Scoop, BeginCreateScoop(w, s) PROVE Current(w)'
  <2>1. scoop[s].st = "none" /\ UNCHANGED scoop
    BY <1>3 DEF BeginCreateScoop
  <2>2. pc'[w] = "insertScoop" /\ target'[w] = s
    BY <1>3 DEF BeginCreateScoop
  <2>. QED
    BY <2>1, <2>2 DEF Current, AppSteps
<1>4. ASSUME NEW s \in Scoop, MoveScoop(w, s) PROVE FALSE
  BY <1>4 DEF MoveScoop, Plain
<1>5. ASSUME NEW s \in Scoop, BeginDeployScoop(w, s) PROVE Current(w)'
  BY <1>5 DEF BeginDeployScoop, Current, AppSteps, ScoopLive
<1>6. ASSUME NEW s \in Scoop, BeginDeleteScoop(w, s) PROVE Current(w)'
  BY <1>6 DEF BeginDeleteScoop, Current, AppSteps, ScoopLive
<1>7. ASSUME NEW d \in Domain, BeginCreateDomain(w, d) PROVE Current(w)'
  <2>1. PICK a \in App, s \in Scoop :
            /\ scoop[s].app = a
            /\ Begin(w, d, [st |-> "live", app |-> a, scoop |-> s], "none", "insertDomain")
    BY <1>7 DEF BeginCreateDomain
  <2>2. domain[d].st = "none"
    BY <1>7 DEF BeginCreateDomain
  <2>3. seen'[w] = [st |-> "live", app |-> a, scoop |-> s]
        /\ pc'[w] = "insertDomain" /\ target'[w] = d /\ UNCHANGED <<scoop, domain>>
    BY <2>1
  <2>. QED
    BY <2>1, <2>2, <2>3 DEF Current, AppSteps
<1>8. ASSUME NEW d \in Domain, BeginDeployDomain(w, d) PROVE Current(w)'
  BY <1>8 DEF BeginDeployDomain, Current, AppSteps
<1>9. ASSUME NEW d \in Domain, BeginUndeployDomain(w, d) PROVE Current(w)'
  BY <1>9 DEF BeginUndeployDomain, Current, AppSteps
<1>. QED
  BY <1>2, <1>3, <1>4, <1>5, <1>6, <1>7, <1>8, <1>9

WorldInv == Placed /\ OnlyRegistered /\ DomainWithinApp

(* The deletion of an application: its namespace is empty when the keys let *)
(* its scoops and domains go.                                               *)
LEMMA DropAppSerial ==
    ASSUME SerialInv, NEW w \in Worker, Alone(w), DropApp(w)
    PROVE  WorldInv'
<1> USE DEF SerialInv, IInv
<1>. PICK a \in App : a = target[w]
  BY DEF DropApp, LocalOK, AppSteps
<1> DEFINE own == {s \in Scoop : scoop[s].st = "live" /\ scoop[s].app = a}
<1>1. /\ AppLive(a) /\ Cascade(a) /\ UNCHANGED clusterVars
      /\ a \in spaces => a \in spared
      /\ \A s \in Scoop : a \in svc[s] => a \in spared
      /\ \A d \in Domain : a \in route[d] => a \in spared
  BY DEF DropApp, Current, AppSteps, LocalOK
<1>2. app' = [app EXCEPT ![a] = "gone"]
  BY <1>1 DEF Cascade
<1>3. \A s \in Scoop : /\ scoop'[s].st = IF s \in own THEN "gone" ELSE scoop[s].st
                       /\ scoop'[s].app = scoop[s].app /\ scoop'[s].ns = scoop[s].ns
  BY <1>1 DEF Cascade, RowsOK, ScoopRow
<1>4. \A d \in Domain : /\ domain'[d].app = domain[d].app /\ domain'[d].scoop = domain[d].scoop
                        /\ domain'[d].st = IF DomainRow(d) /\ (domain[d].app = a \/ domain[d].scoop \in own)
                                           THEN "gone" ELSE domain[d].st
  BY <1>1 DEF Cascade, RowsOK, DomainRows
<1>5. Placed'
  BY <1>3 DEF Placed
<1>6. \A s \in own : svc[s] # {} => scoop[s].ns = a /\ a \in spared
  <2>1. ASSUME NEW s \in own PROVE scoop[s].ns = a
    BY <1>1, Columns DEF Placed, OwnNamespace
  <2>. QED
    BY <1>1, <2>1 DEF OnlyRegistered
<1>7. \A d \in Domain : domain'[d].st # domain[d].st /\ route[d] # {} =>
          domain[d].app = a /\ a \in spared
  <2>1. ASSUME NEW d \in Domain, DomainRow(d), domain[d].app = a \/ domain[d].scoop \in own
        PROVE  domain[d].app = a
    BY <2>1 DEF DomainWithinApp
  <2>. QED
    BY <1>1, <1>4, <2>1 DEF OnlyRegistered
<1>8. OnlyRegistered'
  <2>1. UNCHANGED <<spaces, svc, route, entry, spared>>
    BY <1>1 DEF clusterVars
  <2>2. ASSUME NEW b \in Namespace \cup {None}, LeftBehind(b) PROVE LeftBehind(b)'
    BY <1>1, <1>2, <2>1, <2>2 DEF AppLive, RowsOK
  <2>3. a \in spared => LeftBehind(a)'
    BY <1>1, <1>2, <2>1 DEF RowsOK
  <2>4. \A b \in spaces : app'[b] = "live" \/ LeftBehind(b)'
    BY <1>1, <1>2, <2>2, <2>3 DEF OnlyRegistered, RowsOK, ClusterOK, Namespace
  <2>5. ASSUME NEW s \in Scoop, svc[s] # {}
        PROVE  /\ scoop'[s].st # "none" /\ svc[s] = {scoop'[s].ns}
               /\ scoop'[s].st = "live" \/ s \in spared \/ LeftBehind(scoop[s].ns)'
    <3>1. /\ scoop[s].st # "none" /\ svc[s] = {scoop[s].ns}
          /\ scoop[s].st = "live" \/ s \in spared \/ LeftBehind(scoop[s].ns)
      BY <2>5 DEF OnlyRegistered
    <3>2. CASE s \in own
      BY <1>3, <1>6, <2>3, <2>5, <3>1, <3>2
    <3>3. CASE s \notin own
      BY <1>3, <2>2, <3>1, <3>3 DEF RowsOK
    <3>. QED
      BY <3>2, <3>3
  <2>6. ASSUME NEW d \in Domain, route[d] # {}
        PROVE  /\ domain'[d].st # "none" /\ route[d] = {domain'[d].app}
               /\ domain'[d].st = "live" \/ d \in spared \/ LeftBehind(domain[d].app)'
    <3>1. /\ domain[d].st # "none" /\ route[d] = {domain[d].app}
          /\ domain[d].st = "live" \/ d \in spared \/ LeftBehind(domain[d].app)
      BY <2>6 DEF OnlyRegistered
    <3>2. CASE domain'[d].st # domain[d].st
      BY <1>4, <1>7, <2>3, <2>6, <3>1, <3>2
    <3>3. CASE domain'[d].st = domain[d].st
      <4>1. domain[d].app \in Namespace \cup {None}
        BY DEF RowsOK, DomainRows, Namespace
      <4>. QED
        BY <1>4, <2>2, <3>1, <3>3, <4>1
    <3>. QED
      BY <3>2, <3>3
  <2>7. \A d \in Domain : domain'[d].st = "deleted" /\ d \in entry => d \in spared
    BY <1>4 DEF OnlyRegistered
  <2>. QED
    BY <2>1, <2>4, <2>5, <2>6, <2>7 DEF OnlyRegistered
<1>9. DomainWithinApp'
  <2>1. ASSUME NEW d \in Domain, DomainRow(d)'
        PROVE  DomainRow(d) /\ domain[d].scoop \in Scoop
    BY <1>4, <2>1 DEF DomainRow, RowsRefer, ScoopLive
  <2>. QED
    BY <1>3, <1>4, <2>1 DEF DomainWithinApp
<1>. QED
  BY <1>5, <1>8, <1>9 DEF WorldInv

(* The other operations on the tables.                                      *)
LEMMA RowsSerial ==
    ASSUME SerialInv, NEW w \in Worker, Alone(w),
           InsertScoop(w) \/ DropScoop(w) \/ InsertDomain(w)
    PROVE  WorldInv'
<1> USE DEF SerialInv, IInv, WorldInv, clusterVars
<1>1. CASE UNCHANGED <<rowVars, clusterVars>>
  BY <1>1 DEF rowVars, Placed, OnlyRegistered, DomainWithinApp, DomainRow
<1>2. CASE InsertScoop(w) /\ scoop' # scoop
  <2>1. /\ target[w] \in Scoop /\ seen[w] \in LiveScoop
        /\ scoop[target[w]].st = "none" /\ seen[w].ns = OwnNamespace(seen[w].app)
        /\ scoop' = [scoop EXCEPT ![target[w]] = seen[w]]
        /\ UNCHANGED <<app, domain, clusterVars>>
    BY <1>2 DEF InsertScoop, LocalOK, ScoopSteps, Current, Plain
  <2>2. Placed'
    BY <2>1 DEF Placed, RowsOK
  <2>3. OnlyRegistered'
    BY <2>1 DEF OnlyRegistered, RowsOK
  <2>4. DomainWithinApp'
    BY <2>1 DEF DomainWithinApp, DomainRow, RowsRefer, ScoopLive, RowsOK
  <2>. QED
    BY <2>2, <2>3, <2>4
<1>3. CASE DropScoop(w) /\ scoop' # scoop
  <2>1. /\ target[w] \in Scoop /\ (svc[target[w]] = {} \/ target[w] \in spared)
        /\ scoop' = [scoop EXCEPT ![target[w]].st = "gone"]
        /\ UNCHANGED <<app, domain, clusterVars>>
    BY <1>3 DEF DropScoop, LocalOK, ScoopSteps, Current
  <2>2. \A s \in Scoop : /\ scoop'[s].app = scoop[s].app /\ scoop'[s].ns = scoop[s].ns
                         /\ s # target[w] => scoop'[s].st = scoop[s].st
    BY <2>1 DEF RowsOK, ScoopRow
  <2>3. Placed'
    BY <1>3, <2>1, <2>2 DEF Placed, DropScoop, ScoopLive
  <2>4. OnlyRegistered'
    BY <2>1, <2>2 DEF OnlyRegistered
  <2>5. DomainWithinApp'
    BY <2>1, <2>2 DEF DomainWithinApp, DomainRow, RowsRefer, ScoopLive
  <2>. QED
    BY <2>3, <2>4, <2>5
<1>4. CASE InsertDomain(w) /\ domain' # domain
  <2>1. /\ target[w] \in Domain /\ seen[w] \in LiveDomain
        /\ domain[target[w]].st = "none" /\ scoop[seen[w].scoop].app = seen[w].app
        /\ domain' = [domain EXCEPT ![target[w]] = seen[w]]
        /\ UNCHANGED <<app, scoop, clusterVars>>
    BY <1>4 DEF InsertDomain, LocalOK, DomainSteps, Current
  <2>2. OnlyRegistered'
    BY <2>1 DEF OnlyRegistered, RowsOK, LiveDomain
  <2>3. DomainWithinApp'
    BY <2>1 DEF DomainWithinApp, DomainRow, RowsOK
  <2>. QED
    BY <2>1, <2>2, <2>3 DEF Placed
<1>. QED
  BY <1>1, <1>2, <1>3, <1>4 DEF InsertScoop, DropScoop, InsertDomain, rowVars

(* The steps in the cluster, in the namespace of the row.                   *)
LEMMA ClusterSerial ==
    ASSUME SerialInv, NEW w \in Worker, Alone(w),
           \/ DeleteSpace(w) \/ DeployScoop(w) \/ ClearScoop(w)
           \/ ApplyRoute(w) \/ AddEntry(w) \/ RemoveRoute(w) \/ RemoveEntry(w)
    PROVE  WorldInv'
<1> USE DEF SerialInv, IInv, WorldInv
<1>1. CASE UNCHANGED <<rowVars, clusterVars>>
  BY <1>1 DEF rowVars, clusterVars, Placed, OnlyRegistered, DomainWithinApp, DomainRow
<1>2. ASSUME UNCHANGED rowVars PROVE Placed' /\ DomainWithinApp'
  BY <1>2 DEF rowVars, Placed, DomainWithinApp, DomainRow
<1>3. CASE DeleteSpace(w)
  <2> DEFINE a == target[w]
  <2>1. a \in App /\ app[a] = "live"
    BY <1>3 DEF DeleteSpace, Current, LocalOK, AppSteps, AppLive
  <2>2. UNCHANGED <<app, scoop, domain, entry>>
    BY <1>3 DEF DeleteSpace, rowVars
  <2>3. \A id \in Scoop \cup Domain : id \in spared => id \in spared'
    BY <1>3, <2>1, IdsAssumption DEF DeleteSpace, Removed, Spared
  <2>4. \A b \in App : b \in spared /\ app[b] = "gone" => b \in spared'
    BY <1>3, <2>1 DEF DeleteSpace, Removed, Spared
  <2>5. /\ spaces' \subseteq spaces
        /\ \A s \in Scoop : svc'[s] \subseteq svc[s]
        /\ \A d \in Domain : route'[d] \subseteq route[d]
    BY <1>3 DEF DeleteSpace
  <2> HIDE DEF a
  <2>6. OnlyRegistered'
    BY <2>2, <2>3, <2>4, <2>5 DEF OnlyRegistered, ClusterOK
  <2>. QED
    BY <1>2, <1>3, <2>6 DEF DeleteSpace
<1>4. CASE DeployScoop(w)
  <2>1. target[w] \in Scoop /\ ScoopLive(target[w]) /\ seen[w] = scoop[target[w]]
    BY <1>4 DEF DeployScoop, Current, LocalOK, ScoopSteps
  <2>2. seen[w].ns \in App => app[seen[w].ns] = "live"
    BY <2>1, Columns DEF Placed, OwnNamespace, RowsRefer, AppLive, ScoopLive, RowsOK, ScoopRow
  <2>3. OnlyRegistered'
    BY <1>4, <2>1, <2>2
    DEF DeployScoop, EnsureSpace, RemoveObjects, rowVars, OnlyRegistered, ScoopLive, ClusterOK
  <2>. QED
    BY <1>2, <1>4, <2>3 DEF DeployScoop
<1>5. CASE ClearScoop(w)
  <2>1. target[w] \in Scoop /\ scoop[target[w]].st = "live"
    BY <1>5 DEF ClearScoop, Current, LocalOK, ScoopSteps, ScoopLive
  <2>2. UNCHANGED <<app, scoop, domain, spaces, route, entry>>
    BY <1>5 DEF ClearScoop, rowVars
  <2>3. \A id : id # target[w] /\ id \in spared => id \in spared'
    BY <1>5 DEF ClearScoop, Removed, Spared
  <2>4. \A s \in Scoop : svc'[s] \subseteq svc[s]
    BY <1>5 DEF ClearScoop, RemoveObjects, ClusterOK
  <2>5. target[w] \notin App /\ target[w] \notin Domain
    BY <2>1, IdsAssumption
  <2>6. OnlyRegistered'
    BY <2>1, <2>2, <2>3, <2>4, <2>5 DEF OnlyRegistered, ClusterOK
  <2>. QED
    BY <1>2, <1>5, <2>6 DEF ClearScoop
<1>6. CASE ApplyRoute(w)
  <2>1. target[w] \in Domain /\ domain[target[w]].st = "live" /\ seen[w] = domain[target[w]]
    BY <1>6 DEF ApplyRoute, Current, LocalOK, DomainSteps
  <2>2. app[seen[w].app] = "live"
    BY <2>1 DEF RowsRefer, AppLive, DomainRow
  <2>3. OnlyRegistered'
    BY <1>6, <2>1, <2>2 DEF ApplyRoute, EnsureSpace, rowVars, OnlyRegistered, ClusterOK
  <2>. QED
    BY <1>2, <1>6, <2>3 DEF ApplyRoute
<1>7. CASE AddEntry(w)
  <2>1. domain[target[w]].st = "live"
    BY <1>7 DEF AddEntry, Current
  <2>2. OnlyRegistered'
    BY <1>7, <2>1 DEF AddEntry, rowVars, OnlyRegistered
  <2>. QED
    BY <1>2, <1>7, <2>2 DEF AddEntry
<1>8. CASE RemoveRoute(w)
  <2>1. target[w] \in Domain /\ domain[target[w]].st = "live"
    BY <1>8 DEF RemoveRoute, Current, LocalOK, DomainSteps
  <2>2. UNCHANGED <<app, scoop, domain, spaces, svc, entry>>
    BY <1>8 DEF RemoveRoute, rowVars
  <2>3. \A id : id # target[w] /\ id \in spared => id \in spared'
    BY <1>8 DEF RemoveRoute, Removed, Spared
  <2>4. \A d \in Domain : route'[d] \subseteq route[d]
    BY <1>8 DEF RemoveRoute, ClusterOK
  <2>5. target[w] \notin App /\ target[w] \notin Scoop
    BY <2>1, IdsAssumption
  <2>6. OnlyRegistered'
    BY <2>1, <2>2, <2>3, <2>4, <2>5 DEF OnlyRegistered, ClusterOK
  <2>. QED
    BY <1>2, <1>8, <2>6 DEF RemoveRoute
<1>9. CASE RemoveEntry(w)
  <2>1. /\ target[w] \in Domain /\ domain[target[w]].st = "live"
        /\ mode[w] = "erase" => route[target[w]] = {} \/ target[w] \in spared
    BY <1>9 DEF RemoveEntry, Current, LocalOK, DomainSteps
  <2>2. \A d \in Domain : /\ domain'[d].app = domain[d].app /\ domain'[d].scoop = domain[d].scoop
                          /\ d # target[w] => domain'[d].st = domain[d].st
    BY <1>9, <2>1 DEF RemoveEntry, RowsOK, DomainRows
  <2>3. /\ UNCHANGED <<app, scoop, spaces, svc, route>> /\ entry' \subseteq entry
        /\ spared \subseteq spared'
    BY <1>9 DEF RemoveEntry, Spared
  <2>4. \/ domain'[target[w]].st = "live"
        \/ /\ domain'[target[w]].st = "deleted" /\ mode[w] = "erase"
           /\ target[w] \in entry' => target[w] \in spared'
    BY <1>9, <2>1 DEF RemoveEntry, Spared, RowsOK, DomainRows
  <2>5. OnlyRegistered'
    <3>1. \A d \in Domain : route[d] # {} =>
            /\ domain'[d].st # "none" /\ route[d] = {domain'[d].app}
            /\ domain'[d].st = "live" \/ d \in spared' \/ LeftBehind(domain[d].app)'
      BY <2>1, <2>2, <2>3, <2>4 DEF OnlyRegistered
    <3>2. \A d \in Domain : domain'[d].st = "deleted" /\ d \in entry' => d \in spared'
      BY <2>2, <2>3, <2>4 DEF OnlyRegistered
    <3>. QED
      BY <2>3, <3>1, <3>2 DEF OnlyRegistered
  <2>6. DomainWithinApp'
    BY <2>1, <2>2, <2>3 DEF DomainWithinApp, DomainRow
  <2>. QED
    BY <2>3, <2>5, <2>6 DEF Placed
<1>. QED
  BY <1>3, <1>4, <1>5, <1>6, <1>7, <1>8, <1>9

(* A request on its way finds what it has left.                             *)
LEMMA ContinuesCurrent ==
    ASSUME SerialInv, NEW w \in Worker, Alone(w),
           DeleteSpace(w) \/ ClearScoop(w) \/ ApplyRoute(w) \/ RemoveRoute(w)
    PROVE  \A v \in Worker : Current(v)'
<1> USE DEF SerialInv, IInv, Goto, rowVars, localVars
<1>1. CASE DeleteSpace(w)
  <2>1. target[w] \in App /\ AppLive(target[w]) /\ pc'[w] = "dropApp"
    BY <1>1 DEF DeleteSpace, Current, LocalOK, AppSteps
  <2>2. target[w] \notin spared' =>
          /\ target[w] \notin spaces'
          /\ \A s \in Scoop : target[w] \notin svc'[s]
          /\ \A d \in Domain : target[w] \notin route'[d]
    BY <1>1 DEF DeleteSpace, Spared
  <2>. QED
    BY <1>1, <2>1, <2>2 DEF DeleteSpace, Alone, Current, AppSteps, AppLive
<1>2. CASE ClearScoop(w)
  <2>1. CASE Return(w)
    BY <2>1, ReturnedAlone
  <2>2. CASE Goto(w, "dropScoop") /\ UNCHANGED localVars
    <3>1. target[w] \in Scoop /\ ScoopLive(target[w]) /\ seen[w] = scoop[target[w]]
      BY <1>2 DEF ClearScoop, Current, LocalOK, ScoopSteps
    <3>2. svc'[target[w]] = {} \/ target[w] \in spared'
      BY <1>2, <2>2, <3>1
      DEF ClearScoop, Return, RemoveObjects, Spared, OnlyRegistered, ClusterOK, LocalOK
    <3>3. pc'[w] = "dropScoop"
      BY <2>2 DEF LocalOK
    <3>. QED
      BY <1>2, <2>2, <3>1, <3>2, <3>3 DEF ClearScoop, Alone, Current, AppSteps, ScoopLive
  <2>. QED
    BY <1>2, <2>1, <2>2 DEF ClearScoop
<1>3. CASE ApplyRoute(w)
  BY <1>3 DEF ApplyRoute, Alone, Current, AppSteps, LocalOK
<1>4. CASE RemoveRoute(w)
  <2>1. target[w] \in Domain /\ domain[target[w]].st = "live" /\ seen[w] = domain[target[w]]
    BY <1>4 DEF RemoveRoute, Current, LocalOK, DomainSteps
  <2>2. mode[w] = "erase" => route'[target[w]] = {} \/ target[w] \in spared'
    BY <1>4, <2>1 DEF RemoveRoute, Spared, OnlyRegistered, ClusterOK
  <2>3. pc'[w] = "removeEntry"
    BY <1>4 DEF RemoveRoute, LocalOK
  <2>. QED
    BY <1>4, <2>1, <2>2, <2>3 DEF RemoveRoute, Alone, Current, AppSteps
<1>. QED
  BY <1>1, <1>2, <1>3, <1>4

(* One request after the other keeps rows and cluster in agreement.         *)
LEMMA SerialStep ==
    ASSUME SerialInv, Plain', NEW w \in Worker, Alone(w), Act(w)
    PROVE  WorldInv' /\ \A v \in Worker : Current(v)'
<1> USE DEF SerialInv, IInv
<1>1. ASSUME NEW a \in App, CreateApp(w, a)
      PROVE  WorldInv' /\ \A v \in Worker : Current(v)'
  <2>1. UNCHANGED <<scoop, domain, svc, route, entry, pc, localVars>> /\ pc[w] = "idle"
    BY <1>1 DEF CreateApp
  <2>2. \A v \in Worker : Current(v)'
    BY <2>1, IdleIsCurrent DEF Alone, Current, AppSteps
  <2>3. OnlyRegistered'
    BY <1>1 DEF CreateApp, EnsureSpace, OnlyRegistered, RowsOK
  <2>. QED
    BY <2>1, <2>2, <2>3 DEF WorldInv, Placed, DomainWithinApp, DomainRow
<1>2. CASE \/ \E a \in App : BeginDeleteApp(w, a)
           \/ \E s \in Scoop : \/ BeginCreateScoop(w, s) \/ MoveScoop(w, s)
                               \/ BeginDeployScoop(w, s) \/ BeginDeleteScoop(w, s)
           \/ \E d \in Domain : \/ BeginCreateDomain(w, d) \/ BeginDeployDomain(w, d)
                                \/ BeginUndeployDomain(w, d)
  <2>1. UNCHANGED <<rowVars, clusterVars>>
    BY <1>2 DEF BeginDeleteApp, BeginCreateScoop, MoveScoop, BeginDeployScoop, BeginDeleteScoop,
                BeginCreateDomain, BeginDeployDomain, BeginUndeployDomain, Begin
  <2>2. WorldInv'
    BY <2>1 DEF WorldInv, Placed, OnlyRegistered, DomainWithinApp, DomainRow, rowVars, clusterVars
  <2>. QED
    BY <1>2, <2>2, BeginsCurrent
<1>3. CASE DropApp(w)
  BY <1>3, DropAppSerial, ReturnedAlone DEF DropApp
<1>4. CASE InsertScoop(w) \/ DropScoop(w) \/ InsertDomain(w)
  BY <1>4, RowsSerial, ReturnedAlone DEF InsertScoop, DropScoop, InsertDomain
<1>5. CASE DeleteSpace(w) \/ ClearScoop(w) \/ ApplyRoute(w) \/ RemoveRoute(w)
  BY <1>5, ClusterSerial, ContinuesCurrent
<1>6. CASE DeployScoop(w) \/ AddEntry(w) \/ RemoveEntry(w)
  BY <1>6, ClusterSerial, ReturnedAlone DEF DeployScoop, AddEntry, RemoveEntry
<1>7. CASE StoreScoop(w)
  BY <1>7 DEF StoreScoop, Plain
<1>8. CASE Crash(w)
  BY <1>8, ReturnedAlone
  DEF Crash, rowVars, clusterVars, WorldInv, Placed, OnlyRegistered, DomainWithinApp, DomainRow
<1>. QED
  BY <1>1, <1>2, <1>3, <1>4, <1>5, <1>6, <1>7, <1>8 DEF Act

(* The Ingress of a domain is applied in the namespace of its scoop.        *)
LEMMA RouteStep ==
    ASSUME SerialInv, [Next]_vars
    PROVE  RouteReachesScoop
<1> USE DEF SerialInv, IInv
<1>1. CASE UNCHANGED route
  BY <1>1 DEF RouteReachesScoop
<1>2. ASSUME NEW w \in Worker, DeleteSpace(w) PROVE RouteReachesScoop
  BY <1>2 DEF DeleteSpace, RouteReachesScoop
<1>3. ASSUME NEW w \in Worker, ApplyRoute(w) PROVE RouteReachesScoop
  <2>1. /\ target[w] \in Domain /\ domain[target[w]].st = "live"
        /\ seen[w] = domain[target[w]]
        /\ route' = [route EXCEPT ![target[w]] = @ \cup {seen[w].app}]
    BY <1>3 DEF ApplyRoute, Current, LocalOK, DomainSteps
  <2> DEFINE s == domain[target[w]].scoop
  <2>2. s \in Scoop /\ scoop[s].st = "live" /\ scoop[s].app = seen[w].app /\ seen[w].app \in App
    BY <2>1 DEF RowsRefer, ScoopLive, AppLive, DomainRow, DomainWithinApp
  <2>3. scoop[s].ns = seen[w].app
    BY <2>2, Columns DEF Placed, OwnNamespace
  <2>. QED
    BY <2>1, <2>3 DEF RouteReachesScoop, ClusterOK
<1>4. ASSUME NEW w \in Worker, RemoveRoute(w) PROVE RouteReachesScoop
  BY <1>4 DEF RemoveRoute, RouteReachesScoop, ClusterOK
<1>5. ASSUME NEW w \in Worker,
             \/ \E a \in App : CreateApp(w, a) \/ BeginDeleteApp(w, a)
             \/ \E s \in Scoop : \/ BeginCreateScoop(w, s) \/ MoveScoop(w, s)
                                 \/ BeginDeployScoop(w, s) \/ BeginDeleteScoop(w, s)
             \/ \E d \in Domain : \/ BeginCreateDomain(w, d) \/ BeginDeployDomain(w, d)
                                  \/ BeginUndeployDomain(w, d)
      PROVE  UNCHANGED route
  BY <1>5 DEF CreateApp, BeginDeleteApp, BeginCreateScoop, MoveScoop, BeginDeployScoop,
              BeginDeleteScoop, BeginCreateDomain, BeginDeployDomain, BeginUndeployDomain, Begin,
              clusterVars
<1>6. ASSUME NEW w \in Worker,
             \/ DropApp(w) \/ InsertScoop(w) \/ StoreScoop(w) \/ DeployScoop(w) \/ ClearScoop(w)
             \/ DropScoop(w) \/ InsertDomain(w) \/ AddEntry(w) \/ RemoveEntry(w) \/ Crash(w)
      PROVE  UNCHANGED route
  BY <1>6 DEF DropApp, InsertScoop, StoreScoop, DeployScoop, ClearScoop, DropScoop, InsertDomain,
              AddEntry, RemoveEntry, Crash, clusterVars
<1>7. CASE UNCHANGED vars
  BY <1>1, <1>7 DEF vars, clusterVars
<1>. QED
  BY <1>1, <1>2, <1>3, <1>4, <1>5, <1>6, <1>7 DEF Next, Act

-----------------------------------------------------------------------------
(* The inductive invariant where requests do not overlap.                   *)
THEOREM SerialInvariant == TrafficSpec => [](serial => SerialInv)
<1>1. Init => SerialInv
  BY HoldsAtStart, Columns
  DEF Init, SerialInv, Plain, Placed, OnlyRegistered, DomainWithinApp, DomainRow, Current,
      AppSteps, NoScoop, NoDomain
<1>2. ASSUME SerialInv, Plain', NEW w \in Worker, Alone(w), Act(w) PROVE SerialInv'
  BY <1>2, LocalStep, ClusterStep, RowsStep, SerialStep DEF SerialInv, IInv, WorldInv, Next
<1>3. ASSUME SerialInv, UNCHANGED vars PROVE SerialInv'
  BY <1>3, LocalStep, ClusterStep, RowsStep
  DEF vars, rowVars, clusterVars, localVars, SerialInv, IInv, Plain, Placed, OnlyRegistered,
      DomainWithinApp, DomainRow, Current, AppLive, ScoopLive
<1>4. (serial => SerialInv) /\ [TrafficNext]_trafficVars => (serial => SerialInv)'
  BY <1>2, <1>3 DEF TrafficNext, trafficVars
<1>. QED
  BY <1>1, <1>4, PTL DEF TrafficSpec, TrafficInit

(* What is no longer registered has left the cluster, unless the deletion   *)
(* of its row has passed over an error there: its namespace, its objects,   *)
(* its Ingress and, for a domain that was deleted for itself, its DNS       *)
(* entry; whatever failures, crashes and retries come before.               *)
THEOREM TheDeadLeaveNothing == TrafficSpec => []SerialDeadLeavesNothing
<1>1. (serial => SerialInv) => SerialDeadLeavesNothing
  BY DEF SerialInv, OnlyRegistered, DeadLeavesNothing, SerialDeadLeavesNothing
<1>. QED
  BY <1>1, SerialInvariant, PTL

(* The Ingress of a domain is applied in the namespace of its scoop, where  *)
(* the Service is that it routes to.                                        *)
THEOREM RoutesReach == TrafficSpec => SerialRouteReachesScoop
<1>1. (serial => SerialInv) /\ [TrafficNext]_trafficVars
      => [serial => RouteReachesScoop]_trafficVars
  BY RouteStep DEF TrafficNext, Next, trafficVars
<1>. QED
  BY <1>1, SerialInvariant, PTL DEF TrafficSpec, SerialRouteReachesScoop

=============================================================================
