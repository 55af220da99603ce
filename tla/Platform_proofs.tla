---------------------------- MODULE Platform_proofs ---------------------------
(***************************************************************************)
(* Safety of Platform for every value of its constants.  What a run of      *)
(* Platform promises of a service follows from an invariant of the service: *)
(* for SystemSecrets, HubLogin and Workspaces it is proved here, for the    *)
(* others in the modules of their own proofs, which are instantiated.       *)
(***************************************************************************)
EXTENDS Platform, TLAPS

(* The modules of their proofs, with the constants of Platform.             *)
SeedP == INSTANCE Configurator_proofs WITH
    Worker <- Booting.worker, Schema <- Booting.schema, Record <- Booting.record,
    Name <- Booting.name, Seeds <- Booting.seeds, Kind <- Booting.kind,
    Requests <- {}, MaxCrashes <- Booting.crashes, pc <- tablePc, target <- tableTarget

ColumnsP == INSTANCE Configurator_proofs WITH
    Worker <- Columned.worker, Schema <- Columned.schema, Record <- Columned.record,
    Name <- Columned.name, Seeds <- Columned.seeds, Kind <- Columned.kind,
    Requests <- {"schemas", "columns"}, MaxCrashes <- Columned.crashes,
    pc <- tablePc, target <- tableTarget

RecordsP == INSTANCE Configurator_proofs WITH
    Worker <- Recorded.worker, Schema <- Recorded.schema, Record <- Recorded.record,
    Name <- Recorded.name, Seeds <- Recorded.seeds, Kind <- Recorded.kind,
    Requests <- {"schemas", "records"}, MaxCrashes <- Recorded.crashes,
    pc <- tablePc, target <- tableTarget

ValuesP == INSTANCE Configurator_proofs WITH
    Worker <- Valued.worker, Schema <- Valued.schema, Record <- Valued.record,
    Name <- Valued.name, Seeds <- Valued.seeds, Kind <- Valued.kind,
    Requests <- {"columns", "records"}, MaxCrashes <- Valued.crashes,
    pc <- tablePc, target <- tableTarget

ConfigP == INSTANCE ConfigStore_proofs WITH
    App <- StoreApp, Name <- StoreName, Requests <- StoreRequests,
    pc <- storePc, subject <- storeSubject


-----------------------------------------------------------------------------
(* The secrets of the system.                                               *)

(* The variables that are changed at a worker are functions of the workers, *)
(* and the pod is a record.                                                 *)
SecretsTyped ==
    /\ Secrets!TypeOK
    /\ pod \in [of : Nat, has : [Mounted -> 0..MaxPatches]]
    /\ key \in [Worker -> Key \cup {None}]
    /\ loaded \in [Worker -> [Key -> 0..MaxPatches]]
    /\ wrote \in [Worker -> Nat]

(* A patch is followed by one PUT only, and none is newer than the Secret:  *)
(* the restart of one PUT does not settle what another one owes.            *)
PatchesOwned ==
    /\ \A v, w \in Worker :
          /\ putPc[v] = "restart" /\ putPc[w] = "restart"
          /\ key[v] = key[w] /\ wrote[v] = wrote[w]
          => v = w
    /\ \A w \in Worker : putPc[w] = "restart" => wrote[w] <= data[key[w]]

(* What a PUT has reported as restarted was saved, and a pod that is up to  *)
(* date runs it.                                                            *)
PromisesRun ==
    /\ \A k \in Key : promised[k] <= data[k]
    /\ pod.of = template => \A k \in Mounted : promised[k] <= pod.has[k]

SecretsInv == SecretsTyped /\ PatchesOwned /\ Secrets!PodIsCurrent /\ PromisesRun

-----------------------------------------------------------------------------
(* Nothing is patched and nothing is owed in the initial state.             *)
LEMMA SecretsHoldsAtStart ==
    ASSUME Secrets!KeyAssumption, Secrets!PatchesAssumption
    PROVE  Secrets!Init => SecretsInv
BY DEF Secrets!KeyAssumption, Secrets!PatchesAssumption, Secrets!Init, Secrets!Fresh,
   SecretsInv, SecretsTyped, Secrets!TypeOK, PatchesOwned,
       Secrets!PodIsCurrent, PromisesRun

(* The patch of one key: the next value, and nothing else in the Secrets.   *)
LEMMA PatchOfOneKey ==
    ASSUME Secrets!KeyAssumption, Secrets!PatchesAssumption, SecretsTyped,
           NEW w \in Worker, Secrets!Patch(w)
    PROVE  /\ key[w] \in Key
           /\ data[key[w]] \in 0..MaxPatches /\ data[key[w]] + 1 \in 1..MaxPatches
           /\ data' = [data EXCEPT ![key[w]] = data[key[w]] + 1]
           /\ data' \in [Key -> 0..MaxPatches]
<1>1. key[w] \in Key /\ data[key[w]] \in 0..MaxPatches
  BY DEF Secrets!Patch, Secrets!Patched, SecretsTyped, Secrets!TypeOK
<1>2. data[key[w]] + 1 \in 1..MaxPatches
  BY <1>1 DEF Secrets!Patch, Secrets!Patched, Secrets!PatchesAssumption
<1>3. data' = [data EXCEPT ![key[w]] = data[key[w]] + 1]
  BY DEF Secrets!Patch, Secrets!Patched
<1>4. data' \in [Key -> 0..MaxPatches]
  BY <1>1, <1>2, <1>3 DEF SecretsTyped, Secrets!TypeOK
<1>. QED
  BY <1>1, <1>2, <1>3, <1>4

(* What the answer to a PUT leaves of its worker, and of the others.        *)
LEMMA ReturnTyped ==
    ASSUME Secrets!PatchesAssumption, SecretsTyped, NEW w \in Worker, Secrets!Return(w)
    PROVE  /\ putPc' \in [Worker -> {"idle", "patch", "restart"}]
           /\ key' \in [Worker -> Key \cup {None}]
           /\ loaded' \in [Worker -> [Key -> 0..MaxPatches]]
           /\ wrote' \in [Worker -> Nat]
           /\ putPc'[w] = "idle" /\ key'[w] = None /\ wrote'[w] = 0
           /\ \A v \in Worker \ {w} :
                 putPc'[v] = putPc[v] /\ key'[v] = key[v] /\ wrote'[v] = wrote[v]
<1>1. Secrets!Fresh \in [Key -> 0..MaxPatches]
  BY DEF Secrets!Fresh, Secrets!PatchesAssumption
<1>. QED
  BY <1>1 DEF SecretsTyped, Secrets!TypeOK, Secrets!Return, Secrets!Goto

(* A restart takes from what is owed the patch that it follows, which no    *)
(* other PUT follows.                                                       *)
LEMMA SecretsTypedStep ==
    ASSUME Secrets!KeyAssumption, Secrets!PatchesAssumption, SecretsTyped, PatchesOwned,
           [Secrets!Next]_(Secrets!vars)
    PROVE  SecretsTyped'
<1> USE DEF SecretsTyped, Secrets!TypeOK, Secrets!clusterVars, Secrets!localVars
<1>1. CASE Secrets!Rollout
  <2>1. [k \in Mounted |-> data[k]] \in [Mounted -> 0..MaxPatches]
    BY DEF Secrets!KeyAssumption
  <2>. QED
    BY <1>1, <2>1 DEF Secrets!Rollout
<1>2. ASSUME NEW w \in Worker, Secrets!Patch(w) PROVE SecretsTyped'
  <2>1. /\ key[w] \in Key /\ data[key[w]] + 1 \in 1..MaxPatches
        /\ data' \in [Key -> 0..MaxPatches]
    BY <1>2, PatchOfOneKey
  <2>2. /\ putPc[w] = "patch" /\ putPc' = [putPc EXCEPT ![w] = "restart"]
        /\ wrote' = [wrote EXCEPT ![w] = data[key[w]] + 1]
        /\ owed' = owed \cup {<<key[w], data[key[w]] + 1>>}
        /\ UNCHANGED <<template, pod, promised, key, loaded>>
    BY <1>2 DEF Secrets!Patch, Secrets!Patched, Secrets!Goto
  <2>. QED
    BY <2>1, <2>2
<1>3. ASSUME NEW w \in Worker, Secrets!Restart(w) PROVE SecretsTyped'
  <2>1. ASSUME NEW v \in Worker, v # w, putPc[v] = "restart"
        PROVE  <<key[v], wrote[v]>> \in owed'
    BY <1>3, <2>1 DEF Secrets!Restart, Secrets!Settled, PatchesOwned
  <2>2. key[w] \in Key /\ wrote[w] \in 0..MaxPatches
    <3>1. putPc[w] = "restart"
      BY <1>3 DEF Secrets!Restart
    <3>2. <<key[w], wrote[w]>> \in Key \X (1..MaxPatches)
      BY <3>1
    <3>. QED
      BY <3>2
  <2>3. promised' \in [Key -> 0..MaxPatches]
    BY <1>3, <2>2 DEF Secrets!Restart, Secrets!Promise
  <2>4. owed' \subseteq Key \X (1..MaxPatches)
    BY <1>3 DEF Secrets!Restart, Secrets!Settled
  <2>5. Secrets!Return(w) /\ UNCHANGED <<data, pod>> /\ template' = template + 1
    BY <1>3 DEF Secrets!Restart
  <2>6. template' \in Nat /\ pod'.of \in 0..template'
    BY <2>5
  <2>. QED
    BY <2>1, <2>3, <2>4, <2>5, <2>6, ReturnTyped
<1>4. ASSUME NEW w \in Worker,
             Secrets!PatchFails(w) \/ Secrets!RestartFails(w) \/ Secrets!Crash(w)
      PROVE  SecretsTyped'
  <2>1. Secrets!Return(w) /\ UNCHANGED <<data, template, pod, owed, promised>>
    BY <1>4 DEF Secrets!PatchFails, Secrets!RestartFails, Secrets!Crash
  <2>. QED
    BY <2>1, ReturnTyped
<1>5. ASSUME NEW w \in Worker, NEW k \in Key, Secrets!BeginPut(w, k) PROVE SecretsTyped'
  BY <1>5 DEF Secrets!BeginPut, Secrets!Goto
<1>6. CASE UNCHANGED Secrets!vars
  BY <1>6 DEF Secrets!vars
<1>. QED
  BY <1>1, <1>2, <1>3, <1>4, <1>5, <1>6 DEF Secrets!Next

(* A patch is a value that no PUT has written yet.                          *)
LEMMA PatchesOwnedStep ==
    ASSUME Secrets!KeyAssumption, Secrets!PatchesAssumption, SecretsTyped, PatchesOwned,
           [Secrets!Next]_(Secrets!vars)
    PROVE  PatchesOwned'
<1> USE DEF SecretsTyped, Secrets!TypeOK, PatchesOwned, Secrets!clusterVars, Secrets!localVars
<1>1. CASE Secrets!Rollout
  BY <1>1 DEF Secrets!Rollout
<1>2. ASSUME NEW w \in Worker, Secrets!Patch(w) PROVE PatchesOwned'
  <2>1. /\ key[w] \in Key /\ data[key[w]] \in 0..MaxPatches
        /\ data' = [data EXCEPT ![key[w]] = data[key[w]] + 1]
    BY <1>2, PatchOfOneKey
  <2>2. /\ putPc' = [putPc EXCEPT ![w] = "restart"]
        /\ wrote' = [wrote EXCEPT ![w] = data[key[w]] + 1]
        /\ key' = key
    BY <1>2 DEF Secrets!Patch, Secrets!Patched, Secrets!Goto
  <2>. QED
    BY <2>1, <2>2
<1>3. ASSUME NEW w \in Worker,
             Secrets!Restart(w) \/ Secrets!PatchFails(w) \/ Secrets!RestartFails(w) \/ Secrets!Crash(w)
      PROVE  PatchesOwned'
  <2>1. /\ data' = data
        /\ putPc' = [putPc EXCEPT ![w] = "idle"]
        /\ \A v \in Worker \ {w} : key'[v] = key[v] /\ wrote'[v] = wrote[v]
    BY <1>3 DEF Secrets!Restart, Secrets!PatchFails, Secrets!RestartFails, Secrets!Crash,
       Secrets!Return, Secrets!Goto
  <2>2. \A v \in Worker : putPc'[v] = "restart" => v # w /\ putPc[v] = "restart"
    BY <2>1
  <2>. QED
    BY <2>1, <2>2
<1>4. ASSUME NEW w \in Worker, NEW k \in Key, Secrets!BeginPut(w, k) PROVE PatchesOwned'
  BY <1>4 DEF Secrets!BeginPut, Secrets!Goto
<1>5. CASE UNCHANGED Secrets!vars
  BY <1>5 DEF Secrets!vars
<1>. QED
  BY <1>1, <1>2, <1>3, <1>4, <1>5 DEF Secrets!Next

(* A pod that was up to date stays so but for the key that is patched,      *)
(* which is owed; a restart puts the template ahead of the pod.             *)
LEMMA PodStep ==
    ASSUME Secrets!KeyAssumption, Secrets!PatchesAssumption, SecretsTyped,
           Secrets!PodIsCurrent, PromisesRun,
           PatchesOwned, [Secrets!Next]_(Secrets!vars)
    PROVE  Secrets!PodIsCurrent' /\ PromisesRun'
<1> USE DEF SecretsTyped, Secrets!TypeOK, Secrets!PodIsCurrent, PromisesRun,
            Secrets!KeyAssumption, Secrets!clusterVars, Secrets!localVars
<1>1. CASE Secrets!Rollout
  BY <1>1 DEF Secrets!Rollout
<1>2. ASSUME NEW w \in Worker, Secrets!Patch(w) PROVE Secrets!PodIsCurrent' /\ PromisesRun'
  <2>1. /\ key[w] \in Key /\ data[key[w]] \in 0..MaxPatches
        /\ data' = [data EXCEPT ![key[w]] = data[key[w]] + 1]
    BY <1>2, PatchOfOneKey
  <2>2. /\ owed' = owed \cup {<<key[w], data[key[w]] + 1>>}
        /\ UNCHANGED <<template, pod, promised>>
    BY <1>2 DEF Secrets!Patch, Secrets!Patched
  <2>. QED
    BY <2>1, <2>2
<1>3. ASSUME NEW w \in Worker, Secrets!Restart(w) PROVE Secrets!PodIsCurrent' /\ PromisesRun'
  <2>1. pod'.of # template'
    BY <1>3 DEF Secrets!Restart
  <2>2. \A k \in Key : promised'[k] <= data'[k]
    BY <1>3 DEF Secrets!Restart, Secrets!Promise, PatchesOwned
  <2>. QED
    BY <2>1, <2>2
<1>4. ASSUME NEW w \in Worker,
             Secrets!PatchFails(w) \/ Secrets!RestartFails(w) \/ Secrets!Crash(w)
      PROVE  Secrets!PodIsCurrent' /\ PromisesRun'
  BY <1>4 DEF Secrets!PatchFails, Secrets!RestartFails, Secrets!Crash
<1>5. ASSUME NEW w \in Worker, NEW k \in Key, Secrets!BeginPut(w, k)
      PROVE  Secrets!PodIsCurrent' /\ PromisesRun'
  BY <1>5 DEF Secrets!BeginPut
<1>6. CASE UNCHANGED Secrets!vars
  BY <1>6 DEF Secrets!vars
<1>. QED
  BY <1>1, <1>2, <1>3, <1>4, <1>5, <1>6 DEF Secrets!Next

(* A step writes no key or raises one by one.                               *)
LEMMA KeyStep ==
    ASSUME Secrets!KeyAssumption, Secrets!PatchesAssumption, SecretsTyped,
           [Secrets!Next]_(Secrets!vars)
    PROVE  Secrets!NoKeyGoesBack
<1> USE DEF SecretsTyped, Secrets!TypeOK, Secrets!NoKeyGoesBack, Secrets!clusterVars,
            Secrets!localVars
<1>1. CASE UNCHANGED data
  BY <1>1
<1>2. ASSUME NEW w \in Worker, Secrets!Patch(w) PROVE Secrets!NoKeyGoesBack
  BY <1>2, PatchOfOneKey
<1>. QED
  BY <1>1, <1>2 DEF Secrets!Next, Secrets!Rollout, Secrets!Restart, Secrets!PatchFails,
     Secrets!RestartFails, Secrets!Crash, Secrets!BeginPut, Secrets!vars

-----------------------------------------------------------------------------
(* The login at Docker Hub.                                                 *)

(* The variables of the workers are functions of the workers.               *)
HubTyped ==
    /\ Hub!TypeOK
    /\ token  \in [Worker -> Hub!Token \cup {None}]
    /\ until  \in [Worker -> Nat]
    /\ now    \in [Worker -> Nat]
    /\ issued \in [Worker -> Hub!Token \cup {None}]

(* Time is counted from before the token was made: neither the end of what  *)
(* is kept nor the time noted for a login that has been answered is later   *)
(* than Docker Hub would have it.                                           *)
CountedFromBefore ==
    \A w \in Worker :
       /\ token[w] # None => token[w].at <= clock /\ until[w] <= token[w].at + TTL
       /\ hubPc[w] = "answer" => issued[w].at <= clock /\ now[w] <= issued[w].at

(* What was made with another password than docker_pat has was asked for    *)
(* before it was put there, where the environment has none.                 *)
AskedBefore ==
    ~fromEnv => \A w \in Worker :
       /\ token[w] # None /\ token[w].pat # pat => until[w] <= since + TTL
       /\ hubPc[w] = "answer" /\ issued[w].pat # pat => now[w] <= since

HubInv == HubTyped /\ CountedFromBefore /\ AskedBefore

-----------------------------------------------------------------------------
(* Nothing is kept and nothing is on its way in the initial state.          *)
LEMMA HubHoldsAtStart == ASSUME Hub!TimeAssumption PROVE Hub!Init => HubInv
BY DEF Hub!TimeAssumption, Hub!Init, HubInv, HubTyped, Hub!TypeOK, CountedFromBefore,
   AskedBefore

(* The steps of the clock, of docker_pat and of _login keep the types.      *)
LEMMA HubTypedStep ==
    ASSUME Hub!TimeAssumption, HubTyped, [Hub!Next]_(Hub!vars)
    PROVE  HubTyped'
<1> USE DEF Hub!TimeAssumption, HubTyped, Hub!TypeOK, Hub!workerVars
<1>1. CASE Hub!Tick
  BY <1>1 DEF Hub!Tick
<1>2. CASE Hub!PutPat
  BY <1>2 DEF Hub!PutPat
<1>3. ASSUME NEW w \in Worker, Hub!BeginLogin(w) PROVE HubTyped'
  BY <1>3 DEF Hub!BeginLogin, Hub!Goto
<1>4. ASSUME NEW w \in Worker, Hub!Issue(w) PROVE HubTyped'
  <2>1. [at |-> clock, pat |-> Hub!Password] \in Hub!Token
    BY DEF Hub!Token, Hub!Password
  <2>. QED
    BY <1>4, <2>1 DEF Hub!Issue, Hub!Goto
<1>5. ASSUME NEW w \in Worker, Hub!Answer(w) PROVE HubTyped'
  BY <1>5 DEF Hub!Answer, Hub!Keep, Hub!Goto
<1>6. ASSUME NEW w \in Worker, Hub!Fail(w) PROVE HubTyped'
  BY <1>6 DEF Hub!Fail, Hub!Goto
<1>7. ASSUME NEW w \in Worker, Hub!Renew(w) PROVE HubTyped'
  BY <1>7 DEF Hub!Renew, Hub!Goto
<1>8. CASE UNCHANGED Hub!vars
  BY <1>8 DEF Hub!vars
<1>. QED
  BY <1>1, <1>2, <1>3, <1>4, <1>5, <1>6, <1>7, <1>8 DEF Hub!Next

(* Time runs forward, and an answer is kept with the time from before it.   *)
LEMMA CountedStep ==
    ASSUME Hub!TimeAssumption, HubTyped, CountedFromBefore, [Hub!Next]_(Hub!vars)
    PROVE  CountedFromBefore'
<1> USE DEF Hub!TimeAssumption, HubTyped, Hub!TypeOK, Hub!Token, CountedFromBefore,
            Hub!workerVars
<1>1. CASE Hub!Tick
  BY <1>1 DEF Hub!Tick
<1>2. CASE Hub!PutPat
  BY <1>2 DEF Hub!PutPat
<1>3. ASSUME NEW w \in Worker, Hub!BeginLogin(w) PROVE CountedFromBefore'
  BY <1>3 DEF Hub!BeginLogin, Hub!Goto
<1>4. ASSUME NEW w \in Worker, Hub!Issue(w) PROVE CountedFromBefore'
  BY <1>4 DEF Hub!Issue, Hub!Goto
<1>5. ASSUME NEW w \in Worker, Hub!Answer(w) PROVE CountedFromBefore'
  BY <1>5 DEF Hub!Answer, Hub!Keep, Hub!Goto
<1>6. ASSUME NEW w \in Worker, Hub!Fail(w) PROVE CountedFromBefore'
  BY <1>6 DEF Hub!Fail, Hub!Goto
<1>7. ASSUME NEW w \in Worker, Hub!Renew(w) PROVE CountedFromBefore'
  BY <1>7 DEF Hub!Renew, Hub!Goto
<1>8. CASE UNCHANGED Hub!vars
  BY <1>8 DEF Hub!vars
<1>. QED
  BY <1>1, <1>2, <1>3, <1>4, <1>5, <1>6, <1>7, <1>8 DEF Hub!Next

(* A new docker_pat comes after all that is kept or on its way; later a     *)
(* login is made with the one that is there.                                *)
LEMMA AskedStep ==
    ASSUME Hub!TimeAssumption, HubTyped, CountedFromBefore, AskedBefore,
           [Hub!Next]_(Hub!vars)
    PROVE  AskedBefore'
<1> USE DEF Hub!TimeAssumption, HubTyped, Hub!TypeOK, Hub!Token, AskedBefore, Hub!workerVars
<1>1. CASE Hub!Tick
  BY <1>1 DEF Hub!Tick
<1>2. CASE Hub!PutPat
  <2>1. ASSUME NEW w \in Worker, token[w] # None PROVE until[w] <= clock + TTL
    BY <2>1 DEF CountedFromBefore
  <2>. QED
    BY <1>2, <2>1 DEF Hub!PutPat
<1>3. ASSUME NEW w \in Worker, Hub!BeginLogin(w) PROVE AskedBefore'
  BY <1>3 DEF Hub!BeginLogin, Hub!Goto
<1>4. ASSUME NEW w \in Worker, Hub!Issue(w) PROVE AskedBefore'
  BY <1>4 DEF Hub!Issue, Hub!Password, Hub!Goto
<1>5. ASSUME NEW w \in Worker, Hub!Answer(w) PROVE AskedBefore'
  BY <1>5 DEF Hub!Answer, Hub!Keep, Hub!Goto
<1>6. ASSUME NEW w \in Worker, Hub!Fail(w) PROVE AskedBefore'
  BY <1>6 DEF Hub!Fail, Hub!Goto
<1>7. ASSUME NEW w \in Worker, Hub!Renew(w) PROVE AskedBefore'
  BY <1>7 DEF Hub!Renew, Hub!Goto
<1>8. CASE UNCHANGED Hub!vars
  BY <1>8 DEF Hub!vars
<1>. QED
  BY <1>1, <1>2, <1>3, <1>4, <1>5, <1>6, <1>7, <1>8 DEF Hub!Next

-----------------------------------------------------------------------------
(* The workspaces.                                                          *)

Exists(k) == ws[k].st # "none"

(* What a request has before each of its steps.                             *)
Serving ==
    \A w \in Worker :
       /\ wsPc[w] = "insert" => who[w] \in Owner /\ want[w] \in Name
       /\ wsPc[w] = "rename" => wsTarget[w] \in Workspace /\ Exists(wsTarget[w]) /\ want[w] \in Name
       /\ wsPc[w] = "erase"  => wsTarget[w] \in Workspace /\ Exists(wsTarget[w])
       /\ wsPc[w] = "assign" => wsSubject[w] \in App /\ (wsTarget[w] # None => Exists(wsTarget[w]))

(* The UNIQUE columns, over the rows of every user and the deleted ones.    *)
UniqueColumns ==
    \A j, k \in Workspace :
        Exists(j) /\ Exists(k) /\ j # k => ws[j].name # ws[k].name /\ ws[j].slug # ws[k].slug

WsInv == Ws!TypeOK /\ Serving /\ UniqueColumns

(* The row that a rename has loaded is the one that it writes to.           *)
LoadedIsCurrent == \A w \in Worker : wsPc[w] = "rename" => seen[w] = ws[wsTarget[w]]

WsSerialInv == WsInv /\ LoadedIsCurrent /\ Ws!SlugFollowsName

-----------------------------------------------------------------------------
(* Rows are typed, and None is none of their values.                        *)
LEMMA Rows ==
    ASSUME Ws!SlugAssumption, Ws!NoneAssumption
    PROVE  /\ Ws!NoRow \in Ws!Row
           /\ None \notin Workspace /\ None \notin App /\ None \notin Owner
           /\ None \notin Name /\ None \notin Slug
           /\ \A n \in Name : SlugOf[n] \in Slug
BY DEF Ws!SlugAssumption, Ws!NoneAssumption, Ws!NoRow, Ws!Row

(* There are no rows in the initial state.                                  *)
LEMMA WsHoldsAtStart ==
    ASSUME Ws!SlugAssumption, Ws!NoneAssumption
    PROVE  Ws!Init => WsSerialInv
BY Rows DEF Ws!Init, Ws!NoRow, WsSerialInv, WsInv, Ws!TypeOK, Serving, UniqueColumns,
   LoadedIsCurrent,
            Ws!SlugFollowsName, Exists

(* What the answer to a request leaves of its worker, and of the others.    *)
LEMMA Returned ==
    ASSUME Ws!SlugAssumption, Ws!NoneAssumption, Ws!TypeOK, NEW w \in Worker, Ws!Return(w)
    PROVE  /\ wsPc' \in [Worker -> {"idle", "insert", "refused", "rename", "erase", "assign"}]
           /\ wsTarget' \in [Worker -> Workspace \cup {None}]
           /\ wsSubject' \in [Worker -> App \cup {None}]
           /\ who' \in [Worker -> Owner \cup {None}]
           /\ want' \in [Worker -> Name \cup {None}]
           /\ seen' \in [Worker -> Ws!Row]
           /\ wsPc'[w] = "idle"
           /\ \A v \in Worker \ {w} :
                 /\ wsPc'[v] = wsPc[v] /\ wsTarget'[v] = wsTarget[v] /\ wsSubject'[v] = wsSubject[v]
                 /\ who'[v] = who[v] /\ want'[v] = want[v] /\ seen'[v] = seen[v]
BY Rows DEF Ws!TypeOK, Ws!Return, Ws!Goto

(* What the UPDATE of a rename writes: a name and a slug that no other row  *)
(* has, the row staying what it was otherwise.                              *)
Written(w) ==
    LET k == wsTarget[w] IN
    [st |-> ws[k].st, owner |-> ws[k].owner,
     name |-> Ws!Changed(ws[k].name, seen[w].name, want[w]),
     slug |-> Ws!Changed(ws[k].slug, seen[w].slug, SlugOf[want[w]])]

(* A rename that changes the table writes that row, under a name and a     *)
(* slug that no other row has.                                              *)
LEMMA RenameWrites ==
    ASSUME Ws!SlugAssumption, Ws!NoneAssumption, Ws!TypeOK, Serving, NEW w \in Worker,
           Ws!Rename(w),
           ws' # ws
    PROVE  /\ wsTarget[w] \in Workspace /\ Exists(wsTarget[w])
           /\ Written(w) \in Ws!Row /\ Written(w).name # None /\ Written(w).slug # None
           /\ ws' = [ws EXCEPT ![wsTarget[w]] = Written(w)]
           /\ ~Ws!Taken(wsTarget[w], Written(w).name, Written(w).slug)
           /\ Ws!Return(w)
<1> DEFINE k == wsTarget[w]
           newName == Ws!Changed(ws[k].name, seen[w].name, want[w])
           newSlug == Ws!Changed(ws[k].slug, seen[w].slug, SlugOf[want[w]])
<1>1. k \in Workspace /\ Exists(k) /\ want[w] \in Name
  BY DEF Ws!Rename, Serving
<1>2. ws[k] \in Ws!Row /\ ws[k].name # None /\ ws[k].slug # None
  BY <1>1 DEF Ws!TypeOK, Exists
<1>3. newName \in Name /\ newSlug \in Slug
  BY <1>1, <1>2, Rows DEF Ws!Row, Ws!Changed
<1>4. /\ ~Ws!Taken(k, newName, newSlug)
      /\ ws' = [ws EXCEPT ![k].name = newName, ![k].slug = newSlug]
      /\ Ws!Return(w)
  BY DEF Ws!Rename
<1>5. Written(w) \in Ws!Row /\ Written(w).name = newName /\ Written(w).slug = newSlug
  BY <1>2, <1>3 DEF Written, Ws!Row
<1>6. ws' = [ws EXCEPT ![k] = Written(w)]
  <2>1. [ws[k] EXCEPT !.name = newName, !.slug = newSlug] = Written(w)
    <3> DEFINE row == [ws[k] EXCEPT !.name = newName, !.slug = newSlug]
    <3>. HIDE DEF newName, newSlug
    <3>1. row \in Ws!Row /\ row.st = ws[k].st /\ row.owner = ws[k].owner
          /\ row.name = newName /\ row.slug = newSlug
      BY <1>2, <1>3 DEF Ws!Row
    <3>2. Written(w).st = ws[k].st /\ Written(w).owner = ws[k].owner
      BY DEF Written
    <3>. HIDE DEF row
    <3>3. row = Written(w)
      BY <1>5, <3>1, <3>2 DEF Ws!Row
    <3>. QED
      BY <3>3 DEF row
  <2>2. ws' = [ws EXCEPT ![k] = [ws[k] EXCEPT !.name = newName, !.slug = newSlug]]
    BY <1>1, <1>4 DEF Ws!TypeOK
  <2>. QED
    BY <2>1, <2>2
<1>. QED
  BY <1>1, <1>3, <1>4, <1>5, <1>6, Rows

(* What the INSERT of a creation writes: a row where none was, of a name    *)
(* and a slug that no row has.                                              *)
LEMMA InsertWrites ==
    ASSUME Ws!SlugAssumption, Ws!NoneAssumption, Ws!TypeOK, Serving, NEW w \in Worker,
           Ws!Insert(w),
           ws' # ws
    PROVE  /\ Ws!NewRow(w) \in Ws!Row /\ Ws!NewRow(w).name # None /\ Ws!NewRow(w).slug # None
           /\ \E k \in Workspace : ~Exists(k) /\ ws' = [ws EXCEPT ![k] = Ws!NewRow(w)]
           /\ ~Ws!Taken(None, Ws!NewRow(w).name, Ws!NewRow(w).slug)
           /\ Ws!Return(w)
<1>1. who[w] \in Owner /\ want[w] \in Name
  BY DEF Ws!Insert, Serving
<1>. QED
  BY <1>1, Rows DEF Ws!Insert, Ws!NewRow, Ws!Row, Exists

-----------------------------------------------------------------------------
(* A row once written stays, and has its columns.                           *)
LEMMA TypeStep ==
    ASSUME Ws!SlugAssumption, Ws!NoneAssumption, Ws!TypeOK, Serving, [Ws!Next]_(Ws!vars)
    PROVE  Ws!TypeOK' /\ Serving'
<1> USE DEF Ws!TypeOK, Serving, Exists, Ws!localVars
<1>1. ASSUME NEW w \in Worker, NEW o \in Owner, NEW n \in Name, Ws!BeginCreate(w, o, n)
      PROVE  Ws!TypeOK' /\ Serving'
  BY <1>1 DEF Ws!BeginCreate, Ws!Goto
<1>2. ASSUME NEW w \in Worker, NEW o \in Owner, NEW n \in Name, NEW k \in Workspace,
             Ws!BeginUpdate(w, o, k, n)
      PROVE  Ws!TypeOK' /\ Serving'
  BY <1>2 DEF Ws!BeginUpdate, Ws!Load, Ws!Mine, Ws!Goto
<1>3. ASSUME NEW w \in Worker, NEW o \in Owner, NEW k \in Workspace, Ws!BeginDelete(w, o, k)
      PROVE  Ws!TypeOK' /\ Serving'
  BY <1>3 DEF Ws!BeginDelete, Ws!Load, Ws!Mine, Ws!Goto
<1>4. ASSUME NEW w \in Worker, NEW a \in App, NEW k \in Workspace \cup {None},
             Ws!BeginAssign(w, a, k)
      PROVE  Ws!TypeOK' /\ Serving'
  BY <1>4, Rows DEF Ws!BeginAssign, Ws!Goto
<1>5. ASSUME NEW w \in Worker, Ws!Return(w), UNCHANGED <<ws, apps, group>>
      PROVE  Ws!TypeOK' /\ Serving'
  BY <1>5, Returned
<1>6. ASSUME NEW w \in Worker, Ws!Goto(w, "refused"), UNCHANGED <<ws, apps, group, Ws!localVars>>
      PROVE  Ws!TypeOK' /\ Serving'
  BY <1>6 DEF Ws!Goto
<1>7. ASSUME NEW w \in Worker, NEW k \in Workspace, NEW row \in Ws!Row,
             row.name # None, row.slug # None, row.st # "none",
             ws' = [ws EXCEPT ![k] = row], Ws!Return(w), UNCHANGED <<apps, group>>
      PROVE  Ws!TypeOK' /\ Serving'
  <2>1. \A j \in Workspace : Exists(j) => Exists(j)'
    BY <1>7
  <2>2. \A j \in Workspace : Exists(j)' => ws'[j].name # None /\ ws'[j].slug # None
    BY <1>7
  <2>3. \A a \in App : group'[a] # None => a \in apps' /\ Exists(group[a])'
    BY <1>7, <2>1
  <2>4. ws' \in [Workspace -> Ws!Row]
    BY <1>7
  <2>5. Serving'
    BY <1>7, <2>1, Returned
  <2>. QED
    BY <1>7, <2>2, <2>3, <2>4, <2>5, Returned
<1>8. ASSUME NEW w \in Worker, Ws!Insert(w) PROVE Ws!TypeOK' /\ Serving'
  <2>1. CASE ws' = ws
    BY <1>5, <1>6, <1>8, <2>1 DEF Ws!Insert
  <2>2. CASE ws' # ws
    BY <1>7, <1>8, <2>2, InsertWrites DEF Ws!Insert, Ws!NewRow
  <2>. QED
    BY <2>1, <2>2
<1>9. ASSUME NEW w \in Worker, Ws!Rename(w) PROVE Ws!TypeOK' /\ Serving'
  <2>1. CASE ws' = ws
    BY <1>5, <1>6, <1>9, <2>1 DEF Ws!Rename
  <2>2. CASE ws' # ws
    <3>1. Written(w).st # "none" /\ UNCHANGED <<apps, group>>
      BY <1>9, <2>2, RenameWrites DEF Ws!Rename, Written
    <3>. QED
      BY <1>7, <1>9, <2>2, <3>1, RenameWrites
  <2>. QED
    BY <2>1, <2>2
<1>10. ASSUME NEW w \in Worker, Ws!Erase(w) PROVE Ws!TypeOK' /\ Serving'
  <2>1. wsTarget[w] \in Workspace /\ Exists(wsTarget[w])
    BY <1>10 DEF Ws!Erase
  <2>2. ws' = [ws EXCEPT ![wsTarget[w]].st = "deleted"]
    BY <1>10 DEF Ws!Erase
  <2>3. ws' \in [Workspace -> Ws!Row]
    <3>1. [ws[wsTarget[w]] EXCEPT !.st = "deleted"] \in Ws!Row
      BY <2>1 DEF Ws!Row
    <3>. QED
      BY <2>1, <2>2, <3>1
  <2>4. \A j \in Workspace : Exists(j) => Exists(j)'
    BY <2>1, <2>2
  <2>5. \A j \in Workspace : Exists(j)' => ws'[j].name # None /\ ws'[j].slug # None
    BY <2>1, <2>2
  <2>6. /\ group' \in [App -> Workspace \cup {None}]
        /\ \A a \in App : group'[a] # None => a \in apps' /\ Exists(group[a])'
    BY <1>10, <2>4, Rows DEF Ws!Erase
  <2>7. Ws!Return(w) /\ UNCHANGED apps
    BY <1>10 DEF Ws!Erase
  <2>8. Serving'
    BY <2>4, <2>7, Returned
  <2>. QED
    BY <2>3, <2>5, <2>6, <2>7, <2>8, Returned
<1>11. ASSUME NEW w \in Worker, Ws!Assign(w) PROVE Ws!TypeOK' /\ Serving'
  BY <1>11, Returned, Rows DEF Ws!Assign
<1>12. CASE UNCHANGED Ws!vars
  BY <1>12 DEF Ws!vars
<1>. QED
  BY <1>1, <1>2, <1>3, <1>4, <1>5, <1>8, <1>9, <1>10, <1>11, <1>12 DEF Ws!Next, Ws!Act, Ws!Refused,
     Ws!Crash

(* A row that is written has a name and a slug that the columns let in; the *)
(* deletion of one leaves its name and its slug in the columns.             *)
LEMMA UniqueStep ==
    ASSUME Ws!SlugAssumption, Ws!NoneAssumption, WsInv, [Ws!Next]_(Ws!vars)
    PROVE  UniqueColumns'
<1> USE DEF WsInv, UniqueColumns, Exists
<1>1. CASE UNCHANGED ws
  BY <1>1
<1>2. ASSUME NEW k \in Workspace, NEW row \in Ws!Row, ~Ws!Taken(k, row.name, row.slug),
             ws' = [ws EXCEPT ![k] = row]
      PROVE  UniqueColumns'
  BY <1>2 DEF Ws!Taken, Ws!TypeOK
<1>3. ASSUME NEW w \in Worker, Ws!Insert(w), ws' # ws PROVE UniqueColumns'
  <2>1. PICK k \in Workspace : ~Exists(k) /\ ws' = [ws EXCEPT ![k] = Ws!NewRow(w)]
    BY <1>3, InsertWrites
  <2>2. ~Ws!Taken(k, Ws!NewRow(w).name, Ws!NewRow(w).slug)
    BY <1>3, InsertWrites, Rows DEF Ws!Taken
  <2>. QED
    BY <1>2, <1>3, <2>1, <2>2, InsertWrites
<1>4. ASSUME NEW w \in Worker, Ws!Rename(w), ws' # ws PROVE UniqueColumns'
  BY <1>2, <1>4, RenameWrites
<1>5. ASSUME NEW w \in Worker, Ws!Erase(w) PROVE UniqueColumns'
  <2>1. wsTarget[w] \in Workspace /\ Exists(wsTarget[w])
    BY <1>5 DEF Ws!Erase, Serving
  <2>. QED
    BY <1>5, <2>1 DEF Ws!Erase, Ws!TypeOK
<1>. QED
  BY <1>1, <1>3, <1>4, <1>5
  DEF Ws!Next, Ws!Act, Ws!BeginCreate, Ws!BeginUpdate, Ws!BeginDelete, Ws!BeginAssign, Ws!Refused,
  Ws!Assign, Ws!Crash, Ws!vars

(* Alone, a request writes to the row as it has loaded it.                  *)
LEMMA SerialStep ==
    ASSUME Ws!SlugAssumption, Ws!NoneAssumption, WsSerialInv, NEW w \in Worker, Alone(w), Ws!Act(w)
    PROVE  LoadedIsCurrent' /\ Ws!SlugFollowsName'
<1> USE DEF WsSerialInv, WsInv, Alone, LoadedIsCurrent, Ws!SlugFollowsName, Ws!localVars
<1>1. ASSUME Ws!Return(w) PROVE LoadedIsCurrent'
  BY <1>1 DEF Ws!Return, Ws!Goto, Ws!TypeOK
<1>2. ASSUME NEW o \in Owner, NEW n \in Name, Ws!BeginCreate(w, o, n)
      PROVE  LoadedIsCurrent' /\ Ws!SlugFollowsName'
  BY <1>2 DEF Ws!BeginCreate, Ws!Goto, Ws!TypeOK
<1>3. ASSUME NEW o \in Owner, NEW n \in Name, NEW k \in Workspace,
             Ws!BeginUpdate(w, o, k, n)
      PROVE  LoadedIsCurrent' /\ Ws!SlugFollowsName'
  BY <1>3 DEF Ws!BeginUpdate, Ws!Load, Ws!Goto, Ws!TypeOK
<1>4. ASSUME NEW o \in Owner, NEW k \in Workspace, Ws!BeginDelete(w, o, k)
      PROVE  LoadedIsCurrent' /\ Ws!SlugFollowsName'
  BY <1>4 DEF Ws!BeginDelete, Ws!Load, Ws!Goto, Ws!TypeOK
<1>5. ASSUME NEW a \in App, NEW k \in Workspace \cup {None},
             Ws!BeginAssign(w, a, k)
      PROVE  LoadedIsCurrent' /\ Ws!SlugFollowsName'
  BY <1>5 DEF Ws!BeginAssign, Ws!Goto, Ws!TypeOK
<1>6. ASSUME Ws!Goto(w, "refused"), UNCHANGED <<ws, Ws!localVars>>
      PROVE  LoadedIsCurrent' /\ Ws!SlugFollowsName'
  BY <1>6 DEF Ws!Goto, Ws!TypeOK
<1>7. ASSUME Ws!Insert(w) PROVE LoadedIsCurrent' /\ Ws!SlugFollowsName'
  <2>1. CASE ws' = ws
    BY <1>1, <1>6, <1>7, <2>1 DEF Ws!Insert
  <2>2. CASE ws' # ws
    <3>1. PICK k \in Workspace : ws' = [ws EXCEPT ![k] = Ws!NewRow(w)]
      BY <1>7, <2>2, InsertWrites
    <3>. QED
      BY <1>1, <1>7, <2>2, <3>1, InsertWrites DEF Ws!NewRow, Ws!TypeOK
  <2>. QED
    BY <2>1, <2>2
<1>8. ASSUME Ws!Rename(w) PROVE LoadedIsCurrent' /\ Ws!SlugFollowsName'
  <2>1. CASE ws' = ws
    BY <1>1, <1>6, <1>8, <2>1 DEF Ws!Rename
  <2>2. CASE ws' # ws
    <3>1. seen[w] = ws[wsTarget[w]]
      BY <1>8 DEF Ws!Rename
    <3>2. Written(w).name = want[w] /\ Written(w).slug = SlugOf[want[w]]
      BY <3>1 DEF Written, Ws!Changed
    <3>. QED
      BY <1>1, <1>8, <2>2, <3>2, RenameWrites DEF Ws!TypeOK
  <2>. QED
    BY <2>1, <2>2
<1>9. ASSUME Ws!Erase(w) PROVE LoadedIsCurrent' /\ Ws!SlugFollowsName'
  <2>1. wsTarget[w] \in Workspace /\ Exists(wsTarget[w])
    BY <1>9 DEF Ws!Erase, Serving
  <2>. QED
    BY <1>1, <1>9, <2>1 DEF Ws!Erase, Exists, Ws!TypeOK
<1>. QED
  BY <1>1, <1>2, <1>3, <1>4, <1>5, <1>7, <1>8, <1>9
  DEF Ws!Act, Ws!Refused, Ws!Assign, Ws!Crash

-----------------------------------------------------------------------------
(* A run of these services takes their steps.                               *)
LEMMA SecretsRun ==
    service = "secrets" /\ [Next]_vars => (service = "secrets")' /\ [Secrets!Next]_(Secrets!vars)
<1>1. CASE UNCHANGED vars
  BY <1>1 DEF vars, secretVars, Secrets!vars, Secrets!clusterVars, Secrets!localVars
<1>2. CASE Next
  BY <1>2 DEF Next, Rest
<1>. QED
  BY <1>1, <1>2

(* The login at Docker Hub.                                                 *)
LEMMA HubRun ==
    service = "hub" /\ [Next]_vars => (service = "hub")' /\ [Hub!Next]_(Hub!vars)
<1>1. CASE UNCHANGED vars
  BY <1>1 DEF vars, hubVars, Hub!vars, Hub!workerVars
<1>2. CASE Next
  BY <1>2 DEF Next, Rest
<1>. QED
  BY <1>1, <1>2

(* The workspaces: those of requests that do not overlap are requests.      *)
LEMMA WsRuns ==
    ASSUME service \in {"crowd", "turns"}, [Next]_vars
    PROVE  /\ UNCHANGED service /\ [Ws!Next]_(Ws!vars)
           /\ service = "turns" =>
                 (\E w \in Worker : Alone(w) /\ Ws!Act(w)) \/ UNCHANGED Ws!vars
<1>1. CASE UNCHANGED vars
  BY <1>1 DEF vars, wsVars, Ws!vars, Ws!localVars
<1>2. CASE Next
  BY <1>2 DEF Next, Rest, Ws!Next
<1>. QED
  BY <1>1, <1>2

(* None becomes another.                                                    *)
LEMMA SameService == [Next]_vars => UNCHANGED service
BY DEF Next, Rest, vars

(* The tables of the Configurator, while workers boot. What Seed defines is *)
(* what SeedP does.                                                         *)
LEMMA SeedSame ==
    /\ Seed!ConfiguratorAssumption <=> SeedP!ConfiguratorAssumption
    /\ Seed!Init <=> SeedP!Init
    /\ Seed!Next <=> SeedP!Next
    /\ Seed!vars = SeedP!vars
    /\ Seed!TypeOK <=> SeedP!TypeOK
<1>1. Seed!ConfiguratorAssumption <=> SeedP!ConfiguratorAssumption
  BY DEF Seed!ConfiguratorAssumption, SeedP!ConfiguratorAssumption, Seed!Value,
     SeedP!Value
<1>2. Seed!Init <=> SeedP!Init
  BY DEF Seed!Init, SeedP!Init, Seed!NoRec, SeedP!NoRec
<1>3. Seed!Next <=> SeedP!Next
  BY DEF Seed!Next, SeedP!Next, Seed!Act, SeedP!Act, Seed!Restart, SeedP!Restart, Seed!BootStep,
     SeedP!BootStep, Seed!Serve, SeedP!Serve, Seed!Crash, SeedP!Crash, Seed!NoRec,
     SeedP!NoRec, Seed!rowVars, SeedP!rowVars, Seed!Boot, SeedP!Boot, Seed!SeedSchemas,
     SeedP!SeedSchemas, Seed!SeedColumns, SeedP!SeedColumns, Seed!SeedRecords,
     SeedP!SeedRecords, Seed!InsertRecord, SeedP!InsertRecord, Seed!StoreRecord,
     SeedP!StoreRecord, Seed!Refuse, SeedP!Refuse, Seed!CreateSchema, SeedP!CreateSchema,
     Seed!RenameSchema, SeedP!RenameSchema, Seed!DeleteSchema, SeedP!DeleteSchema,
     Seed!Column, SeedP!Column, Seed!CreateColumn, SeedP!CreateColumn, Seed!DeleteColumn,
     SeedP!DeleteColumn, Seed!UpdateColumn, SeedP!UpdateColumn, Seed!Data, SeedP!Data,
     Seed!BeginCreateRecord, SeedP!BeginCreateRecord, Seed!DeleteRecord,
     SeedP!DeleteRecord, Seed!BeginUpdateRecord, SeedP!BeginUpdateRecord, Seed!Goto,
     SeedP!Goto, Seed!Live, SeedP!Live, Seed!Fail, SeedP!Fail, Seed!SeedCols,
     SeedP!SeedCols, Seed!SeedData, SeedP!SeedData, Seed!Idle, SeedP!Idle, Seed!Stored,
     SeedP!Stored, Seed!Serves, SeedP!Serves, Seed!Free, SeedP!Free, Seed!Unchanged,
     SeedP!Unchanged, Seed!NewIn, SeedP!NewIn, Seed!Value, SeedP!Value, Seed!Hold,
     SeedP!Hold, Seed!Fits, SeedP!Fits, Seed!Accepts, SeedP!Accepts
<1>4. Seed!vars = SeedP!vars
  BY DEF Seed!vars, SeedP!vars, Seed!rowVars, SeedP!rowVars
<1>5. Seed!TypeOK <=> SeedP!TypeOK
  BY DEF Seed!TypeOK, SeedP!TypeOK, Seed!Column, SeedP!Column, Seed!Value, SeedP!Value,
     Seed!Live, SeedP!Live
<1>. QED
  BY <1>1, <1>2, <1>3, <1>4, <1>5

(* A run of the service is one of SeedP.                                    *)
LEMMA SeedRuns == Spec => [](service # "seed") \/ SeedP!Spec
<1>1. Init /\ service = "seed" => SeedP!Init
  BY SeedSame DEF Init
<1>2. service = "seed" /\ [Next]_vars => (service = "seed")' /\ [SeedP!Next]_(SeedP!vars)
  <2>1. CASE UNCHANGED vars
    BY <2>1, SeedSame 
       DEF vars, tableVars, Seed!vars, Seed!rowVars, SeedP!vars, SeedP!rowVars
  <2>2. CASE Next
    BY <2>2, SeedSame DEF Next, Rest
  <2>. QED
    BY <2>1, <2>2
<1>3. service # "seed" /\ [Next]_vars => (service # "seed")'
  BY SameService
<1>4. service = "seed" \/ service # "seed"
  OBVIOUS
<1>. QED
  BY <1>1, <1>2, <1>3, <1>4, PTL DEF Spec, SeedP!Spec

(* The same of schemas and columns. What Columns defines is what ColumnsP   *)
(* does.                                                                    *)
LEMMA ColumnsSame ==
    /\ Columns!ConfiguratorAssumption <=> ColumnsP!ConfiguratorAssumption
    /\ Columns!Init <=> ColumnsP!Init
    /\ Columns!Next <=> ColumnsP!Next
    /\ Columns!vars = ColumnsP!vars
    /\ Columns!TypeOK <=> ColumnsP!TypeOK
    /\ Columns!RowsRefer <=> ColumnsP!RowsRefer
<1>1. Columns!ConfiguratorAssumption <=> ColumnsP!ConfiguratorAssumption
  BY DEF Columns!ConfiguratorAssumption, ColumnsP!ConfiguratorAssumption, Columns!Value,
     ColumnsP!Value
<1>2. Columns!Init <=> ColumnsP!Init
  BY DEF Columns!Init, ColumnsP!Init, Columns!NoRec, ColumnsP!NoRec
<1>3. Columns!Next <=> ColumnsP!Next
  BY DEF Columns!Next, ColumnsP!Next, Columns!Act, ColumnsP!Act,
     Columns!Restart, ColumnsP!Restart, Columns!BootStep,
     ColumnsP!BootStep, Columns!Serve, ColumnsP!Serve, Columns!Crash, ColumnsP!Crash,
     Columns!NoRec, ColumnsP!NoRec, Columns!rowVars, ColumnsP!rowVars, Columns!Boot,
     ColumnsP!Boot, Columns!SeedSchemas, ColumnsP!SeedSchemas, Columns!SeedColumns,
     ColumnsP!SeedColumns, Columns!SeedRecords, ColumnsP!SeedRecords,
     Columns!InsertRecord, ColumnsP!InsertRecord, Columns!StoreRecord,
     ColumnsP!StoreRecord, Columns!Refuse, ColumnsP!Refuse, Columns!CreateSchema,
     ColumnsP!CreateSchema, Columns!RenameSchema, ColumnsP!RenameSchema,
     Columns!DeleteSchema, ColumnsP!DeleteSchema, Columns!Column, ColumnsP!Column,
     Columns!CreateColumn, ColumnsP!CreateColumn, Columns!DeleteColumn,
     ColumnsP!DeleteColumn, Columns!UpdateColumn, ColumnsP!UpdateColumn, Columns!Data,
     ColumnsP!Data, Columns!BeginCreateRecord, ColumnsP!BeginCreateRecord,
     Columns!DeleteRecord, ColumnsP!DeleteRecord, Columns!BeginUpdateRecord,
     ColumnsP!BeginUpdateRecord, Columns!Goto, ColumnsP!Goto, Columns!Live, ColumnsP!Live,
     Columns!Fail, ColumnsP!Fail, Columns!SeedCols, ColumnsP!SeedCols, Columns!SeedData,
     ColumnsP!SeedData, Columns!Idle, ColumnsP!Idle, Columns!Stored, ColumnsP!Stored,
     Columns!Serves, ColumnsP!Serves, Columns!Free, ColumnsP!Free, Columns!Unchanged,
     ColumnsP!Unchanged, Columns!NewIn, ColumnsP!NewIn, Columns!Value, ColumnsP!Value,
     Columns!Hold, ColumnsP!Hold, Columns!Fits, ColumnsP!Fits, Columns!Accepts,
     ColumnsP!Accepts
<1>4. Columns!vars = ColumnsP!vars
  BY DEF Columns!vars, ColumnsP!vars, Columns!rowVars, ColumnsP!rowVars
<1>5. Columns!TypeOK <=> ColumnsP!TypeOK
  BY DEF Columns!TypeOK, ColumnsP!TypeOK, Columns!Column, ColumnsP!Column, Columns!Value,
     ColumnsP!Value, Columns!Live, ColumnsP!Live
<1>6. Columns!RowsRefer <=> ColumnsP!RowsRefer
  BY DEF Columns!RowsRefer, ColumnsP!RowsRefer, Columns!Live, ColumnsP!Live,
     Columns!Stored, ColumnsP!Stored
<1>. QED
  BY <1>1, <1>2, <1>3, <1>4, <1>5, <1>6

(* A run of the service is one of ColumnsP.                                 *)
LEMMA ColumnsRuns == Spec => [](service # "columns") \/ ColumnsP!Spec
<1>1. Init /\ service = "columns" => ColumnsP!Init
  BY ColumnsSame DEF Init
<1>2. service = "columns" /\ [Next]_vars
      => (service = "columns")' /\ [ColumnsP!Next]_(ColumnsP!vars)
  <2>1. CASE UNCHANGED vars
    BY <2>1, ColumnsSame 
       DEF vars, tableVars, Columns!vars, Columns!rowVars, ColumnsP!vars, ColumnsP!rowVars
  <2>2. CASE Next
    BY <2>2, ColumnsSame DEF Next, Rest
  <2>. QED
    BY <2>1, <2>2
<1>3. service # "columns" /\ [Next]_vars => (service # "columns")'
  BY SameService
<1>4. service = "columns" \/ service # "columns"
  OBVIOUS
<1>. QED
  BY <1>1, <1>2, <1>3, <1>4, PTL DEF Spec, ColumnsP!Spec

(* The same of records, while their schemas may go. What Records defines is *)
(* what RecordsP does.                                                      *)
LEMMA RecordsSame ==
    /\ Records!ConfiguratorAssumption <=> RecordsP!ConfiguratorAssumption
    /\ Records!Init <=> RecordsP!Init
    /\ Records!Next <=> RecordsP!Next
    /\ Records!vars = RecordsP!vars
    /\ Records!TypeOK <=> RecordsP!TypeOK
    /\ Records!RowsRefer <=> RecordsP!RowsRefer
    /\ Records!FitsWhenStored <=> RecordsP!FitsWhenStored
<1>1. Records!ConfiguratorAssumption <=> RecordsP!ConfiguratorAssumption
  BY DEF Records!ConfiguratorAssumption, RecordsP!ConfiguratorAssumption, Records!Value,
     RecordsP!Value
<1>2. Records!Init <=> RecordsP!Init
  BY DEF Records!Init, RecordsP!Init, Records!NoRec, RecordsP!NoRec
<1>3. Records!Next <=> RecordsP!Next
  BY DEF Records!Next, RecordsP!Next, Records!Act, RecordsP!Act,
     Records!Restart, RecordsP!Restart, Records!BootStep,
     RecordsP!BootStep, Records!Serve, RecordsP!Serve, Records!Crash, RecordsP!Crash,
     Records!NoRec, RecordsP!NoRec, Records!rowVars, RecordsP!rowVars, Records!Boot,
     RecordsP!Boot, Records!SeedSchemas, RecordsP!SeedSchemas, Records!SeedColumns,
     RecordsP!SeedColumns, Records!SeedRecords, RecordsP!SeedRecords,
     Records!InsertRecord, RecordsP!InsertRecord, Records!StoreRecord,
     RecordsP!StoreRecord, Records!Refuse, RecordsP!Refuse, Records!CreateSchema,
     RecordsP!CreateSchema, Records!RenameSchema, RecordsP!RenameSchema,
     Records!DeleteSchema, RecordsP!DeleteSchema, Records!Column, RecordsP!Column,
     Records!CreateColumn, RecordsP!CreateColumn, Records!DeleteColumn,
     RecordsP!DeleteColumn, Records!UpdateColumn, RecordsP!UpdateColumn, Records!Data,
     RecordsP!Data, Records!BeginCreateRecord, RecordsP!BeginCreateRecord,
     Records!DeleteRecord, RecordsP!DeleteRecord, Records!BeginUpdateRecord,
     RecordsP!BeginUpdateRecord, Records!Goto, RecordsP!Goto, Records!Live, RecordsP!Live,
     Records!Fail, RecordsP!Fail, Records!SeedCols, RecordsP!SeedCols, Records!SeedData,
     RecordsP!SeedData, Records!Idle, RecordsP!Idle, Records!Stored, RecordsP!Stored,
     Records!Serves, RecordsP!Serves, Records!Free, RecordsP!Free, Records!Unchanged,
     RecordsP!Unchanged, Records!NewIn, RecordsP!NewIn, Records!Value, RecordsP!Value,
     Records!Hold, RecordsP!Hold, Records!Fits, RecordsP!Fits, Records!Accepts,
     RecordsP!Accepts
<1>4. Records!vars = RecordsP!vars
  BY DEF Records!vars, RecordsP!vars, Records!rowVars, RecordsP!rowVars
<1>5. Records!TypeOK <=> RecordsP!TypeOK
  BY DEF Records!TypeOK, RecordsP!TypeOK, Records!Column, RecordsP!Column, Records!Value,
     RecordsP!Value, Records!Live, RecordsP!Live
<1>6. Records!RowsRefer <=> RecordsP!RowsRefer
  BY DEF Records!RowsRefer, RecordsP!RowsRefer, Records!Live, RecordsP!Live,
     Records!Stored, RecordsP!Stored
<1>7. Records!FitsWhenStored <=> RecordsP!FitsWhenStored
  BY DEF Records!FitsWhenStored, RecordsP!FitsWhenStored, Records!NoRec, RecordsP!NoRec,
     Records!Fits, RecordsP!Fits, Records!Accepts, RecordsP!Accepts
<1>. QED
  BY <1>1, <1>2, <1>3, <1>4, <1>5, <1>6, <1>7

(* A run of the service is one of RecordsP.                                 *)
LEMMA RecordsRuns == Spec => [](service # "records") \/ RecordsP!Spec
<1>1. Init /\ service = "records" => RecordsP!Init
  BY RecordsSame DEF Init
<1>2. service = "records" /\ [Next]_vars
      => (service = "records")' /\ [RecordsP!Next]_(RecordsP!vars)
  <2>1. CASE UNCHANGED vars
    BY <2>1, RecordsSame 
       DEF vars, tableVars, Records!vars, Records!rowVars, RecordsP!vars, RecordsP!rowVars
  <2>2. CASE Next
    BY <2>2, RecordsSame DEF Next, Rest
  <2>. QED
    BY <2>1, <2>2
<1>3. service # "records" /\ [Next]_vars => (service # "records")'
  BY SameService
<1>4. service = "records" \/ service # "records"
  OBVIOUS
<1>. QED
  BY <1>1, <1>2, <1>3, <1>4, PTL DEF Spec, RecordsP!Spec

(* The same of columns and records, of requests that do not overlap. What   *)
(* Values defines is what ValuesP does.                                     *)
LEMMA ValuesSame ==
    /\ Values!ConfiguratorAssumption <=> ValuesP!ConfiguratorAssumption
    /\ Values!Init <=> ValuesP!Init
    /\ Values!SerialNext <=> ValuesP!SerialNext
    /\ Values!vars = ValuesP!vars
    /\ Values!TypeOK <=> ValuesP!TypeOK
    /\ Values!FitsWhenStored <=> ValuesP!FitsWhenStored
<1>1. Values!ConfiguratorAssumption <=> ValuesP!ConfiguratorAssumption
  BY DEF Values!ConfiguratorAssumption, ValuesP!ConfiguratorAssumption, Values!Value,
     ValuesP!Value
<1>2. Values!Init <=> ValuesP!Init
  BY DEF Values!Init, ValuesP!Init, Values!NoRec, ValuesP!NoRec
<1>3. Values!SerialNext <=> ValuesP!SerialNext
  BY DEF Values!SerialNext, ValuesP!SerialNext, Values!Alone, ValuesP!Alone,
     Values!Act, ValuesP!Act,
     Values!Restart, ValuesP!Restart, Values!BootStep,
     ValuesP!BootStep, Values!Serve, ValuesP!Serve, Values!Crash, ValuesP!Crash,
     Values!NoRec, ValuesP!NoRec, Values!rowVars, ValuesP!rowVars, Values!Boot,
     ValuesP!Boot, Values!SeedSchemas, ValuesP!SeedSchemas, Values!SeedColumns,
     ValuesP!SeedColumns, Values!SeedRecords, ValuesP!SeedRecords, Values!InsertRecord,
     ValuesP!InsertRecord, Values!StoreRecord, ValuesP!StoreRecord, Values!Refuse,
     ValuesP!Refuse, Values!CreateSchema, ValuesP!CreateSchema, Values!RenameSchema,
     ValuesP!RenameSchema, Values!DeleteSchema, ValuesP!DeleteSchema, Values!Column,
     ValuesP!Column, Values!CreateColumn, ValuesP!CreateColumn, Values!DeleteColumn,
     ValuesP!DeleteColumn, Values!UpdateColumn, ValuesP!UpdateColumn, Values!Data,
     ValuesP!Data, Values!BeginCreateRecord, ValuesP!BeginCreateRecord,
     Values!DeleteRecord, ValuesP!DeleteRecord, Values!BeginUpdateRecord,
     ValuesP!BeginUpdateRecord, Values!Goto, ValuesP!Goto, Values!Live, ValuesP!Live,
     Values!Fail, ValuesP!Fail, Values!SeedCols, ValuesP!SeedCols, Values!SeedData,
     ValuesP!SeedData, Values!Idle, ValuesP!Idle, Values!Stored, ValuesP!Stored,
     Values!Serves, ValuesP!Serves, Values!Free, ValuesP!Free, Values!Unchanged,
     ValuesP!Unchanged, Values!NewIn, ValuesP!NewIn, Values!Value, ValuesP!Value,
     Values!Hold, ValuesP!Hold, Values!Fits, ValuesP!Fits, Values!Accepts, ValuesP!Accepts
<1>4. Values!vars = ValuesP!vars
  BY DEF Values!vars, ValuesP!vars, Values!rowVars, ValuesP!rowVars
<1>5. Values!TypeOK <=> ValuesP!TypeOK
  BY DEF Values!TypeOK, ValuesP!TypeOK, Values!Column, ValuesP!Column, Values!Value,
     ValuesP!Value, Values!Live, ValuesP!Live
<1>6. Values!FitsWhenStored <=> ValuesP!FitsWhenStored
  BY DEF Values!FitsWhenStored, ValuesP!FitsWhenStored, Values!NoRec, ValuesP!NoRec,
     Values!Fits, ValuesP!Fits, Values!Accepts, ValuesP!Accepts
<1>. QED
  BY <1>1, <1>2, <1>3, <1>4, <1>5, <1>6

(* Requests that do not overlap are requests.                              *)
LEMMA ValuesSerial == ValuesP!SerialSpec => ValuesP!Spec
<1>1. [ValuesP!SerialNext]_(ValuesP!vars) => [ValuesP!Next]_(ValuesP!vars)
  BY DEF ValuesP!SerialNext, ValuesP!Next
<1>. QED
  BY <1>1, PTL DEF ValuesP!SerialSpec, ValuesP!Spec

(* A run of the service is one of ValuesP.                                  *)
LEMMA ValuesRuns == Spec => [](service # "values") \/ ValuesP!SerialSpec
<1>1. Init /\ service = "values" => ValuesP!Init
  BY ValuesSame DEF Init
<1>2. service = "values" /\ [Next]_vars
      => (service = "values")' /\ [ValuesP!SerialNext]_(ValuesP!vars)
  <2>1. CASE UNCHANGED vars
    BY <2>1, ValuesSame 
       DEF vars, tableVars, Values!vars, Values!rowVars, ValuesP!vars, ValuesP!rowVars
  <2>2. CASE Next
    BY <2>2, ValuesSame DEF Next, Rest
  <2>. QED
    BY <2>1, <2>2
<1>3. service # "values" /\ [Next]_vars => (service # "values")'
  BY SameService
<1>4. service = "values" \/ service # "values"
  OBVIOUS
<1>. QED
  BY <1>1, <1>2, <1>3, <1>4, PTL DEF Spec, ValuesP!SerialSpec

(* ConfigMaps and Secrets. What Config defines is what ConfigP does.        *)
LEMMA ConfigSame ==
    /\ Config!StoreNames <=> ConfigP!StoreNames
    /\ Config!Init <=> ConfigP!Init
    /\ Config!SerialNext <=> ConfigP!SerialNext
    /\ Config!vars = ConfigP!vars
    /\ Config!TypeOK <=> ConfigP!TypeOK
    /\ Config!Backed <=> ConfigP!Backed
    /\ Config!EnvResolves <=> ConfigP!EnvResolves
    /\ Config!EnvWhole <=> ConfigP!EnvWhole
<1>1. Config!StoreNames <=> ConfigP!StoreNames
  BY DEF Config!StoreNames, ConfigP!StoreNames
<1>2. Config!Init <=> ConfigP!Init
  BY DEF Config!Init, ConfigP!Init, Config!Namespace, ConfigP!Namespace, Config!Object,
     ConfigP!Object, Config!Nowhere, ConfigP!Nowhere
<1>3. Config!SerialNext <=> ConfigP!SerialNext
  BY DEF Config!SerialNext, ConfigP!SerialNext, Config!Alone, ConfigP!Alone,
     Config!Act, ConfigP!Act,
     Config!UpsertSpace, ConfigP!UpsertSpace,
     Config!CreateObject, ConfigP!CreateObject, Config!ReplaceObject,
     ConfigP!ReplaceObject, Config!DeleteSpace, ConfigP!DeleteSpace, Config!DropApp,
     ConfigP!DropApp, Config!DeploySpace, ConfigP!DeploySpace, Config!ReadRef,
     ConfigP!ReadRef, Config!ReadFails, ConfigP!ReadFails, Config!Apply, ConfigP!Apply,
     Config!Crash, ConfigP!Crash, Config!CreateApp, ConfigP!CreateApp,
     Config!BeginDeleteApp, ConfigP!BeginDeleteApp, Config!Places, ConfigP!Places,
     Config!BeginUpsert, ConfigP!BeginUpsert, Config!Namespace, ConfigP!Namespace,
     Config!Object, ConfigP!Object, Config!DeleteObject, ConfigP!DeleteObject,
     Config!RefChoices, ConfigP!RefChoices, Config!BeginDeploy, ConfigP!BeginDeploy,
     Config!EnsureSpace, ConfigP!EnsureSpace, Config!Held, ConfigP!Held, Config!Goto,
     ConfigP!Goto, Config!localVars, ConfigP!localVars, Config!Exists, ConfigP!Exists,
     Config!Return, ConfigP!Return, Config!Mounts, ConfigP!Mounts, Config!Begin,
     ConfigP!Begin, Config!Nowhere, ConfigP!Nowhere, Config!Selected, ConfigP!Selected,
     Config!Ref, ConfigP!Ref, Config!Wanted, ConfigP!Wanted, Config!SelectorKey,
     ConfigP!SelectorKey, Config!LabelKeys, ConfigP!LabelKeys
<1>4. Config!vars = ConfigP!vars
  BY DEF Config!vars, ConfigP!vars, Config!localVars, ConfigP!localVars
<1>5. Config!TypeOK <=> ConfigP!TypeOK
  BY DEF Config!TypeOK, ConfigP!TypeOK, Config!Namespace, ConfigP!Namespace,
     Config!Object, ConfigP!Object, Config!Steps, ConfigP!Steps, Config!Nowhere,
     ConfigP!Nowhere, Config!Ref, ConfigP!Ref
<1>6. Config!Backed <=> ConfigP!Backed
  BY DEF Config!Backed, ConfigP!Backed, Config!Namespace, ConfigP!Namespace, Config!Held,
     ConfigP!Held, Config!Object, ConfigP!Object
<1>7. Config!EnvResolves <=> ConfigP!EnvResolves
  BY DEF Config!EnvResolves, ConfigP!EnvResolves, Config!Mounts, ConfigP!Mounts,
     Config!Held, ConfigP!Held, Config!Object, ConfigP!Object
<1>8. Config!EnvWhole <=> ConfigP!EnvWhole
  BY DEF Config!EnvWhole, ConfigP!EnvWhole, Config!Held, ConfigP!Held, Config!Object,
     ConfigP!Object
<1>. QED
  BY <1>1, <1>2, <1>3, <1>4, <1>5, <1>6, <1>7, <1>8

(* Requests that do not overlap are requests.                              *)
LEMMA ConfigSerial == ConfigP!SerialSpec => ConfigP!Spec
<1>1. [ConfigP!SerialNext]_(ConfigP!vars) => [ConfigP!Next]_(ConfigP!vars)
  BY DEF ConfigP!SerialNext, ConfigP!Next
<1>. QED
  BY <1>1, PTL DEF ConfigP!SerialSpec, ConfigP!Spec

(* A run of the service is one of ConfigP.                                  *)
LEMMA ConfigRuns == Spec => [](service # "config") \/ ConfigP!SerialSpec
<1>1. Init /\ service = "config" => ConfigP!Init
  BY ConfigSame DEF Init
<1>2. service = "config" /\ [Next]_vars
      => (service = "config")' /\ [ConfigP!SerialNext]_(ConfigP!vars)
  <2>1. CASE UNCHANGED vars
    BY <2>1, ConfigSame 
       DEF vars, storeVars, Config!vars, Config!localVars, ConfigP!vars, ConfigP!localVars
  <2>2. CASE Next
    BY <2>2, ConfigSame DEF Next, Rest
  <2>. QED
    BY <2>1, <2>2
<1>3. service # "config" /\ [Next]_vars => (service # "config")'
  BY SameService
<1>4. service = "config" \/ service # "config"
  OBVIOUS
<1>. QED
  BY <1>1, <1>2, <1>3, <1>4, PTL DEF Spec, ConfigP!SerialSpec

(* RecordSearch, whose proofs are those of Configurator_proofs: what Search *)
(* defines is what SeedP!Search does.                                       *)
LEMMA SearchSame ==
    /\ Search!SearchAssumption <=> SeedP!Search!SearchAssumption
    /\ Search!Init <=> SeedP!Search!Init
    /\ Search!Next <=> SeedP!Search!Next
    /\ Search!vars = SeedP!Search!vars
    /\ Search!MatchesIsGlob <=> SeedP!Search!MatchesIsGlob
    /\ Search!PagesPartition <=> SeedP!Search!PagesPartition
<1>1. Search!SearchAssumption <=> SeedP!Search!SearchAssumption
  BY DEF Search!SearchAssumption, SeedP!Search!SearchAssumption
<1>2. Search!Init <=> SeedP!Search!Init
  BY DEF Search!Init, SeedP!Search!Init, Search!Begun, SeedP!Search!Begun
<1>3. Search!Next <=> SeedP!Search!Next
  BY DEF Search!Next, SeedP!Search!Next, Search!Filter, SeedP!Search!Filter, Search!List,
     SeedP!Search!List, Search!Found, SeedP!Search!Found, Search!Begun,
     SeedP!Search!Begun, Search!Texts, SeedP!Search!Texts, Search!Pages,
     SeedP!Search!Pages, Search!Places, SeedP!Search!Places
<1>4. Search!vars = SeedP!Search!vars
  BY DEF Search!vars, SeedP!Search!vars
<1>5. Search!MatchesIsGlob <=> SeedP!Search!MatchesIsGlob
  BY DEF Search!MatchesIsGlob, SeedP!Search!MatchesIsGlob, Search!Matches,
     SeedP!Search!Matches, Search!StartsStar, SeedP!Search!StartsStar, Search!EndsStar,
     SeedP!Search!EndsStar, Search!Inner, SeedP!Search!Inner, Search!Core,
     SeedP!Search!Core, Search!IsPrefix, SeedP!Search!IsPrefix, Search!IsSuffix,
     SeedP!Search!IsSuffix, Search!Reverse, SeedP!Search!Reverse, Search!Front,
     SeedP!Search!Front
<1>6. Search!PagesPartition <=> SeedP!Search!PagesPartition
  BY DEF Search!PagesPartition, SeedP!Search!PagesPartition, Search!Pages,
     SeedP!Search!Pages, Search!Items, SeedP!Search!Items, Search!Shown,
     SeedP!Search!Shown, Search!Untied, SeedP!Search!Untied, Search!OnOnePage,
     SeedP!Search!OnOnePage
<1>. QED
  BY <1>1, <1>2, <1>3, <1>4, <1>5, <1>6

(* A run of the service is one of SeedP!Search.                             *)
LEMMA SearchRuns == Spec => [](service # "search") \/ SeedP!Search!Spec
<1>1. Init /\ service = "search" => SeedP!Search!Init
  BY SearchSame DEF Init
<1>2. service = "search" /\ [Next]_vars
      => (service = "search")' /\ [SeedP!Search!Next]_(SeedP!Search!vars)
  <2>1. CASE UNCHANGED vars
    BY <2>1, SearchSame DEF vars, searchVars, Search!vars, SeedP!Search!vars
  <2>2. CASE Next
    BY <2>2, SearchSame DEF Next, Rest
  <2>. QED
    BY <2>1, <2>2
<1>3. service # "search" /\ [Next]_vars => (service # "search")'
  BY SameService
<1>4. service = "search" \/ service # "search"
  OBVIOUS
<1>. QED
  BY <1>1, <1>2, <1>3, <1>4, PTL DEF Spec, SeedP!Search!Spec

-----------------------------------------------------------------------------

-----------------------------------------------------------------------------
(* The inductive invariant of the secrets of the system.                    *)
THEOREM SecretsInvariant == Spec => [](service = "secrets" => SecretsInv)
<1> USE PlatformAssumption
<1>1. Init => SecretsInv
  BY SecretsHoldsAtStart DEF Init
<1>2. (service = "secrets" => SecretsInv) /\ [Next]_vars => (service = "secrets" => SecretsInv)'
  BY SecretsRun, SameService, SecretsTypedStep, PatchesOwnedStep, PodStep DEF SecretsInv
<1>. QED
  BY <1>1, <1>2, PTL DEF Spec

(* A pod that is up to date has every value that was saved, but for PUTs    *)
(* under way and those whose restart has failed, however PUTs overlap.      *)
THEOREM UpToDatePodIsCurrent == Spec => []PodIsCurrent
<1>1. (service = "secrets" => SecretsInv) => PodIsCurrent
  BY DEF SecretsInv, PodIsCurrent
<1>. QED
  BY <1>1, SecretsInvariant, PTL

(* What a PUT has reported as restarted runs whenever the pod is up to      *)
(* date: the safety half of PromiseKept, for which the rollout must come.   *)
THEOREM PromisedRuns == Spec => [](service = "secrets" => PromisesRun)
<1>1. (service = "secrets" => SecretsInv) => (service = "secrets" => PromisesRun)
  BY DEF SecretsInv
<1>. QED
  BY <1>1, SecretsInvariant, PTL

(* No step of any PUT takes a key of a Secret back to an older value.       *)
THEOREM KeysNeverGoBack == Spec => NoKeyGoesBack
<1>1. (service = "secrets" => SecretsInv) /\ [Next]_vars
      => [service = "secrets" => Secrets!NoKeyGoesBack]_vars
  BY PlatformAssumption, SecretsRun, KeyStep DEF SecretsInv
<1>. QED
  BY <1>1, SecretsInvariant, PTL DEF Spec, NoKeyGoesBack

-----------------------------------------------------------------------------
(* The inductive invariant of the login at Docker Hub.                      *)
THEOREM HubInvariant == Spec => [](service = "hub" => HubInv)
<1> USE PlatformAssumption
<1>1. Init => HubInv
  BY HubHoldsAtStart DEF Init
<1>2. (service = "hub" => HubInv) /\ [Next]_vars => (service = "hub" => HubInv)'
  BY HubRun, SameService, HubTypedStep, CountedStep, AskedStep DEF HubInv
<1>. QED
  BY <1>1, <1>2, PTL DEF Spec

(* A token that a call goes out with has not run out at Docker Hub, however *)
(* long the login has taken and however often docker_pat changed.           *)
THEOREM KeptTokensAreAlive == Spec => []KeptIsAlive
<1>1. HubInv => Hub!KeptIsAlive
  BY PlatformAssumption
  DEF Hub!TimeAssumption, HubInv, HubTyped, Hub!TypeOK, Hub!Token, CountedFromBefore,
      Hub!KeptIsAlive, Hub!Kept
<1>2. (service = "hub" => HubInv) => KeptIsAlive
  BY <1>1 DEF KeptIsAlive
<1>. QED
  BY <1>2, HubInvariant, PTL

(* A new docker_pat reaches every worker within the life of a token,        *)
(* whether or not the PUT has restarted the deployment, unless the          *)
(* environment has credentials, which go before it.                         *)
THEOREM RotationsReach == Spec => []RotationReaches
<1>1. HubInv => Hub!RotationReaches
  BY PlatformAssumption
  DEF Hub!TimeAssumption, HubInv, HubTyped, Hub!TypeOK, Hub!Token, AskedBefore,
      Hub!RotationReaches, Hub!Kept
<1>2. (service = "hub" => HubInv) => RotationReaches
  BY <1>1 DEF RotationReaches
<1>. QED
  BY <1>2, HubInvariant, PTL

-----------------------------------------------------------------------------
(* The inductive invariant of the workspaces, for any requests and for      *)
(* those that do not overlap.                                               *)
THEOREM WsInvariant ==
    Spec => []((service \in {"crowd", "turns"} => WsInv) /\ (service = "turns" => WsSerialInv))
<1> USE PlatformAssumption
<1> DEFINE Held == (service \in {"crowd", "turns"} => WsInv) /\ (service = "turns" => WsSerialInv)
<1>1. Init => Held
  BY WsHoldsAtStart DEF Init, WsSerialInv
<1>2. ASSUME Held, [Next]_vars PROVE Held'
  <2>1. UNCHANGED service
    BY <1>2, SameService
  <2>2. ASSUME service \in {"crowd", "turns"} PROVE WsInv'
    BY <1>2, <2>2, WsRuns, TypeStep, UniqueStep DEF WsInv
  <2>3. ASSUME service = "turns" PROVE LoadedIsCurrent' /\ Ws!SlugFollowsName'
    <3>1. CASE UNCHANGED Ws!vars
      BY <1>2, <2>3, <3>1 DEF Ws!vars, Ws!localVars, WsSerialInv, LoadedIsCurrent, Ws!SlugFollowsName
    <3>2. CASE \E w \in Worker : Alone(w) /\ Ws!Act(w)
      BY <1>2, <2>3, <3>2, SerialStep
    <3>. QED
      BY <1>2, <2>3, <3>1, <3>2, WsRuns
  <2>. QED
    BY <2>1, <2>2, <2>3 DEF WsSerialInv
<1>. QED
  BY <1>1, <1>2, PTL DEF Spec

(* A user has no two workspaces of one name or one slug, however creations, *)
(* renames and deletions overlap: the columns refuse what the query for     *)
(* duplicates has not seen.                                                 *)
THEOREM NamesAreUnique == Spec => []OneLivePerName
<1>1. (service \in {"crowd", "turns"} => WsInv) => OneLivePerName
  BY DEF WsInv, UniqueColumns, Exists, OneLivePerName, Ws!OneLivePerName, Ws!Mine
<1>. QED
  BY <1>1, WsInvariant, PTL

(* Where requests do not overlap, the slug of a workspace is that of its    *)
(* name, though a rename only writes the columns that change.               *)
THEOREM SlugsFollow == Spec => []SlugFollowsName
<1>1. (service = "turns" => WsSerialInv) => SlugFollowsName
  BY DEF WsSerialInv, SlugFollowsName
<1>. QED
  BY <1>1, WsInvariant, PTL

-----------------------------------------------------------------------------
(* The types of the Configurator and of ConfigStore.                        *)
LEMMA TablesTyped ==
    Spec => [](/\ service = "seed"    => Seed!TypeOK
               /\ service = "columns" => Columns!TypeOK
               /\ service = "records" => Records!TypeOK
               /\ service = "values"  => Values!TypeOK)
<1> USE PlatformAssumption
<1>1. Spec => [](service = "seed" => Seed!TypeOK)
  <2>1. SeedP!Spec => []SeedP!TypeOK
    BY SeedSame, SeedP!TypeCorrect
  <2>2. service # "seed" \/ SeedP!TypeOK => (service = "seed" => Seed!TypeOK)
    BY SeedSame
  <2>. QED
    BY <2>1, <2>2, SeedRuns, PTL
<1>2. Spec => [](service = "columns" => Columns!TypeOK)
  <2>1. ColumnsP!Spec => []ColumnsP!TypeOK
    BY ColumnsSame, ColumnsP!TypeCorrect
  <2>2. service # "columns" \/ ColumnsP!TypeOK => (service = "columns" => Columns!TypeOK)
    BY ColumnsSame
  <2>. QED
    BY <2>1, <2>2, ColumnsRuns, PTL
<1>3. Spec => [](service = "records" => Records!TypeOK)
  <2>1. RecordsP!Spec => []RecordsP!TypeOK
    BY RecordsSame, RecordsP!TypeCorrect
  <2>2. service # "records" \/ RecordsP!TypeOK => (service = "records" => Records!TypeOK)
    BY RecordsSame
  <2>. QED
    BY <2>1, <2>2, RecordsRuns, PTL
<1>4. Spec => [](service = "values" => Values!TypeOK)
  <2>1. ValuesP!Spec => []ValuesP!TypeOK
    BY ValuesSame, ValuesP!TypeCorrect
  <2>2. service # "values" \/ ValuesP!TypeOK => (service = "values" => Values!TypeOK)
    BY ValuesSame
  <2>. QED
    BY <2>1, <2>2, ValuesSerial, ValuesRuns, PTL
<1>. QED
  BY <1>1, <1>2, <1>3, <1>4, PTL

(* What ConfigStore promises, of requests that do not overlap and name      *)
(* neither a namespace nor the references of another application.           *)
LEMMA ConfigSafe ==
    Spec => [](service = "config" =>
                  Config!TypeOK /\ Config!Backed /\ Config!EnvResolves /\ Config!EnvWhole)
<1>1. ConfigP!StoreNames
  BY PlatformAssumption, ConfigSame
<1>2. "namespace" \notin StoreRequests /\ "foreignRefs" \notin StoreRequests
  BY PlatformAssumption
<1>3. ConfigP!Spec => []ConfigP!TypeOK
  BY <1>1, ConfigP!TypeCorrect
<1>4. ConfigP!SerialSpec => []ConfigP!Backed
  BY <1>1, <1>2, ConfigP!ObjectsAreBacked
<1>5. ConfigP!SerialSpec => []ConfigP!EnvResolves
  BY <1>1, <1>2, ConfigP!MountsResolve
<1>6. ConfigP!SerialSpec => []ConfigP!EnvWhole
  BY <1>1, ConfigP!MountsAreWhole
<1>7. \/ service # "config"
      \/ ConfigP!TypeOK /\ ConfigP!Backed /\ ConfigP!EnvResolves /\ ConfigP!EnvWhole
      => (service = "config" =>
             Config!TypeOK /\ Config!Backed /\ Config!EnvResolves /\ Config!EnvWhole)
  BY ConfigSame
<1>. QED
  BY <1>3, <1>4, <1>5, <1>6, <1>7, ConfigSerial, ConfigRuns, PTL

(* The types of every service, whatever the others are given.               *)
THEOREM TypeCorrect == Spec => []TypesOK
<1>1. /\ (service \in {"crowd", "turns"} => WsInv) /\ (service = "turns" => WsSerialInv)
      /\ service = "secrets" => SecretsInv
      /\ service = "hub"     => HubInv
      /\ service = "config"  =>
            Config!TypeOK /\ Config!Backed /\ Config!EnvResolves /\ Config!EnvWhole
      /\ /\ service = "seed"    => Seed!TypeOK
         /\ service = "columns" => Columns!TypeOK
         /\ service = "records" => Records!TypeOK
         /\ service = "values"  => Values!TypeOK
      => TypesOK
  BY DEF WsInv, SecretsInv, SecretsTyped, HubInv, HubTyped, TypesOK
<1>. QED
  BY <1>1, WsInvariant, SecretsInvariant, HubInvariant, ConfigSafe, TablesTyped, PTL

(* An object that upsert has written is never left behind by the deletion   *)
(* of its application.                                                      *)
THEOREM ObjectsAreBacked == Spec => []Backed
<1>1. (service = "config" =>
          Config!TypeOK /\ Config!Backed /\ Config!EnvResolves /\ Config!EnvWhole) => Backed
  BY DEF Backed
<1>. QED
  BY <1>1, ConfigSafe, PTL

(* What a deployment has found and is about to mount is there still.        *)
THEOREM MountsResolve == Spec => []EnvResolves
<1>1. (service = "config" =>
          Config!TypeOK /\ Config!Backed /\ Config!EnvResolves /\ Config!EnvWhole)
      => EnvResolves
  BY DEF EnvResolves
<1>. QED
  BY <1>1, ConfigSafe, PTL

(* A scoop mounts all that it asked for and that exists, or nothing.        *)
THEOREM MountsAreWhole == Spec => []EnvWhole
<1>1. (service = "config" =>
          Config!TypeOK /\ Config!Backed /\ Config!EnvResolves /\ Config!EnvWhole) => EnvWhole
  BY DEF EnvWhole
<1>. QED
  BY <1>1, ConfigSafe, PTL

-----------------------------------------------------------------------------
(* No column and no record is left of a schema that is gone, however its    *)
(* deletion and the requests for its rows overlap.                          *)
THEOREM RowsReferToSchemas == Spec => []RowsRefer
<1> USE PlatformAssumption
<1>1. Spec => [](service = "columns" => Columns!RowsRefer)
  <2>1. ColumnsP!Spec => []ColumnsP!RowsRefer
    BY ColumnsSame, ColumnsP!RowsReferToSchemas
  <2>2. service # "columns" \/ ColumnsP!RowsRefer => (service = "columns" => Columns!RowsRefer)
    BY ColumnsSame
  <2>. QED
    BY <2>1, <2>2, ColumnsRuns, PTL
<1>2. Spec => [](service = "records" => Records!RowsRefer)
  <2>1. RecordsP!Spec => []RecordsP!RowsRefer
    BY RecordsSame, RecordsP!RowsReferToSchemas
  <2>2. service # "records" \/ RecordsP!RowsRefer => (service = "records" => Records!RowsRefer)
    BY RecordsSame
  <2>. QED
    BY <2>1, <2>2, RecordsRuns, PTL
<1>3. (service = "columns" => Columns!RowsRefer) /\ (service = "records" => Records!RowsRefer)
      => RowsRefer
  BY DEF RowsRefer
<1>. QED
  BY <1>1, <1>2, <1>3, PTL

(* A record fits the columns of its schema when it is stored: any workers   *)
(* while no column is written, and requests for both that do not overlap.   *)
THEOREM StoredRecordsFit == Spec => FitsWhenStored
<1> USE PlatformAssumption
<1>1. Spec => [](service # "records") \/ [][RecordsP!FitsWhenStored]_(RecordsP!vars)
  <2>1. RecordsP!ConfiguratorAssumption
    BY RecordsSame
  <2>2. RecordsP!Spec => [][RecordsP!FitsWhenStored]_(RecordsP!vars)
    BY <2>1, RecordsP!StoredRecordsFit
  <2>. QED
    BY <2>2, RecordsRuns, PTL
<1>2. Spec => [](service # "values") \/ [][ValuesP!FitsWhenStored]_(ValuesP!vars)
  <2>1. ValuesP!ConfiguratorAssumption
    BY ValuesSame
  <2>2. ValuesP!SerialSpec => [][ValuesP!FitsWhenStored]_(ValuesP!vars)
    BY <2>1, ValuesP!SerialRecordsFit
  <2>. QED
    BY <2>2, ValuesRuns, PTL
<1>3. /\ service # "records" \/ [RecordsP!FitsWhenStored]_(RecordsP!vars)
      /\ service # "values" \/ [ValuesP!FitsWhenStored]_(ValuesP!vars)
      => [/\ service = "records" => Records!FitsWhenStored
          /\ service = "values"  => Values!FitsWhenStored]_vars
  <2>1. UNCHANGED RecordsP!vars => Records!FitsWhenStored
    BY RecordsSame DEF RecordsP!vars, RecordsP!rowVars, RecordsP!FitsWhenStored
  <2>2. UNCHANGED ValuesP!vars => Values!FitsWhenStored
    BY ValuesSame DEF ValuesP!vars, ValuesP!rowVars, ValuesP!FitsWhenStored
  <2>. QED
    BY <2>1, <2>2, RecordsSame, ValuesSame
<1>. QED
  BY <1>1, <1>2, <1>3, PTL DEF FitsWhenStored

-----------------------------------------------------------------------------
(* A search value with a star at its ends stands for any text there, for    *)
(* values and patterns of any length.                                       *)
THEOREM SearchesAreGlobs == Spec => []MatchesIsGlob
<1>1. SeedP!Search!Spec => []SeedP!Search!MatchesIsGlob
  BY PlatformAssumption, SearchSame, SeedP!SearchesAreGlobs
<1>2. service # "search" \/ SeedP!Search!MatchesIsGlob => MatchesIsGlob
  BY SearchSame DEF MatchesIsGlob
<1>. QED
  BY <1>1, <1>2, SearchRuns, PTL

(* The pages of a search have every record and each once, and those of a    *)
(* listing every record that ties with no other, for any number of records, *)
(* any page size and any order of those that tie.                           *)
THEOREM PagesArePartitions == Spec => []PagesPartition
<1>1. SeedP!Search!Spec => []SeedP!Search!PagesPartition
  BY PlatformAssumption, SearchSame, SeedP!PagesArePartitions
<1>2. service # "search" \/ SeedP!Search!PagesPartition => PagesPartition
  BY SearchSame DEF PagesPartition
<1>. QED
  BY <1>1, <1>2, SearchRuns, PTL

=============================================================================
