-------------------------- MODULE ConfigStore_proofs --------------------------
(***************************************************************************)
(* Safety of ConfigStore for every set of applications, scoops and names:   *)
(* the types for any number of workers and, where requests do not overlap,  *)
(* whose the objects are and what a workload mounts.                        *)
(***************************************************************************)
EXTENDS ConfigStore, TLAPS

UpsertSteps == {"space", "create", "replace"}
DeleteSteps == {"deleteSpace", "dropApp"}
ReadSteps   == {"deploySpace", "read"}
DeploySteps == ReadSteps \cup {"apply"}

(* Where a handler writes: a deploy has a namespace only.                   *)
Place == [name : Object \cup {None}, ns : Namespace]

(* A handler serves an application or a scoop, and knows where it writes.   *)
Serving(w) ==
    /\ pc[w] \in UpsertSteps => subject[w] \in App /\ at[w] \in Ref
    /\ pc[w] \in DeleteSteps => subject[w] \in App
    /\ pc[w] \in DeploySteps =>
          /\ subject[w] \in Scoop
          /\ at[w] \in Place /\ at[w].ns = AppOf[subject[w]]
    /\ pc[w] \in ReadSteps => todo[w] # {}
    /\ todo[w] \subseteq asked[w]

LocalsTyped ==
    /\ pc \in [Worker -> Steps]
    /\ subject \in [Worker -> App \cup Scoop \cup {None}]
    /\ at \in [Worker -> Place \cup {Nowhere}]
    /\ asked \in [Worker -> SUBSET Ref]
    /\ todo \in [Worker -> SUBSET Ref]
    /\ found \in [Worker -> SUBSET Object]
    /\ \A w \in Worker : Serving(w)

ClusterTyped ==
    /\ app \in [App -> {"none", "live", "gone"}]
    /\ spared \subseteq App
    /\ spaces \subseteq App
    /\ store \in [Namespace -> [Object -> App \cup {None}]]
    /\ env \in [Scoop -> SUBSET Object]

Typed == ClusterTyped /\ LocalsTyped

(* An application that is there, or that has gone without its namespace.    *)
Answered(a) ==
    \/ app[a] = "live"
    \/ app[a] = "gone" /\ a \in spared

(* An object is in the namespace of the application it bears the label of;  *)
(* what an upsert writes will be.  The application is there, or is the      *)
(* excuse: its namespace was empty or spared before its row went.           *)
Owned ==
    /\ \A n \in Namespace : \A x \in Held(n) : store[n][x] = n /\ n \in App /\ Answered(n)
    /\ \A w \in Worker :
          /\ pc[w] \in UpsertSteps => app[subject[w]] = "live" /\ at[w].ns = subject[w]
          /\ pc[w] \in DeleteSteps => app[subject[w]] = "live"
          /\ pc[w] = "dropApp" => Held(subject[w]) = {} \/ subject[w] \in spared

(* A deploy asks for objects of the namespace of the application only, and  *)
(* what it has found is there.                                              *)
FoundIsHeld ==
    \A w \in Worker :
       /\ pc[w] \in DeploySteps => \A r \in asked[w] : r.ns = at[w].ns
       /\ pc[w] \in DeploySteps => found[w] \subseteq Held(at[w].ns)

(* What a deploy has found so far is what there is of what it has read.     *)
FoundOf(refs) == {r.name : r \in {q \in refs : q.name \in Held(q.ns)}}

FoundSoFar ==
    \A w \in Worker :
       /\ pc[w] \in ReadSteps => found[w] = FoundOf(asked[w] \ todo[w])
       /\ pc[w] = "apply" => found[w] \in {{}, FoundOf(asked[w])}

-----------------------------------------------------------------------------
(* There is nothing in the cluster in the initial state.                    *)
LEMMA HoldsAtStart ==
    ASSUME StoreNames
    PROVE  Init => Typed /\ Owned /\ FoundIsHeld /\ FoundSoFar
<1> SUFFICES ASSUME Init PROVE Typed /\ Owned /\ FoundIsHeld /\ FoundSoFar
  OBVIOUS
<1> USE DEF Init, UpsertSteps, DeleteSteps, ReadSteps, DeploySteps
<1>1. ClusterTyped
  BY DEF ClusterTyped
<1>2. LocalsTyped
  BY DEF LocalsTyped, Serving, Steps
<1>3. \A n \in Namespace : Held(n) = {}
  BY DEF Held
<1>. QED
  BY <1>1, <1>2, <1>3 DEF Typed, Owned, FoundIsHeld, FoundSoFar

(* Places and references are pairs of a name and a namespace.               *)
LEMMA Constants ==
    ASSUME StoreNames
    PROVE  /\ Ref \subseteq Place
           /\ App \subseteq Namespace /\ App \subseteq Object
           /\ \A a \in App : Places(a) \subseteq Ref
           /\ \A s \in Scoop : AppOf[s] \in App
           /\ \A s \in Scoop : [name |-> None, ns |-> AppOf[s]] \in Place
           /\ \A s \in Scoop : \A refs \in RefChoices(s) :
                 Wanted(s, refs) \in SUBSET Ref /\ Wanted(s, refs) # {}
<1>1. App \subseteq Namespace /\ App \subseteq Object /\ Name \subseteq Object
  BY DEF Namespace, Object
<1>2. \A a \in App : Places(a) \subseteq Ref
  BY <1>1 DEF Places, Ref
<1>3. \A s \in Scoop : AppOf[s] \in App
  BY DEF StoreNames
<1>4. \A s \in Scoop : \A refs \in RefChoices(s) : refs \subseteq Ref
  BY <1>1, <1>3 DEF RefChoices, Ref
<1>5. \A s \in Scoop : [name |-> AppOf[s], ns |-> AppOf[s]] \in Ref
  BY <1>1, <1>3 DEF Ref
<1>6. Ref \subseteq Place /\ \A s \in Scoop : [name |-> None, ns |-> AppOf[s]] \in Place
  BY <1>1, <1>3 DEF Ref, Place
<1>. QED
  BY <1>1, <1>2, <1>3, <1>4, <1>5, <1>6 DEF Wanted

(* What the answer to a request leaves of its worker.                       *)
LEMMA ReturnTyped ==
    ASSUME StoreNames, LocalsTyped, NEW w \in Worker, Return(w)
    PROVE  LocalsTyped' /\ pc'[w] = "idle" /\ \A v \in Worker : v # w => pc'[v] = pc[v]
<1>1. /\ pc' \in [Worker -> Steps]
      /\ subject' \in [Worker -> App \cup Scoop \cup {None}]
      /\ at' \in [Worker -> Place \cup {Nowhere}]
      /\ asked' \in [Worker -> SUBSET Ref]
      /\ todo' \in [Worker -> SUBSET Ref]
      /\ found' \in [Worker -> SUBSET Object]
  BY DEF LocalsTyped, Return, Goto, Steps
<1>2. pc'[w] = "idle" /\ todo'[w] = {}
  BY DEF LocalsTyped, Return, Goto
<1>3. Serving(w)'
  BY <1>2 DEF Serving, UpsertSteps, DeleteSteps, ReadSteps, DeploySteps
<1>4. ASSUME NEW v \in Worker, v # w PROVE Serving(v)' /\ pc'[v] = pc[v]
  BY <1>4 DEF LocalsTyped, Return, Goto, Serving
<1>. QED
  BY <1>1, <1>2, <1>3, <1>4 DEF LocalsTyped

(* What the start of a request leaves of its worker.                        *)
LEMMA BeginTyped ==
    ASSUME StoreNames, LocalsTyped, NEW w \in Worker,
           NEW who \in App \cup Scoop, NEW place \in Place \cup {Nowhere},
           NEW refs \in SUBSET Ref, NEW names \in SUBSET Object, NEW step \in Steps,
           Begin(w, who, place, refs, names, step),
           step \in UpsertSteps => who \in App /\ place \in Ref,
           step \in DeleteSteps => who \in App,
           step \in DeploySteps =>
              who \in Scoop /\ place \in Place /\ place.ns = AppOf[who] /\ refs # {}
    PROVE  LocalsTyped'
<1>1. /\ pc' \in [Worker -> Steps]
      /\ subject' \in [Worker -> App \cup Scoop \cup {None}]
      /\ at' \in [Worker -> Place \cup {Nowhere}]
      /\ asked' \in [Worker -> SUBSET Ref]
      /\ todo' \in [Worker -> SUBSET Ref]
      /\ found' \in [Worker -> SUBSET Object]
  BY DEF LocalsTyped, Begin, Goto
<1>2. /\ pc'[w] = step /\ subject'[w] = who /\ at'[w] = place
      /\ asked'[w] = refs /\ todo'[w] = refs
  BY DEF LocalsTyped, Begin, Goto
<1>3. Serving(w)'
  BY <1>2 DEF Serving, DeploySteps
<1>4. ASSUME NEW v \in Worker, v # w PROVE Serving(v)'
  BY <1>4 DEF LocalsTyped, Begin, Goto, Serving
<1>. QED
  BY <1>1, <1>3, <1>4 DEF LocalsTyped

(* What a step within a request leaves of its worker.                       *)
LEMMA GotoTyped ==
    ASSUME StoreNames, LocalsTyped, NEW w \in Worker, NEW step \in Steps, Goto(w, step),
           UNCHANGED <<subject, at, asked>>,
           todo' \in [Worker -> SUBSET Ref], found' \in [Worker -> SUBSET Object],
           todo'[w] \subseteq todo[w], \A v \in Worker : v # w => todo'[v] = todo[v],
           \/ pc[w] \in UpsertSteps /\ step \in UpsertSteps
           \/ pc[w] \in DeleteSteps /\ step \in DeleteSteps
           \/ pc[w] \in DeploySteps /\ step \in DeploySteps,
           step \in ReadSteps => todo'[w] # {}
    PROVE  LocalsTyped'
<1>1. pc' \in [Worker -> Steps] /\ pc'[w] = step
  BY DEF LocalsTyped, Goto
<1>2. Serving(w)'
  BY <1>1 DEF LocalsTyped, Serving, UpsertSteps, DeleteSteps, ReadSteps, DeploySteps
<1>3. ASSUME NEW v \in Worker, v # w PROVE Serving(v)'
  BY <1>3 DEF LocalsTyped, Goto, Serving
<1>. QED
  BY <1>1, <1>2, <1>3 DEF LocalsTyped

(* Every step keeps the types.                                              *)
LEMMA TypedStep ==
    ASSUME StoreNames, Typed, [Next]_vars
    PROVE  Typed'
<1> USE Constants DEF Typed
<1>1. ASSUME NEW w \in Worker, UpsertSpace(w) PROVE Typed'
  <2>1. LocalsTyped'
    BY <1>1, GotoTyped
    DEF UpsertSpace, EnsureSpace, localVars, LocalsTyped, UpsertSteps, Steps, ReadSteps
  <2>. QED
    BY <1>1, <2>1 DEF UpsertSpace, EnsureSpace, ClusterTyped
<1>2. ASSUME NEW w \in Worker, CreateObject(w) PROVE Typed'
  <2>1. at[w] \in Ref /\ subject[w] \in App
    BY <1>2 DEF CreateObject, LocalsTyped, Serving, UpsertSteps
  <2>2. ClusterTyped'
    BY <1>2, <2>1 DEF CreateObject, ClusterTyped, Ref
  <2>3. CASE Return(w)
    BY <2>2, <2>3, ReturnTyped
  <2>4. CASE Goto(w, "replace") /\ UNCHANGED localVars
    BY <1>2, <2>2, <2>4, GotoTyped
    DEF CreateObject, localVars, LocalsTyped, UpsertSteps, Steps, ReadSteps
  <2>. QED
    BY <1>2, <2>3, <2>4 DEF CreateObject
<1>3. ASSUME NEW w \in Worker, ReplaceObject(w) PROVE Typed'
  <2>1. at[w] \in Ref /\ subject[w] \in App
    BY <1>3 DEF ReplaceObject, LocalsTyped, Serving, UpsertSteps
  <2>2. ClusterTyped'
    BY <1>3, <2>1 DEF ReplaceObject, ClusterTyped, Ref
  <2>. QED
    BY <1>3, <2>2, ReturnTyped DEF ReplaceObject
<1>4. ASSUME NEW w \in Worker, DeleteSpace(w) PROVE Typed'
  <2>1. subject[w] \in App
    BY <1>4 DEF DeleteSpace, LocalsTyped, Serving, DeleteSteps
  <2>2. /\ spaces' \subseteq spaces /\ spared' \subseteq spared \cup {subject[w]}
        /\ app' = app
    BY <1>4 DEF DeleteSpace
  <2>3. store' \in [Namespace -> [Object -> App \cup {None}]]
    BY <1>4, <2>1 DEF DeleteSpace, ClusterTyped
  <2>4. env' \in [Scoop -> SUBSET Object]
    BY <1>4 DEF DeleteSpace, ClusterTyped
  <2>5. ClusterTyped'
    BY <2>1, <2>2, <2>3, <2>4 DEF ClusterTyped
  <2>. QED
    BY <1>4, <2>5, GotoTyped
    DEF DeleteSpace, localVars, LocalsTyped, DeleteSteps, Steps, ReadSteps
<1>5. ASSUME NEW w \in Worker, DropApp(w) PROVE Typed'
  <2>1. ClusterTyped'
    BY <1>5 DEF DropApp, ClusterTyped
  <2>. QED
    BY <1>5, <2>1, ReturnTyped DEF DropApp
<1>6. ASSUME NEW w \in Worker, DeploySpace(w) PROVE Typed'
  <2>1. todo[w] # {}
    BY <1>6 DEF DeploySpace, LocalsTyped, Serving, ReadSteps
  <2>2. LocalsTyped'
    BY <1>6, <2>1, GotoTyped
    DEF DeploySpace, EnsureSpace, localVars, LocalsTyped, DeploySteps, Steps, ReadSteps
  <2>. QED
    BY <1>6, <2>2 DEF DeploySpace, EnsureSpace, ClusterTyped
<1>7. ASSUME NEW w \in Worker, ReadRef(w) PROVE Typed'
  <2>1. PICK r \in todo[w] :
           /\ todo'  = [todo EXCEPT ![w] = @ \ {r}]
           /\ found' = [found EXCEPT ![w] =
                           @ \cup (IF r.name \in Held(r.ns) THEN {r.name} ELSE {})]
           /\ Goto(w, IF todo[w] = {r} THEN "apply" ELSE "read")
    BY <1>7 DEF ReadRef
  <2>2. /\ todo' \in [Worker -> SUBSET Ref] /\ found' \in [Worker -> SUBSET Object]
        /\ todo'[w] = todo[w] \ {r} /\ \A v \in Worker : v # w => todo'[v] = todo[v]
    BY <2>1 DEF LocalsTyped, Held
  <2>3. LocalsTyped'
    <3>1. CASE todo[w] = {r}
      BY <1>7, <2>1, <2>2, <3>1, GotoTyped DEF ReadRef, DeploySteps, ReadSteps, Steps
    <3>2. CASE todo[w] # {r}
      BY <1>7, <2>1, <2>2, <3>2, GotoTyped DEF ReadRef, DeploySteps, ReadSteps, Steps
    <3>. QED
      BY <3>1, <3>2
  <2>. QED
    BY <1>7, <2>3 DEF ReadRef, ClusterTyped
<1>8. ASSUME NEW w \in Worker, ReadFails(w) PROVE Typed'
  <2>1. /\ todo' \in [Worker -> SUBSET Ref] /\ found' \in [Worker -> SUBSET Object]
        /\ todo'[w] = {} /\ \A v \in Worker : v # w => todo'[v] = todo[v]
    BY <1>8 DEF ReadFails, LocalsTyped
  <2>2. LocalsTyped'
    BY <1>8, <2>1, GotoTyped DEF ReadFails, DeploySteps, ReadSteps, Steps
  <2>. QED
    BY <1>8, <2>2 DEF ReadFails, ClusterTyped
<1>9. ASSUME NEW w \in Worker, Apply(w) PROVE Typed'
  <2>1. found[w] \in SUBSET Object
    BY DEF LocalsTyped
  <2>2. ClusterTyped'
    BY <1>9, <2>1 DEF Apply, Mounts, ClusterTyped
  <2>. QED
    BY <1>9, <2>2, ReturnTyped DEF Apply
<1>10. ASSUME NEW w \in Worker, Crash(w) PROVE Typed'
  BY <1>10, ReturnTyped DEF Crash, ClusterTyped
<1>11. ASSUME NEW w \in Worker, NEW a \in App, CreateApp(w, a) PROVE Typed'
  <2>1. LocalsTyped'
    BY <1>11 DEF CreateApp, localVars, LocalsTyped, Serving
  <2>. QED
    BY <1>11, <2>1 DEF CreateApp, ClusterTyped
<1>12. ASSUME NEW w \in Worker, NEW a \in App, BeginDeleteApp(w, a) PROVE Typed'
  <2>1. Begin(w, a, Nowhere, {}, Selected(a), "deleteSpace") /\ Selected(a) \in SUBSET Object
    BY <1>12 DEF BeginDeleteApp, Selected, Held
  <2>2. LocalsTyped'
    BY <2>1, BeginTyped DEF Steps, UpsertSteps, DeleteSteps, ReadSteps, DeploySteps
  <2>. QED
    BY <2>1, <2>2 DEF Begin, ClusterTyped
<1>13. ASSUME NEW w \in Worker, NEW a \in App, NEW p \in Places(a), BeginUpsert(w, a, p)
       PROVE  Typed'
  <2>1. p \in Ref /\ Begin(w, a, p, {}, {}, "space")
    BY <1>13 DEF BeginUpsert
  <2>2. LocalsTyped'
    BY <2>1, BeginTyped DEF Steps, UpsertSteps, DeleteSteps, ReadSteps, DeploySteps
  <2>. QED
    BY <2>1, <2>2 DEF Begin, ClusterTyped
<1>14. ASSUME NEW w \in Worker, NEW n \in Namespace, NEW x \in Object, DeleteObject(w, n, x)
       PROVE  Typed'
  <2>1. LocalsTyped'
    BY <1>14 DEF DeleteObject, localVars, LocalsTyped, Serving
  <2>. QED
    BY <1>14, <2>1 DEF DeleteObject, ClusterTyped
<1>15. ASSUME NEW w \in Worker, NEW s \in Scoop, NEW refs \in RefChoices(s),
              BeginDeploy(w, s, refs)
       PROVE  Typed'
  <2> DEFINE place == [name |-> None, ns |-> AppOf[s]]
  <2>1. /\ Begin(w, s, place, Wanted(s, refs), {}, "deploySpace")
        /\ place \in Place /\ place.ns = AppOf[s]
        /\ Wanted(s, refs) \in SUBSET Ref /\ Wanted(s, refs) # {}
    BY <1>15 DEF BeginDeploy
  <2>2. LocalsTyped'
    <3>. HIDE DEF place
    <3>. QED
      BY <2>1, BeginTyped DEF Steps, UpsertSteps, DeleteSteps, ReadSteps, DeploySteps
  <2>. QED
    BY <2>1, <2>2 DEF Begin, ClusterTyped
<1>16. CASE UNCHANGED vars
  BY <1>16 DEF vars, localVars, ClusterTyped, LocalsTyped, Serving
<1>. QED
  BY <1>1, <1>2, <1>3, <1>4, <1>5, <1>6, <1>7, <1>8, <1>9, <1>10, <1>11, <1>12, <1>13,
     <1>14, <1>15, <1>16 DEF Next, Act

(* What is served, and where, of a worker that is not idle.                 *)
LEMMA Served ==
    ASSUME StoreNames, Typed, NEW w \in Worker
    PROVE  /\ pc[w] \in UpsertSteps =>
                 subject[w] \in App /\ at[w].ns \in Namespace /\ at[w].name \in Object
           /\ pc[w] \in DeleteSteps => subject[w] \in App /\ subject[w] \in Namespace
           /\ pc[w] \in DeploySteps => subject[w] \in Scoop /\ at[w].ns \in Namespace
BY Constants DEF Typed, LocalsTyped, Serving, Ref, Place

(* A step while the others are idle is a step.                              *)
LEMMA SerialIsNext == [SerialNext]_vars => [Next]_vars
BY DEF SerialNext, Next

(* An upsert writes where its application is, and the row of an application *)
(* goes after its namespace, with no other request in between.              *)
LEMMA OwnedStep ==
    ASSUME StoreNames, "namespace" \notin Requests, Typed, Owned, [SerialNext]_vars
    PROVE  Owned'
<1> USE Served, Constants
    DEF Alone, Typed, ClusterTyped, Owned, Answered, Held, UpsertSteps, DeleteSteps,
        localVars
<1>1. ASSUME NEW w \in Worker, Alone(w), UpsertSpace(w) PROVE Owned'
  BY <1>1 DEF UpsertSpace, EnsureSpace, Goto, LocalsTyped
<1>2. ASSUME NEW w \in Worker, Alone(w), CreateObject(w) PROVE Owned'
  <2>1. /\ pc[w] = "create" /\ app' = app /\ spared' = spared
        /\ app[subject[w]] = "live" /\ at[w].ns = subject[w]
        /\ subject[w] \in Namespace /\ at[w].name \in Object
    BY <1>2 DEF CreateObject
  <2>2. CASE Goto(w, "replace") /\ UNCHANGED <<store, localVars>>
    BY <2>1, <2>2 DEF Goto, LocalsTyped
  <2>3. CASE /\ Return(w)
             /\ store' \in {store, [store EXCEPT ![subject[w]][at[w].name] = subject[w]]}
    <3>1. \A v \in Worker : pc'[v] = "idle"
      BY <1>2, <2>3 DEF Return, Goto, LocalsTyped
    <3>2. \A n \in Namespace : \A x \in Held(n)' :
             store'[n][x] = n /\ n \in App /\ Answered(n)'
      <4>1. CASE store' = store
        BY <2>1, <4>1
      <4>2. CASE store' = [store EXCEPT ![subject[w]][at[w].name] = subject[w]]
        <5>1. \A n \in Namespace, x \in Object :
                 store'[n][x] = IF n = subject[w] /\ x = at[w].name THEN n ELSE store[n][x]
          BY <2>1, <4>2
        <5>2. subject[w] \in App
          BY <2>1
        <5>. QED
          BY <2>1, <5>1, <5>2
      <4>. QED
        BY <2>3, <4>1, <4>2
    <3>. QED
      BY <3>1, <3>2
  <2>. QED
    BY <1>2, <2>1, <2>2, <2>3 DEF CreateObject
<1>3. ASSUME NEW w \in Worker, Alone(w), ReplaceObject(w) PROVE Owned'
  BY <1>3 DEF ReplaceObject, Return, Goto, LocalsTyped
<1>4. ASSUME NEW w \in Worker, Alone(w), DeleteSpace(w) PROVE Owned'
  <2>1. /\ pc[w] = "deleteSpace" /\ subject[w] \in App /\ subject[w] \in Namespace
        /\ app[subject[w]] = "live" /\ app' = app
        /\ pc'[w] = "dropApp" /\ subject' = subject /\ at' = at
        /\ \A v \in Worker : v # w => pc'[v] = "idle"
    BY <1>4 DEF DeleteSpace, Goto, LocalsTyped
  <2>2. CASE /\ store' = [store EXCEPT ![subject[w]] = [x \in Object |-> None]]
             /\ spared' = spared \ {subject[w]}
    <3>1. \A n \in Namespace, x \in Object :
             store'[n][x] = IF n = subject[w] THEN None ELSE store[n][x]
      BY <2>1, <2>2
    <3>. QED
      BY <2>1, <2>2, <3>1
  <2>3. CASE UNCHANGED store /\ spared' = spared \cup {subject[w]}
    BY <2>1, <2>3
  <2>. QED
    BY <1>4, <2>2, <2>3 DEF DeleteSpace
<1>5. ASSUME NEW w \in Worker, Alone(w), DropApp(w) PROVE Owned'
  BY <1>5 DEF DropApp, Return, Goto, LocalsTyped
<1>6. ASSUME NEW w \in Worker, Alone(w),
             DeploySpace(w) \/ ReadRef(w) \/ ReadFails(w) \/ Apply(w) \/ Crash(w)
      PROVE  Owned'
  BY <1>6 DEF DeploySpace, EnsureSpace, ReadRef, ReadFails, Apply, Crash, Return, Goto,
              LocalsTyped
<1>7. ASSUME NEW w \in Worker, Alone(w), NEW a \in App, CreateApp(w, a) PROVE Owned'
  BY <1>7 DEF CreateApp
<1>8. ASSUME NEW w \in Worker, Alone(w), NEW a \in App, BeginDeleteApp(w, a) PROVE Owned'
  BY <1>8 DEF BeginDeleteApp, Begin, Goto, LocalsTyped
<1>9. ASSUME NEW w \in Worker, Alone(w), NEW a \in App,
             NEW p \in Places(a), BeginUpsert(w, a, p)
      PROVE  Owned'
  BY <1>9 DEF BeginUpsert, Begin, Places, Goto, LocalsTyped
<1>10. ASSUME NEW w \in Worker, Alone(w), NEW n \in Namespace,
             NEW x \in Object, DeleteObject(w, n, x)
       PROVE  Owned'
  BY <1>10 DEF DeleteObject
<1>11. ASSUME NEW w \in Worker, Alone(w), NEW s \in Scoop, NEW refs \in RefChoices(s),
              BeginDeploy(w, s, refs)
       PROVE  Owned'
  BY <1>11 DEF BeginDeploy, Begin, Goto, LocalsTyped
<1>12. CASE UNCHANGED vars
  BY <1>12 DEF vars
<1>. QED
  BY <1>1, <1>2, <1>3, <1>4, <1>5, <1>6, <1>7, <1>8, <1>9, <1>10, <1>11, <1>12 DEF SerialNext, Act

(* The references of a scoop are in its namespace, which is not deleted     *)
(* while they are read, nor is what has been found in it.                   *)
LEMMA FoundIsHeldStep ==
    ASSUME StoreNames, "foreignRefs" \notin Requests, Typed, FoundIsHeld,
           [SerialNext]_vars
    PROVE  FoundIsHeld'
<1> USE Served DEF Alone, Typed, FoundIsHeld, Held, ReadSteps, DeploySteps, localVars
<1>1. ASSUME NEW w \in Worker, Alone(w),
             UpsertSpace(w) \/ CreateObject(w) \/ ReplaceObject(w) \/ DeleteSpace(w)
             \/ DropApp(w) \/ Apply(w) \/ Crash(w)
      PROVE  FoundIsHeld'
  BY <1>1 DEF UpsertSpace, EnsureSpace, CreateObject, ReplaceObject, DeleteSpace, DropApp,
              Apply, Crash, Return, Goto, LocalsTyped
<1>2. ASSUME NEW w \in Worker, Alone(w), DeploySpace(w) PROVE FoundIsHeld'
  BY <1>2 DEF DeploySpace, EnsureSpace, Goto, LocalsTyped
<1>3. ASSUME NEW w \in Worker, Alone(w), ReadRef(w) PROVE FoundIsHeld'
  BY <1>3 DEF ReadRef, Goto, LocalsTyped, Serving
<1>4. ASSUME NEW w \in Worker, Alone(w), ReadFails(w) PROVE FoundIsHeld'
  BY <1>4 DEF ReadFails, Goto, LocalsTyped
<1>5. ASSUME NEW w \in Worker, Alone(w), NEW a \in App, CreateApp(w, a) PROVE FoundIsHeld'
  BY <1>5 DEF CreateApp
<1>6. ASSUME NEW w \in Worker, Alone(w), NEW a \in App, BeginDeleteApp(w, a) PROVE FoundIsHeld'
  BY <1>6 DEF BeginDeleteApp, Begin, Goto, LocalsTyped
<1>7. ASSUME NEW w \in Worker, Alone(w), NEW a \in App,
             NEW p \in Places(a), BeginUpsert(w, a, p)
      PROVE  FoundIsHeld'
  BY <1>7 DEF BeginUpsert, Begin, Goto, LocalsTyped
<1>8. ASSUME NEW w \in Worker, Alone(w), NEW n \in Namespace,
             NEW x \in Object, DeleteObject(w, n, x)
      PROVE  FoundIsHeld'
  BY <1>8 DEF DeleteObject
<1>9. ASSUME NEW w \in Worker, Alone(w), NEW s \in Scoop, NEW refs \in RefChoices(s),
             BeginDeploy(w, s, refs)
      PROVE  FoundIsHeld'
  <2>1. \A r \in Wanted(s, refs) : r.ns = AppOf[s]
    BY DEF RefChoices, Wanted
  <2>. QED
    BY <1>9, <2>1 DEF BeginDeploy, Begin, Goto, LocalsTyped
<1>10. CASE UNCHANGED vars
  BY <1>10 DEF vars
<1>. QED
  BY <1>1, <1>2, <1>3, <1>4, <1>5, <1>6, <1>7, <1>8, <1>9, <1>10 DEF SerialNext, Act

(* A reference that is read is found if it is there, whatever the order in  *)
(* which they are read; a failure leaves nothing.                           *)
LEMMA FoundSoFarStep ==
    ASSUME StoreNames, Typed, FoundSoFar, [SerialNext]_vars
    PROVE  FoundSoFar'
<1> USE DEF Alone, Typed, FoundSoFar, ReadSteps, localVars
<1>1. ASSUME NEW w \in Worker, Alone(w),
             UpsertSpace(w) \/ CreateObject(w) \/ ReplaceObject(w) \/ DeleteSpace(w)
             \/ DropApp(w) \/ Apply(w) \/ Crash(w)
      PROVE  FoundSoFar'
  BY <1>1 DEF UpsertSpace, EnsureSpace, CreateObject, ReplaceObject, DeleteSpace, DropApp,
              Apply, Crash, Return, Goto, LocalsTyped
<1>2. ASSUME NEW w \in Worker, Alone(w), DeploySpace(w) PROVE FoundSoFar'
  BY <1>2 DEF DeploySpace, EnsureSpace, Goto, LocalsTyped, FoundOf, Held
<1>3. ASSUME NEW w \in Worker, Alone(w), ReadRef(w) PROVE FoundSoFar'
  <2>1. PICK r \in todo[w] :
           /\ todo'[w] = todo[w] \ {r}
           /\ found'[w] = found[w] \cup (IF r.name \in Held(r.ns) THEN {r.name} ELSE {})
           /\ pc'[w] = IF todo[w] = {r} THEN "apply" ELSE "read"
    BY <1>3 DEF ReadRef, Goto, LocalsTyped
  <2>2. /\ found[w] = FoundOf(asked[w] \ todo[w])
        /\ todo[w] \subseteq asked[w] /\ asked' = asked /\ store' = store
    BY <1>3 DEF ReadRef, LocalsTyped, Serving
  <2>3. found'[w] = FoundOf(asked[w] \ todo'[w])
    <3>1. asked[w] \ todo'[w] = (asked[w] \ todo[w]) \cup {r}
      BY <2>1, <2>2
    <3>2. FoundOf((asked[w] \ todo[w]) \cup {r})
             = FoundOf(asked[w] \ todo[w])
               \cup (IF r.name \in Held(r.ns) THEN {r.name} ELSE {})
      BY DEF FoundOf
    <3>. QED
      BY <2>1, <2>2, <3>1, <3>2
  <2>4. \A refs : FoundOf(refs)' = FoundOf(refs)
    BY <2>2 DEF FoundOf, Held
  <2>5. todo[w] = {r} => asked[w] \ todo'[w] = asked[w]
    BY <2>1
  <2>6. \A v \in Worker \ {w} : pc'[v] = "idle"
    BY <1>3 DEF ReadRef, Goto, LocalsTyped
  <2>. QED
    BY <2>1, <2>2, <2>3, <2>4, <2>5, <2>6
<1>4. ASSUME NEW w \in Worker, Alone(w), ReadFails(w) PROVE FoundSoFar'
  BY <1>4 DEF ReadFails, Goto, LocalsTyped
<1>5. ASSUME NEW w \in Worker, Alone(w), NEW a \in App, CreateApp(w, a) PROVE FoundSoFar'
  BY <1>5 DEF CreateApp
<1>6. ASSUME NEW w \in Worker, Alone(w), NEW a \in App, BeginDeleteApp(w, a) PROVE FoundSoFar'
  BY <1>6 DEF BeginDeleteApp, Begin, Goto, LocalsTyped
<1>7. ASSUME NEW w \in Worker, Alone(w), NEW a \in App,
             NEW p \in Places(a), BeginUpsert(w, a, p)
      PROVE  FoundSoFar'
  BY <1>7 DEF BeginUpsert, Begin, Goto, LocalsTyped
<1>8. ASSUME NEW w \in Worker, Alone(w), NEW n \in Namespace,
             NEW x \in Object, DeleteObject(w, n, x)
      PROVE  FoundSoFar'
  BY <1>8 DEF DeleteObject
<1>9. ASSUME NEW w \in Worker, Alone(w), NEW s \in Scoop, NEW refs \in RefChoices(s),
             BeginDeploy(w, s, refs)
      PROVE  FoundSoFar'
  BY <1>9 DEF BeginDeploy, Begin, Goto, LocalsTyped, FoundOf
<1>10. CASE UNCHANGED vars
  BY <1>10 DEF vars, FoundOf, Held
<1>. QED
  BY <1>1, <1>2, <1>3, <1>4, <1>5, <1>6, <1>7, <1>8, <1>9, <1>10 DEF SerialNext, Act

-----------------------------------------------------------------------------
(* The types, which no overlap of requests disturbs.                        *)
THEOREM Invariant == ASSUME StoreNames PROVE Spec => []Typed
<1>1. Init => Typed
  BY HoldsAtStart
<1>2. Typed /\ [Next]_vars => Typed'
  BY TypedStep
<1>. QED
  BY <1>1, <1>2, PTL DEF Spec

(* Every variable keeps its type, what is still to be looked up was asked   *)
(* for, and a deploy never waits for a reading that has ended.              *)
THEOREM TypeCorrect == ASSUME StoreNames PROVE Spec => []TypeOK
<1>1. Typed => TypeOK
  BY DEF Typed, ClusterTyped, LocalsTyped, Serving, TypeOK, Place, ReadSteps
<1>. QED
  BY <1>1, Invariant, PTL

(* Where requests do not overlap and none names the namespace of another    *)
(* application, no ConfigMap or Secret outlives its application but where   *)
(* the cluster refused to remove the namespace, whichever steps of the      *)
(* deletion a crash leaves out.                                             *)
THEOREM ObjectsAreBacked ==
    ASSUME StoreNames, "namespace" \notin Requests
    PROVE  SerialSpec => []Backed
<1>1. Init => Typed /\ Owned
  BY HoldsAtStart
<1>2. Typed /\ Owned /\ [SerialNext]_vars => (Typed /\ Owned)'
  BY TypedStep, SerialIsNext, OwnedStep
<1>3. Typed /\ Owned => Backed
  BY DEF Owned, Answered, Backed
<1>. QED
  BY <1>1, <1>2, <1>3, PTL DEF SerialSpec

(* Where requests do not overlap and references stay within the namespace   *)
(* of the application, a workload mounts nothing that is not there.         *)
THEOREM MountsResolve ==
    ASSUME StoreNames, "foreignRefs" \notin Requests
    PROVE  SerialSpec => []EnvResolves
<1>1. Init => Typed /\ FoundIsHeld
  BY HoldsAtStart
<1>2. Typed /\ FoundIsHeld /\ [SerialNext]_vars => (Typed /\ FoundIsHeld)'
  BY TypedStep, SerialIsNext, FoundIsHeldStep
<1>3. Typed /\ FoundIsHeld => EnvResolves
  BY DEF FoundIsHeld, EnvResolves, Mounts, DeploySteps
<1>. QED
  BY <1>1, <1>2, <1>3, PTL DEF SerialSpec

(* Where requests do not overlap, a workload mounts all it asked for that   *)
(* is there or nothing, in whichever order the references are read and      *)
(* whichever namespaces they are in.                                        *)
THEOREM MountsAreWhole ==
    ASSUME StoreNames
    PROVE  SerialSpec => []EnvWhole
<1>1. Init => Typed /\ FoundSoFar
  BY HoldsAtStart
<1>2. Typed /\ FoundSoFar /\ [SerialNext]_vars => (Typed /\ FoundSoFar)'
  BY TypedStep, SerialIsNext, FoundSoFarStep
<1>3. Typed /\ FoundSoFar => EnvWhole
  BY DEF FoundSoFar, FoundOf, EnvWhole
<1>. QED
  BY <1>1, <1>2, <1>3, PTL DEF SerialSpec

=============================================================================
