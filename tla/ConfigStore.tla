------------------------------ MODULE ConfigStore ----------------------------
(***************************************************************************)
(* ConfigMaps and Secrets of applications (app/modules/configstore), what  *)
(* the deletion of an application does with them (apps/service.py), and    *)
(* how the manifest of a scoop mounts them (scoops/manifest.py): nothing   *)
(* of them is in the database, only names, namespaces and one label.       *)
(*                                                                         *)
(* The code has each operation twice, for ConfigMaps and for Secrets; here *)
(* an object is one or the other, and an application has one object whose  *)
(* name the convention gives it.  The namespace of an application is the   *)
(* application itself, and so is the conventional name of its object.      *)
(***************************************************************************)
CONSTANTS
    Worker,     \* gunicorn worker processes
    App,        \* applications, each created once
    Name,       \* names of objects a request may choose
    Default,    \* a namespace that belongs to no application
    None,       \* no application
    Scoop,      \* scoops, always in the namespace of their application
    AppOf,      \* AppOf[s]: the application of scoop s
    Cronjobs,   \* the scoops of type cronjob
    Requests    \* what clients ask for, beyond the conventional names

(* Assumed by the modules that instantiate this one.                        *)
StoreNames ==
    /\ None \notin App \cup Name \cup {Default} \cup Scoop
    /\ AppOf \in [Scoop -> App]
    /\ Cronjobs \subseteq Scoop
    /\ Requests \subseteq {"name", "namespace", "refs", "foreignRefs", "readsFail"}

Namespace == App \cup {Default}
Object    == App \cup Name
Ref       == [name : Object, ns : Namespace]

VARIABLES
    app,     \* app[a]: the row of application a
    spared,  \* history: the applications whose deletion has left their namespace
    spaces,  \* the namespaces of applications in the cluster
    store,   \* store[n][x]: the label of object x of namespace n, None if none
    env,     \* env[s]: what the workload of s mounts, as applied last
    pc,      \* pc[w]: the step of the handler worker w is about to run
    subject, \* subject[w]: the application or the scoop it serves
    at,      \* at[w]: the object it writes
    asked,   \* asked[w]: the references it is to look up
    todo,    \* todo[w]: those it has still to look up
    found    \* found[w]: names it has listed or found

localVars == <<subject, at, asked, todo, found>>
vars == <<app, spared, spaces, store, env, pc, localVars>>

Nowhere == [name |-> None, ns |-> None]

Init ==
    /\ app     = [a \in App |-> "none"]
    /\ spared  = {}
    /\ spaces  = {}
    /\ store   = [n \in Namespace |-> [x \in Object |-> None]]
    /\ env     = [s \in Scoop |-> {}]
    /\ pc      = [w \in Worker |-> "idle"]
    /\ subject = [w \in Worker |-> None]
    /\ at      = [w \in Worker |-> Nowhere]
    /\ asked   = [w \in Worker |-> {}]
    /\ todo    = [w \in Worker |-> {}]
    /\ found   = [w \in Worker |-> {}]

-----------------------------------------------------------------------------
Goto(w, step) == pc' = [pc EXCEPT ![w] = step]

Return(w) ==
    /\ Goto(w, "idle")
    /\ subject' = [subject EXCEPT ![w] = None]
    /\ at'      = [at EXCEPT ![w] = Nowhere]
    /\ asked'   = [asked EXCEPT ![w] = {}]
    /\ todo'    = [todo EXCEPT ![w] = {}]
    /\ found'   = [found EXCEPT ![w] = {}]

Begin(w, who, place, refs, names, step) ==
    /\ pc[w] = "idle"
    /\ subject' = [subject EXCEPT ![w] = who]
    /\ at'      = [at EXCEPT ![w] = place]
    /\ asked'   = [asked EXCEPT ![w] = refs]
    /\ todo'    = [todo EXCEPT ![w] = refs]
    /\ found'   = [found EXCEPT ![w] = names]
    /\ Goto(w, step)
    /\ UNCHANGED <<app, spared, spaces, store, env>>

Exists(n) == n = Default \/ n \in spaces

(* namespace_exists, or else create_namespace.                              *)
EnsureSpace(w, n, step) ==
    /\ spaces' = spaces \cup ({n} \cap App)
    /\ Goto(w, step)
    /\ UNCHANGED <<app, spared, store, env, localVars>>

Held(n) == {x \in Object : store[n][x] # None}

-----------------------------------------------------------------------------
(* POST /api/apps, of which AppLifecycle has the steps.                     *)
CreateApp(w, a) ==
    /\ pc[w] = "idle"
    /\ app[a] = "none"
    /\ app'    = [app EXCEPT ![a] = "live"]
    /\ spaces' = spaces \cup {a}
    /\ UNCHANGED <<spared, store, env, pc, localVars>>

-----------------------------------------------------------------------------
(* The label of an object is the app of the request.  A request may choose  *)
(* the name and the namespace; else both follow from the application.       *)
Places(a) ==
    [name : {a} \cup (IF "name" \in Requests THEN Name ELSE {}),
     ns   : {a} \cup (IF "namespace" \in Requests THEN Namespace ELSE {})]

(* Mutant: any application will do.                                         *)
BeginUpsertAny(w, a, p) ==
    /\ p \in Places(a)
    /\ Begin(w, a, p, {}, {}, "space")

(* POST /api/configstore/...: 404 without a row of the application.         *)
BeginUpsert(w, a, p) ==
    /\ app[a] = "live"
    /\ p \in Places(a)
    /\ Begin(w, a, p, {}, {}, "space")

UpsertSpace(w) ==
    /\ pc[w] = "space"
    /\ EnsureSpace(w, at[w].ns, "create")

(* The create, which the API server refuses with a 409 where the name is    *)
(* taken; without the namespace it is an error.                             *)
CreateObject(w) ==
    LET n == at[w].ns
        x == at[w].name IN
    /\ pc[w] = "create"
    /\ \/ /\ x \in Held(n)
          /\ Goto(w, "replace")
          /\ UNCHANGED <<store, localVars>>
       \/ /\ x \notin Held(n)
          /\ store' = IF Exists(n) THEN [store EXCEPT ![n][x] = subject[w]] ELSE store
          /\ Return(w)
    /\ UNCHANGED <<app, spared, spaces, env>>

(* The replace, an error where the object is gone by now.                   *)
ReplaceObject(w) ==
    LET n == at[w].ns
        x == at[w].name IN
    /\ pc[w] = "replace"
    /\ store' = IF x \in Held(n) THEN [store EXCEPT ![n][x] = subject[w]] ELSE store
    /\ Return(w)
    /\ UNCHANGED <<app, spared, spaces, env>>

(* DELETE /api/configstore/...: nothing ties the name to an application.    *)
DeleteObject(w, n, x) ==
    /\ pc[w] = "idle"
    /\ x \in Held(n)
    /\ store' = [store EXCEPT ![n][x] = None]
    /\ UNCHANGED <<app, spared, spaces, env, pc, localVars>>

-----------------------------------------------------------------------------
(* The labels of an object, and the one by which the snapshot asks for the  *)
(* objects of the namespace.                                                *)
LabelKeys   == {"app.kubernetes.io/managed-by", "laurel/app"}
SelectorKey == "app"

Selected(a) == {x \in Held(a) : SelectorKey \in LabelKeys /\ store[a][x] = a}

(* DELETE /api/apps/<id>: the snapshot, the namespace with all there is in  *)
(* it, then the row.                                                        *)
BeginDeleteApp(w, a) ==
    /\ app[a] = "live"
    /\ Begin(w, a, Nowhere, {}, Selected(a), "deleteSpace")

(* An error of the cluster is logged, and the deletion goes on.             *)
DeleteSpace(w) ==
    LET a == subject[w] IN
    /\ pc[w] = "deleteSpace"
    /\ \/ /\ spaces' = spaces \ {a}
          /\ store'  = [store EXCEPT ![a] = [x \in Object |-> None]]
          /\ env'    = [s \in Scoop |-> IF AppOf[s] = a THEN {} ELSE env[s]]
          /\ spared' = spared \ {a}
       \/ /\ spared' = spared \cup {a}
          /\ UNCHANGED <<spaces, store, env>>
    /\ Goto(w, "dropApp")
    /\ UNCHANGED <<app, localVars>>

DropApp(w) ==
    /\ pc[w] = "dropApp"
    /\ app' = [app EXCEPT ![subject[w]] = "gone"]
    /\ Return(w)
    /\ UNCHANGED <<spared, spaces, store, env>>

-----------------------------------------------------------------------------
(* The references a scoop may carry (Scoop.env_from): one at most here.     *)
RefChoices(s) ==
    LET near == [name : Object, ns : {AppOf[s]}] IN
    {{}} \cup (IF "refs" \in Requests THEN {{r} : r \in near} ELSE {})
         \cup (IF "foreignRefs" \in Requests THEN {{r} : r \in Ref} ELSE {})

(* The object of the convention and the references of the row.              *)
Wanted(s, refs) == {[name |-> AppOf[s], ns |-> AppOf[s]]} \cup refs

(* POST /api/scoops/<id>/deploy                                             *)
BeginDeploy(w, s, refs) ==
    /\ app[AppOf[s]] = "live"
    /\ refs \in RefChoices(s)
    /\ Begin(w, s, [name |-> None, ns |-> AppOf[s]], Wanted(s, refs), {}, "deploySpace")

DeploySpace(w) ==
    /\ pc[w] = "deploySpace"
    /\ EnsureSpace(w, at[w].ns, "read")

(* Mutant: a reference is mounted unread.                                   *)
ReadRefBlind(w) ==
    /\ pc[w] = "read"
    /\ \E r \in todo[w] :
          /\ todo'  = [todo EXCEPT ![w] = @ \ {r}]
          /\ found' = [found EXCEPT ![w] = @ \cup {r.name}]
          /\ Goto(w, IF todo[w] = {r} THEN "apply" ELSE "read")
    /\ UNCHANGED <<app, spared, spaces, store, env, subject, at, asked>>

(* Mutant: the last reference does not end the reading.                     *)
ReadRefOn(w) ==
    /\ pc[w] = "read"
    /\ \E r \in todo[w] : todo' = [todo EXCEPT ![w] = @ \ {r}]
    /\ UNCHANGED <<app, spared, spaces, store, env, pc, subject, at, asked, found>>

(* _inject_app_env_from, one read a step: a 404 is passed over, a name goes *)
(* in once and without its namespace.                                       *)
ReadRef(w) ==
    /\ pc[w] = "read"
    /\ \E r \in todo[w] :
          /\ todo'  = [todo EXCEPT ![w] = @ \ {r}]
          /\ found' = [found EXCEPT ![w] =
                          @ \cup (IF r.name \in Held(r.ns) THEN {r.name} ELSE {})]
          /\ Goto(w, IF todo[w] = {r} THEN "apply" ELSE "read")
    /\ UNCHANGED <<app, spared, spaces, store, env, subject, at, asked>>

(* Mutant: what was found before the failure is kept.                       *)
ReadFailsKeeping(w) ==
    /\ "readsFail" \in Requests
    /\ pc[w] = "read"
    /\ todo' = [todo EXCEPT ![w] = {}]
    /\ Goto(w, "apply")
    /\ UNCHANGED <<app, spared, spaces, store, env, subject, at, asked, found>>

(* Any other failure of a read: best effort, and nothing at all is mounted. *)
ReadFails(w) ==
    /\ "readsFail" \in Requests
    /\ pc[w] = "read"
    /\ todo'  = [todo EXCEPT ![w] = {}]
    /\ found' = [found EXCEPT ![w] = {}]
    /\ Goto(w, "apply")
    /\ UNCHANGED <<app, spared, spaces, store, env, subject, at, asked>>

(* _apply_env_from looks for the containers under spec.template, where a    *)
(* CronJob does not have them.                                              *)
Mounts(s, names) == IF s \in Cronjobs THEN {} ELSE names

Apply(w) ==
    LET s == subject[w] IN
    /\ pc[w] = "apply"
    /\ env' = IF Exists(at[w].ns) THEN [env EXCEPT ![s] = Mounts(s, found[w])] ELSE env
    /\ Return(w)
    /\ UNCHANGED <<app, spared, spaces, store>>

(* gunicorn ends the worker between two steps.                              *)
Crash(w) ==
    /\ pc[w] # "idle"
    /\ Return(w)
    /\ UNCHANGED <<app, spared, spaces, store, env>>

Act(w) ==
    \/ UpsertSpace(w) \/ CreateObject(w) \/ ReplaceObject(w)
    \/ DeleteSpace(w) \/ DropApp(w)
    \/ DeploySpace(w) \/ ReadRef(w) \/ ReadFails(w) \/ Apply(w) \/ Crash(w)
    \/ \E a \in App :
          \/ CreateApp(w, a) \/ BeginDeleteApp(w, a)
          \/ \E p \in Places(a) : BeginUpsert(w, a, p)
    \/ \E n \in Namespace, x \in Object : DeleteObject(w, n, x)
    \/ \E s \in Scoop : \E refs \in RefChoices(s) : BeginDeploy(w, s, refs)

Next == \E w \in Worker : Act(w)

Spec == Init /\ [][Next]_vars

(* Requests that do not overlap: a worker acts while no other has begun.    *)
Alone(w) == \A v \in Worker \ {w} : pc[v] = "idle"

SerialNext == \E w \in Worker : Alone(w) /\ Act(w)

SerialSpec == Init /\ [][SerialNext]_vars

-----------------------------------------------------------------------------
Steps == {"idle", "space", "create", "replace", "deleteSpace", "dropApp",
          "deploySpace", "read", "apply"}

TypeOK ==
    /\ app \in [App -> {"none", "live", "gone"}]
    /\ spared \subseteq App /\ spaces \subseteq App
    /\ store \in [Namespace -> [Object -> App \cup {None}]]
    /\ env \in [Scoop -> SUBSET Object]
    /\ pc \in [Worker -> Steps]
    /\ \A w \in Worker :
          /\ at[w] = Nowhere \/ (at[w].ns \in Namespace /\ at[w].name \in Object \cup {None})
          /\ todo[w] \subseteq asked[w] /\ asked[w] \subseteq Ref
          /\ found[w] \subseteq Object
          /\ pc[w] = "read" => todo[w] # {}

(* upsert_configmap (service.py:107-109) checks the row "para evitar crear  *)
(* recursos huerfanos", and the deletion of an application takes its        *)
(* objects: one that bears the label of an application whose row is gone is *)
(* there only because that deletion could not remove the namespace.         *)
Backed ==
    \A n \in Namespace : \A x \in Held(n) :
        \/ app[store[n][x]] = "live"
        \/ app[store[n][x]] = "gone" /\ store[n][x] \in spared

(* AppDeletionLog (apps/model.py:126-133) keeps the "configmaps/secrets del *)
(* namespace": the snapshot lists what the namespace has when it is taken.  *)
SnapshotComplete ==
    \A w \in Worker :
        pc[w] = "deleteSpace" => found[w] = Held(subject[w])

(* _inject_app_env_from is best effort, but not by halves: a workload gets  *)
(* all it asked for that there is or, when a read failed, nothing.          *)
EnvWhole ==
    \A w \in Worker :
        pc[w] = "apply" =>
            found[w] \in {{}, {r.name : r \in {q \in asked[w] : q.name \in Held(q.ns)}}}

(* What is injected exists (test_env_from_inject.py: a reference that does  *)
(* not is left out, as a pod that names one would not start).               *)
EnvResolves ==
    \A w \in Worker :
        pc[w] = "apply" => Mounts(subject[w], found[w]) \subseteq Held(at[w].ns)

(* _apply_env_from adds them "a todos los containers del manifest", of a    *)
(* "Deployment / CronJob" (manifest.py:254 and 263).                        *)
EnvReachesPods ==
    \A w \in Worker : pc[w] = "apply" => Mounts(subject[w], found[w]) = found[w]

(* build (manifest.py:228-231): an object of the namespace that bears the   *)
(* label of the application is mounted.                                     *)
LabelledMounted ==
    \A w \in Worker :
        pc[w] = "apply" =>
            LET a == AppOf[subject[w]] IN
            {x \in Held(a) : store[a][x] = a} \subseteq found[w]

=============================================================================
