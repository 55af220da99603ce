----------------------------- MODULE SystemSecrets ---------------------------
(***************************************************************************)
(* The secrets of the system itself (app/modules/system): a PUT patches    *)
(* one key of a Secret of Kubernetes and restarts the deployment of the    *)
(* API, whose pod has .env and the kubeconfig from the moment it started   *)
(* (deploy/base/deployment.yml mounts them by subPath, which is not        *)
(* refreshed).  The other keys are read from the cluster at every use.     *)
(*                                                                         *)
(* A value is the number of the patch that wrote it.                       *)
(***************************************************************************)
EXTENDS Naturals

CONSTANTS
    Worker,     \* gunicorn worker processes
    Key,        \* the managed keys (MANAGED), of whichever Secret
    Mounted,    \* those the pod has from its start
    None,       \* no key
    MaxPatches  \* bound of the model: patches of one key

(* Assumed by the modules that instantiate this one.                        *)
KeyAssumption == Mounted \subseteq Key /\ None \notin Key
PatchesAssumption == MaxPatches \in Nat

VARIABLES
    data,      \* data[k]: the value of key k in its Secret
    template,  \* the value of restartedAt in the pod template of the API
    pod,       \* the pod that runs: its template, what it has mounted
    owed,      \* the patches not followed yet by a restart of their own
    promised,  \* promised[k]: the last value a PUT reported restarted
    pc,        \* pc[w]: the step of the handler worker w is about to run
    key,       \* key[w]: the key it serves
    loaded,    \* loaded[w]: the Secrets as it has read them
    wrote      \* wrote[w]: the value it has written

clusterVars == <<data, template, pod>>
localVars   == <<key, loaded, wrote>>
vars == <<clusterVars, owed, promised, pc, localVars>>

Fresh == [k \in Key |-> 0]

Init ==
    /\ data     = Fresh
    /\ template = 0
    /\ pod      = [of |-> 0, has |-> [k \in Mounted |-> 0]]
    /\ owed     = {}
    /\ promised = Fresh
    /\ pc       = [w \in Worker |-> "idle"]
    /\ key      = [w \in Worker |-> None]
    /\ loaded   = [w \in Worker |-> Fresh]
    /\ wrote    = [w \in Worker |-> 0]

-----------------------------------------------------------------------------
Goto(w, step) == pc' = [pc EXCEPT ![w] = step]

Return(w) ==
    /\ Goto(w, "idle")
    /\ key'    = [key EXCEPT ![w] = None]
    /\ loaded' = [loaded EXCEPT ![w] = Fresh]
    /\ wrote'  = [wrote EXCEPT ![w] = 0]

(* PUT /api/system/secrets/<id> with a content that is accepted (anything   *)
(* else is a 400 or a 403 and changes nothing).  _read_rv reads the whole   *)
(* Secret, for its resourceVersion.                                         *)
BeginPut(w, k) ==
    /\ pc[w] = "idle"
    /\ data[k] < MaxPatches
    /\ key'    = [key EXCEPT ![w] = k]
    /\ loaded' = [loaded EXCEPT ![w] = data]
    /\ Goto(w, "patch")
    /\ UNCHANGED <<clusterVars, owed, promised, wrote>>

Patched(w, new) ==
    LET k == key[w] IN
    /\ pc[w] = "patch"
    /\ data[k] < MaxPatches
    /\ data'  = new
    /\ wrote' = [wrote EXCEPT ![w] = data[k] + 1]
    /\ owed'  = owed \cup {<<k, data[k] + 1>>}
    /\ Goto(w, "restart")
    /\ UNCHANGED <<template, pod, promised, key, loaded>>

(* Mutant: the Secret that was read is put back with the key replaced.      *)
PatchAll(w) == Patched(w, [loaded[w] EXCEPT ![key[w]] = data[key[w]] + 1])

(* The patch names the one key.                                             *)
Patch(w) == Patched(w, [data EXCEPT ![key[w]] = @ + 1])

(* Any refusal of the patch is the answer.                                  *)
PatchFails(w) ==
    /\ pc[w] = "patch"
    /\ Return(w)
    /\ UNCHANGED <<clusterVars, owed, promised>>

Settled(w) == owed' = owed \ {<<key[w], wrote[w]>>}

Promise(w) ==
    promised' = [promised EXCEPT ![key[w]] = IF @ > wrote[w] THEN @ ELSE wrote[w]]

(* Mutant: a restart that failed is reported as done.                       *)
RestartFailsUnsaid(w) ==
    /\ pc[w] = "restart"
    /\ Settled(w)
    /\ Promise(w)
    /\ Return(w)
    /\ UNCHANGED clusterVars

(* Mutant: the annotation gets the date alone, and nothing rolls out.       *)
RestartUnnoticed(w) ==
    /\ pc[w] = "restart"
    /\ Promise(w)
    /\ Return(w)
    /\ UNCHANGED <<clusterVars, owed>>

(* restart_deployment: the annotation gets the time, which no other restart *)
(* has.  The answer says "restarted".                                       *)
Restart(w) ==
    /\ pc[w] = "restart"
    /\ template' = template + 1
    /\ Settled(w)
    /\ Promise(w)
    /\ Return(w)
    /\ UNCHANGED <<data, pod>>

(* The restart fails: the answer says saved, not restarted.                 *)
RestartFails(w) ==
    /\ pc[w] = "restart"
    /\ Return(w)
    /\ UNCHANGED <<clusterVars, owed, promised>>

(* gunicorn or the rollout ends the worker between two steps.               *)
Crash(w) ==
    /\ pc[w] # "idle"
    /\ Return(w)
    /\ UNCHANGED <<clusterVars, owed, promised>>

(* Kubernetes brings the pod to its template: a new one, with the Secrets   *)
(* as they are.                                                             *)
Rollout ==
    /\ pod.of # template
    /\ pod' = [of |-> template, has |-> [k \in Mounted |-> data[k]]]
    /\ UNCHANGED <<data, template, owed, promised, pc, localVars>>

Next ==
    \/ Rollout
    \/ \E w \in Worker :
          \/ Patch(w) \/ PatchFails(w) \/ Restart(w) \/ RestartFails(w) \/ Crash(w)
          \/ \E k \in Key : BeginPut(w, k)

Spec == Init /\ [][Next]_vars

(* Kubernetes is bound to roll out; handlers may die wherever they are.     *)
FairSpec == Spec /\ WF_vars(Rollout)

-----------------------------------------------------------------------------
TypeOK ==
    /\ data \in [Key -> 0..MaxPatches]
    /\ promised \in [Key -> 0..MaxPatches]
    /\ template \in Nat
    /\ pod.of \in 0..template
    /\ pod.has \in [Mounted -> 0..MaxPatches]
    /\ owed \subseteq Key \X (1..MaxPatches)
    /\ pc \in [Worker -> {"idle", "patch", "restart"}]
    /\ \A w \in Worker :
          /\ IF pc[w] = "idle" THEN key[w] = None ELSE key[w] \in Key
          /\ loaded[w] \in [Key -> 0..MaxPatches]
          /\ IF pc[w] = "restart" THEN <<key[w], wrote[w]>> \in owed ELSE wrote[w] = 0

(* "patch parcial: solo 'data'" (service.py:240): PUTs of different keys of *)
(* one Secret do not undo each other; no key goes back.                     *)
NoKeyGoesBack == \A k \in Key : data'[k] >= data[k]

(* A pod that is up to date has every value that was saved, but for the     *)
(* PUTs that are under way or have said that the restart failed (or died).  *)
PodIsCurrent ==
    pod.of = template =>
        \A k \in Mounted : pod.has[k] = data[k] \/ <<k, data[k]>> \in owed

(* "restarted" (test_put_env_secret_patches_and_restarts): what a PUT has   *)
(* reported so comes to run, whatever other PUTs do in the meantime.        *)
PromiseKept ==
    \A k \in Mounted : \A v \in 1..MaxPatches :
        promised[k] = v ~> pod.has[k] >= v

=============================================================================
