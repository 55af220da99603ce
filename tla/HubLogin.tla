------------------------------- MODULE HubLogin ------------------------------
(***************************************************************************)
(* The token of Docker Hub (integrations/docker/service.py, _login): a     *)
(* worker process keeps the one it has obtained, with the time until which *)
(* it will go on using it, and then asks for another with the credentials  *)
(* of its environment, where it has them, or else with the password that   *)
(* docker_pat has by then (system/service.py).                             *)
(*                                                                         *)
(* A worker of gunicorn serves one request at a time: the lock of _login   *)
(* is never waited for.  A refusal or a timeout of Docker Hub leaves what  *)
(* is kept as it is.                                                       *)
(***************************************************************************)
EXTENDS Naturals

CONSTANTS
    Worker,   \* gunicorn worker processes
    TTL,      \* JWT_TTL_SECONDS, which is also how long a token lives
    Timeout,  \* the longest a request to Docker Hub takes (HUB_TIMEOUT)
    None,     \* no token
    MaxTime,  \* bound of the model: the clock
    MaxPats   \* bound of the model: the values of docker_pat, from 1 on

Token == [at : 0..MaxTime, pat : 0..MaxPats]

(* Assumed by the modules that instantiate this one.                        *)
TimeAssumption ==
    /\ TTL \in Nat /\ Timeout \in Nat /\ Timeout < TTL
    /\ MaxTime \in Nat /\ MaxPats \in Nat \ {0}
    /\ None \notin Token

VARIABLES
    fromEnv, \* DOCKERHUB_USER and a password of it are in the environment
    clock,  \* the time
    pat,    \* the value of docker_pat
    since,  \* the time it was put there
    token,  \* token[w]: what worker w keeps, None if nothing
    until,  \* until[w]: its expires_at
    pc,     \* pc[w]: "idle", "login" or "answer"
    now,    \* now[w]: the time as _login has read it
    issued  \* issued[w]: the token that is on its way to w

workerVars == <<token, until, pc, now, issued>>
vars == <<fromEnv, clock, pat, since, workerVars>>

Init ==
    /\ fromEnv \in BOOLEAN
    /\ clock = 0 /\ pat = 1 /\ since = 0
    /\ token  = [w \in Worker |-> None]
    /\ until  = [w \in Worker |-> 0]
    /\ pc     = [w \in Worker |-> "idle"]
    /\ now    = [w \in Worker |-> 0]
    /\ issued = [w \in Worker |-> None]

-----------------------------------------------------------------------------
Goto(w, step) == pc' = [pc EXCEPT ![w] = step]

(* Mutant: a token is kept for good.                                        *)
KeptForGood(w) == token[w] # None

(* The token that a call would go out with.                                 *)
Kept(w) == token[w] # None /\ until[w] > clock

(* A call to Docker Hub needs a token and there is none to go out with.     *)
BeginLogin(w) ==
    /\ pc[w] = "idle"
    /\ ~Kept(w)
    /\ now' = [now EXCEPT ![w] = clock]
    /\ Goto(w, "login")
    /\ UNCHANGED <<fromEnv, clock, pat, since, token, until, issued>>

(* _get_creds: the environment goes before docker_pat; 0 is its password.   *)
Password == IF fromEnv THEN 0 ELSE pat

(* Mutant: the password is kept beside the token.                           *)
IssueKnown(w) ==
    LET known == IF token[w] = None THEN Password ELSE token[w].pat IN
    /\ pc[w] = "login"
    /\ issued' = [issued EXCEPT ![w] = [at |-> clock, pat |-> known]]
    /\ Goto(w, "answer")
    /\ UNCHANGED <<fromEnv, clock, pat, since, token, until, now>>

(* The password is read, and Docker Hub makes a token for it.               *)
Issue(w) ==
    /\ pc[w] = "login"
    /\ issued' = [issued EXCEPT ![w] = [at |-> clock, pat |-> Password]]
    /\ Goto(w, "answer")
    /\ UNCHANGED <<fromEnv, clock, pat, since, token, until, now>>

Keep(w, end) ==
    /\ pc[w] = "answer"
    /\ token'  = [token EXCEPT ![w] = issued[w]]
    /\ until'  = [until EXCEPT ![w] = end]
    /\ issued' = [issued EXCEPT ![w] = None]
    /\ now'    = [now EXCEPT ![w] = 0]
    /\ Goto(w, "idle")
    /\ UNCHANGED <<fromEnv, clock, pat, since>>

(* The answer: its end is counted from before the login.                    *)
Answer(w) == Keep(w, now[w] + TTL)

(* Docker Hub refuses, is out of reach or too slow.                         *)
Fail(w) ==
    /\ pc[w] # "idle"
    /\ issued' = [issued EXCEPT ![w] = None]
    /\ now'    = [now EXCEPT ![w] = 0]
    /\ Goto(w, "idle")
    /\ UNCHANGED <<fromEnv, clock, pat, since, token, until>>

(* gunicorn starts the worker anew.                                         *)
Renew(w) ==
    /\ token'  = [token EXCEPT ![w] = None]
    /\ until'  = [until EXCEPT ![w] = 0]
    /\ issued' = [issued EXCEPT ![w] = None]
    /\ now'    = [now EXCEPT ![w] = 0]
    /\ Goto(w, "idle")
    /\ UNCHANGED <<fromEnv, clock, pat, since>>

(* PUT /api/system/secrets/docker_pat.  Its restart of the deployment, when *)
(* there is one, renews the workers.                                        *)
PutPat ==
    /\ pat < MaxPats
    /\ pat'   = pat + 1
    /\ since' = clock
    /\ UNCHANGED <<fromEnv, clock, workerVars>>

(* Time passes, no request takes longer than it may.                        *)
Tick ==
    /\ clock < MaxTime
    /\ \A w \in Worker : pc[w] # "idle" => clock < now[w] + Timeout
    /\ clock' = clock + 1
    /\ UNCHANGED <<fromEnv, pat, since, workerVars>>

Next ==
    \/ Tick \/ PutPat
    \/ \E w \in Worker : BeginLogin(w) \/ Issue(w) \/ Answer(w) \/ Fail(w) \/ Renew(w)

Spec == Init /\ [][Next]_vars

-----------------------------------------------------------------------------
TypeOK ==
    /\ fromEnv \in BOOLEAN
    /\ clock \in 0..MaxTime /\ pat \in 1..MaxPats /\ since \in 0..clock
    /\ pc \in [Worker -> {"idle", "login", "answer"}]
    /\ \A w \in Worker :
          /\ token[w] \in Token \cup {None}
          /\ until[w] \in 0..(MaxTime + TTL)
          /\ now[w] \in 0..clock
          /\ IF pc[w] = "answer" THEN issued[w] \in Token ELSE issued[w] = None

(* "El JWT dura ~5 min; lo cacheamos en proceso con TTL" (service.py:18):   *)
(* a token a call goes out with has not run out at Docker Hub.              *)
KeptIsAlive == \A w \in Worker : Kept(w) => clock < token[w].at + TTL

(* A PUT of docker_pat reaches every worker, restarted or not, within TTL,  *)
(* unless the credentials are those of the environment.                     *)
RotationReaches ==
    ~fromEnv => \A w \in Worker : Kept(w) /\ token[w].pat # pat => clock < since + TTL

(* Docker Hub is always asked with the docker_pat that an operator has put, *)
(* which the environment of a deployment keeps from having an effect.       *)
RotationReachesAnyhow ==
    \A w \in Worker : Kept(w) /\ token[w].pat # pat => clock < since + TTL

=============================================================================
