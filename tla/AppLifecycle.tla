---------------------------- MODULE AppLifecycle ----------------------------
(***************************************************************************)
(* Creation and deletion of Applications (app/modules/apps/service.py):    *)
(* a request handler walks through four external systems and one database  *)
(* row, with a hand-written rollback when a step of the creation fails and *)
(* a best-effort cleanup in the deletion.                                  *)
(*                                                                         *)
(* A worker is one synchronous gunicorn process; it serves one request at  *)
(* a time, and two of them interleave at every call that leaves the        *)
(* process.  The resources of an app are found again by its slug only, so  *)
(* two requests for one slug share them.  An answer can be lost: the       *)
(* service did what was asked and the client sees an error (Lossy).        *)
(***************************************************************************)
EXTENDS Naturals

CONSTANTS
    Worker,   \* gunicorn worker processes
    Slug,     \* DNS-1123 names of applications
    Req,      \* creation requests; a request is also the id of its row
    None,     \* no request, no row, no slug
    Lossy,    \* services whose answer to a call can be lost
    Bodies    \* what the bodies of POST /api/apps ask for (see Plan)

Kind == {"namespace", "github", "docker", "jenkins"}

(* What a body asks for: the GitHub repository is given, to be created, or  *)
(* neither; the image base is given or not.                                 *)
Plan == [github : {"given", "create", "none"}, dockerGiven : BOOLEAN]

ASSUME NoneAssumption   == None \notin Req \cup Slug
ASSUME LossyAssumption  == Lossy \subseteq Kind
ASSUME BodiesAssumption == Bodies \subseteq Plan

VARIABLES
    pc,       \* pc[w]: the step of the handler worker w is about to run
    job,      \* job[w]: the request that handler serves
    flags,    \* flags[w]: kinds it has made (creation) or is still to clean up
    status,   \* status[w]: the status it is going to give the app
    ext,      \* ext[k][s]: the resource of kind k under slug s
    owner,    \* history: the creation that made it and still answers for it
    row,      \* row[s]: the committed row of table applications
    info,     \* info[s]: its status column and the plan it was created by
    dlog,     \* ids in table app_deletion_logs
    trail,    \* <<action, id>> in table audits
    fate,     \* history: how each creation ended
    doomed    \* history: rows a deletion has been started for

world    == <<ext, owner>>
database == <<row, info, dlog, trail>>
history  == <<fate, doomed>>
local    == <<job, flags, status>>
vars     == <<pc, job, flags, status, ext, owner, row, info, dlog, trail, fate, doomed>>

-----------------------------------------------------------------------------
(* Both the rollback of a creation and the deletion clean up in this order. *)
Rank == [namespace |-> 1, github |-> 2, docker |-> 3, jenkins |-> 4]

IsNext(k, S) == k \in S /\ \A j \in S : Rank[k] <= Rank[j]

NoPlan  == [github |-> "given", dockerGiven |-> TRUE]
IdleJob == [slug |-> None, id |-> None, plan |-> NoPlan]

CreateSteps == {"github", "docker", "nsCheck", "nsCreate", "insert",
                "jenkins1", "jenkins2", "commit", "rollback"}
DeleteSteps == {"check", "remove"}
Fates       == {"unused", "running", "committed", "refused", "rolledback",
                "raised", "crashed"}

(* The INSERT of such a creation is flushed and not committed: its          *)
(* transaction holds the unique keys of the slug.                           *)
Flushed == {"jenkins1", "jenkins2", "commit"}

(* Mutant: the slug is claimed on a connection of its own before the INSERT *)
(* asks for it.                                                             *)
SlugClaimed(s) == \E w \in Worker : pc[w] \in Flushed \cup {"insert"} /\ job[w].slug = s

SlugLocked(s) == \E w \in Worker : pc[w] \in Flushed /\ job[w].slug = s

(* The INSERT of w waits for a transaction of another creation to end.      *)
Waiting(w) == pc[w] = "insert" /\ SlugLocked(job[w].slug)

Init ==
    /\ pc      = [w \in Worker |-> "idle"]
    /\ job     = [w \in Worker |-> IdleJob]
    /\ flags   = [w \in Worker |-> {}]
    /\ status  = [w \in Worker |-> "ok"]
    /\ ext     = [k \in Kind |-> [s \in Slug |-> "absent"]]
    /\ owner   = [k \in Kind |-> [s \in Slug |-> None]]
    /\ row     = [s \in Slug |-> None]
    /\ info    = [s \in Slug |-> [status |-> "ok", plan |-> NoPlan]]
    /\ dlog    = {}
    /\ trail   = {}
    /\ fate    = [i \in Req |-> "unused"]
    /\ doomed  = {}

-----------------------------------------------------------------------------
Goto(w, step) == pc' = [pc EXCEPT ![w] = step]

(* The handler returns or raises; its session is removed with it, so what   *)
(* was flushed and not committed is rolled back.                            *)
Return(w) ==
    /\ Goto(w, "idle")
    /\ job'    = [job EXCEPT ![w] = IdleJob]
    /\ flags'  = [flags EXCEPT ![w] = {}]
    /\ status' = [status EXCEPT ![w] = "ok"]

EndCreate(w, f) == Return(w) /\ fate' = [fate EXCEPT ![job[w].id] = f]

(* A creating call reaches service k: it makes the resource when the name   *)
(* is free and answers "already exists" otherwise.                          *)
Make(k, w) ==
    LET s == job[w].slug IN
    \/ /\ ext[k][s] = "absent"
       /\ ext'   = [ext EXCEPT ![k][s] = "present"]
       /\ owner' = [owner EXCEPT ![k][s] = job[w].id]
    \/ /\ ext[k][s] # "absent"
       /\ UNCHANGED world

(* A deleting call reaches service k.  A namespace stays in phase           *)
(* Terminating until the cluster has emptied it.                            *)
Unmake(k, w) ==
    LET s == job[w].slug IN
    /\ ext'   = [ext EXCEPT ![k][s] =
                    IF k = "namespace" /\ @ # "absent" THEN "terminating" ELSE "absent"]
    /\ owner' = [owner EXCEPT ![k][s] = None]

(* A creating call fails: without effect, or with the answer lost.          *)
FailMake(k, w) == UNCHANGED world \/ (k \in Lossy /\ Make(k, w))

(* A cleanup is given up: a warning is logged and what the request made, if *)
(* it is still there, has nobody left to answer for it.                     *)
GiveUp(k, w) ==
    LET s == job[w].slug IN
    /\ UNCHANGED ext
    /\ owner' = [owner EXCEPT ![k][s] = IF @ = job[w].id THEN None ELSE @]

(* One cleanup call, which can fail with or without effect.                 *)
CleanUp(k, w) == Unmake(k, w) \/ GiveUp(k, w)

StartRollback(w, kinds) ==
    /\ Goto(w, "rollback")
    /\ flags' = [flags EXCEPT ![w] = kinds]
    /\ UNCHANGED <<job, status>>

-----------------------------------------------------------------------------
(* POST /api/apps                                                           *)
AfterGithub(p) == IF p.dockerGiven THEN "nsCheck" ELSE "docker"

BeginCreate(w) ==
    /\ pc[w] = "idle"
    /\ \E i \in Req, s \in Slug, p \in Bodies :
         /\ fate[i] = "unused"
         /\ fate' = [fate EXCEPT ![i] = "running"]
         /\ job'  = [job EXCEPT ![w] = [slug |-> s, id |-> i, plan |-> p]]
         /\ status' = [status EXCEPT ![w] = IF p.github = "none" THEN "error" ELSE "ok"]
         /\ Goto(w, IF p.github = "create" THEN "github" ELSE AfterGithub(p))
    /\ UNCHANGED <<flags, world, database, doomed>>

(* Mutant: the flag created_github_repo is not set.                         *)
GithubCreatedUnflagged(w) ==
    /\ pc[w] = "github"
    /\ ext["github"][job[w].slug] = "absent"
    /\ Make("github", w)
    /\ trail' = trail \cup {<<"github_repo_created", job[w].id>>}
    /\ Goto(w, AfterGithub(job[w].plan))
    /\ UNCHANGED <<local, row, info, dlog, history>>

(* 201 from GitHub; the audit record of the repository commits at once.     *)
GithubCreated(w) ==
    /\ pc[w] = "github"
    /\ ext["github"][job[w].slug] = "absent"
    /\ Make("github", w)
    /\ trail' = trail \cup {<<"github_repo_created", job[w].id>>}
    /\ flags' = [flags EXCEPT ![w] = @ \cup {"github"}]
    /\ Goto(w, AfterGithub(job[w].plan))
    /\ UNCHANGED <<job, status, row, info, dlog, history>>

(* Any other answer (a repository of that name exists, bad credentials) is  *)
(* an AppError: the request ends here, and nothing is cleaned up.           *)
GithubRefused(w) ==
    /\ pc[w] = "github"
    /\ EndCreate(w, "refused")
    /\ UNCHANGED <<world, database, doomed>>

(* Mutant: a repository that existed is flagged as created, too.            *)
DockerReadyAlwaysFlagged(w) ==
    /\ pc[w] = "docker"
    /\ Make("docker", w)
    /\ flags' = [flags EXCEPT ![w] = @ \cup {"docker"}]
    /\ Goto(w, "nsCheck")
    /\ UNCHANGED <<job, status, database, history>>

(* create_repo is idempotent, and only a repository it made is flagged.     *)
DockerReady(w) ==
    /\ pc[w] = "docker"
    /\ Make("docker", w)
    /\ flags' = [flags EXCEPT ![w] =
                   IF ext["docker"][job[w].slug] = "absent" THEN @ \cup {"docker"} ELSE @]
    /\ Goto(w, "nsCheck")
    /\ UNCHANGED <<job, status, database, history>>

(* Mutant: the failure is logged and the status stays as it is.             *)
DockerFailsQuietly(w) ==
    /\ pc[w] = "docker"
    /\ FailMake("docker", w)
    /\ Goto(w, "nsCheck")
    /\ UNCHANGED <<local, database, history>>

(* An AppError of Docker Hub is not fatal: the app will have status error.  *)
DockerFails(w) ==
    /\ pc[w] = "docker"
    /\ FailMake("docker", w)
    /\ status' = [status EXCEPT ![w] = "error"]
    /\ Goto(w, "nsCheck")
    /\ UNCHANGED <<job, flags, database, history>>

NamespaceChecked(w) ==
    /\ pc[w] = "nsCheck"
    /\ Goto(w, IF ext["namespace"][job[w].slug] = "absent" THEN "nsCreate" ELSE "insert")
    /\ UNCHANGED <<local, world, database, history>>

(* create_namespace answers a 409 as a success, and the flag is set.        *)
NamespaceCreated(w) ==
    /\ pc[w] = "nsCreate"
    /\ Make("namespace", w)
    /\ flags' = [flags EXCEPT ![w] = @ \cup {"namespace"}]
    /\ Goto(w, "insert")
    /\ UNCHANGED <<job, status, database, history>>

(* This call of _rollback_external names the GitHub repository only.        *)
NamespaceFails(w) ==
    /\ \/ pc[w] = "nsCheck" /\ UNCHANGED world
       \/ pc[w] = "nsCreate" /\ FailMake("namespace", w)
    /\ StartRollback(w, flags[w] \cap {"github"})
    /\ UNCHANGED <<database, history>>

(* The INSERT waits for a transaction that holds the same unique key.       *)
Inserted(w) ==
    /\ pc[w] = "insert"
    /\ row[job[w].slug] = None
    /\ ~SlugLocked(job[w].slug)
    /\ Goto(w, "jenkins1")
    /\ UNCHANGED <<local, world, database, history>>

InsertConflicts(w) ==
    /\ pc[w] = "insert"
    /\ row[job[w].slug] # None
    /\ StartRollback(w, flags[w])
    /\ UNCHANGED <<database, world, history>>

(* ensure_job_config posts createItem twice and ignores the first answer.   *)
JenkinsFirstPost(w) ==
    /\ pc[w] = "jenkins1"
    /\ Make("jenkins", w) \/ UNCHANGED world
    /\ Goto(w, "jenkins2")
    /\ UNCHANGED <<local, database, history>>

(* Mutant: the creation is audited before its commit.                       *)
JenkinsReadyAudited(w) ==
    /\ pc[w] = "jenkins2"
    /\ Make("jenkins", w)
    /\ flags' = [flags EXCEPT ![w] = @ \cup {"jenkins"}]
    /\ trail' = trail \cup {<<"app_create", job[w].id>>}
    /\ Goto(w, "commit")
    /\ UNCHANGED <<job, status, row, info, dlog, history>>

(* Created, or it exists and its configuration is refreshed; a failed       *)
(* refresh is only a False that create does not look at.                    *)
JenkinsReady(w) ==
    /\ pc[w] = "jenkins2"
    /\ Make("jenkins", w)
    /\ flags' = [flags EXCEPT ![w] = @ \cup {"jenkins"}]
    /\ Goto(w, "commit")
    /\ UNCHANGED <<job, status, database, history>>

(* An AppError of either post: the row is rolled back and the cleanup runs  *)
(* with created_jenkins=False.                                              *)
JenkinsFails(w) ==
    /\ pc[w] \in {"jenkins1", "jenkins2"}
    /\ FailMake("jenkins", w)
    /\ StartRollback(w, flags[w])
    /\ UNCHANGED <<database, history>>

Commit(w) ==
    /\ pc[w] = "commit"
    /\ row'  = [row EXCEPT ![job[w].slug] = job[w].id]
    /\ info' = [info EXCEPT ![job[w].slug] =
                  [status |-> status[w], plan |-> job[w].plan]]
    /\ fate' = [fate EXCEPT ![job[w].id] = "committed"]
    /\ Goto(w, "audit")
    /\ UNCHANGED <<local, world, dlog, trail, doomed>>

AuditCreate(w) ==
    /\ pc[w] = "audit"
    /\ trail' = trail \cup {<<"app_create", job[w].id>>}
    /\ Return(w)
    /\ UNCHANGED <<world, row, info, dlog, history>>

(* _rollback_external: one resource after the other, each in its own try.   *)
RollbackStep(w) ==
    /\ pc[w] = "rollback"
    /\ \E k \in Kind :
         /\ IsNext(k, flags[w])
         /\ flags' = [flags EXCEPT ![w] = @ \ {k}]
         /\ CleanUp(k, w)
    /\ UNCHANGED <<pc, job, status, database, history>>

RollbackDone(w) ==
    /\ pc[w] = "rollback"
    /\ flags[w] = {}
    /\ EndCreate(w, "rolledback")
    /\ UNCHANGED <<world, database, doomed>>

(* An exception no handler of create catches: requests' own exceptions at   *)
(* GitHub, a read timeout at Docker Hub, an ApiException while the Jenkins  *)
(* token is read, an OperationalError of the INSERT or of the commit.  The  *)
(* database gives up an INSERT that waits too long with such an error.      *)
CreateRaises(w) ==
    /\ \/ pc[w] \in {"github", "docker"} /\ FailMake(pc[w], w)
       \/ pc[w] \in {"insert", "jenkins1", "commit"} /\ UNCHANGED world
    /\ EndCreate(w, "raised")
    /\ UNCHANGED <<database, doomed>>

-----------------------------------------------------------------------------
(* Mutant: the row is not looked up first.                                  *)
BeginDeleteUnchecked(w) ==
    /\ pc[w] = "idle"
    /\ \E s \in Slug :
         job' = [job EXCEPT ![w] = [slug |-> s, id |-> row[s], plan |-> NoPlan]]
    /\ flags' = [flags EXCEPT ![w] = Kind]
    /\ Goto(w, "check")
    /\ UNCHANGED <<status, world, database, history>>

(* Mutant: the deletion log is committed before the cleanup.                *)
BeginDeleteLogged(w) ==
    /\ pc[w] = "idle"
    /\ \E s \in Slug :
         /\ row[s] # None
         /\ job' = [job EXCEPT ![w] = [slug |-> s, id |-> row[s], plan |-> NoPlan]]
         /\ doomed' = doomed \cup {row[s]}
         /\ dlog' = dlog \cup {row[s]}
    /\ flags' = [flags EXCEPT ![w] = Kind]
    /\ Goto(w, "check")
    /\ UNCHANGED <<status, world, row, info, trail, fate>>

(* DELETE /api/apps/<id>                                                    *)
BeginDelete(w) ==
    /\ pc[w] = "idle"
    /\ \E s \in Slug :
         /\ row[s] # None
         /\ job' = [job EXCEPT ![w] = [slug |-> s, id |-> row[s], plan |-> NoPlan]]
         /\ doomed' = doomed \cup {row[s]}
    /\ flags' = [flags EXCEPT ![w] = Kind]
    /\ Goto(w, "check")
    /\ UNCHANGED <<status, world, database, fate>>

ResourceFound(w) ==
    /\ pc[w] = "check"
    /\ \E k \in Kind : IsNext(k, flags[w]) /\ ext[k][job[w].slug] # "absent"
    /\ Goto(w, "remove")
    /\ UNCHANGED <<local, world, database, history>>

(* A question that fails counts as the answer "absent".                     *)
ResourceSkipped(w) ==
    /\ pc[w] = "check"
    /\ \E k \in Kind :
         /\ IsNext(k, flags[w])
         /\ flags' = [flags EXCEPT ![w] = @ \ {k}]
         /\ \/ ext[k][job[w].slug] = "absent" /\ UNCHANGED world
            \/ GiveUp(k, w)
    /\ UNCHANGED <<pc, job, status, database, history>>

RemoveResource(w) ==
    /\ pc[w] = "remove"
    /\ \E k \in Kind :
         /\ IsNext(k, flags[w])
         /\ flags' = [flags EXCEPT ![w] = @ \ {k}]
         /\ CleanUp(k, w)
    /\ Goto(w, "check")
    /\ UNCHANGED <<job, status, database, history>>

(* One commit for the deletion log and the DELETE by primary key, which     *)
(* matches no row when another request has deleted the app meanwhile.       *)
DropRow(w) ==
    /\ pc[w] = "check"
    /\ flags[w] = {}
    /\ row'  = [row EXCEPT ![job[w].slug] = IF @ = job[w].id THEN None ELSE @]
    /\ dlog' = dlog \cup {job[w].id}
    /\ doomed' = doomed \ {job[w].id}
    /\ Goto(w, "auditDelete")
    /\ UNCHANGED <<local, world, info, trail, fate>>

AuditDelete(w) ==
    /\ pc[w] = "auditDelete"
    /\ trail' = trail \cup {<<"app_hard_delete", job[w].id>>}
    /\ Return(w)
    /\ UNCHANGED <<world, row, info, dlog, history>>

-----------------------------------------------------------------------------
(* gunicorn kills a worker that is silent for 60 s, at any step, and starts *)
(* another one in its place; the database rolls its transaction back.       *)
Crash(w) ==
    /\ \/ /\ pc[w] \in CreateSteps
          /\ EndCreate(w, "crashed")
       \/ /\ pc[w] \notin CreateSteps \cup {"idle"}
          /\ Return(w)
          /\ UNCHANGED fate
    /\ UNCHANGED <<world, database, doomed>>

(* The cluster has finished emptying a Terminating namespace.               *)
NamespaceGone(s) ==
    /\ ext["namespace"][s] = "terminating"
    /\ ext' = [ext EXCEPT !["namespace"][s] = "absent"]
    /\ UNCHANGED <<pc, local, owner, database, history>>

CreateStep(w) ==
    \/ GithubCreated(w) \/ GithubRefused(w) \/ DockerReady(w) \/ DockerFails(w)
    \/ NamespaceChecked(w) \/ NamespaceCreated(w) \/ NamespaceFails(w)
    \/ Inserted(w) \/ InsertConflicts(w)
    \/ JenkinsFirstPost(w) \/ JenkinsReady(w) \/ JenkinsFails(w)
    \/ Commit(w) \/ AuditCreate(w)
    \/ RollbackStep(w) \/ RollbackDone(w) \/ CreateRaises(w)

DeleteStep(w) ==
    \/ ResourceFound(w) \/ ResourceSkipped(w) \/ RemoveResource(w)
    \/ DropRow(w) \/ AuditDelete(w)

Step(w) == CreateStep(w) \/ DeleteStep(w)

Act(w) == BeginCreate(w) \/ BeginDelete(w) \/ Step(w) \/ Crash(w)

Next ==
    \/ \E w \in Worker : Act(w)
    \/ \E s \in Slug : NamespaceGone(s)

Spec == Init /\ [][Next]_vars

(* The calls to GitHub, Docker Hub and Jenkins have a timeout, and gunicorn *)
(* bounds the request, so a handler that is not kept waiting takes a step.  *)
(* Nothing forces a client to send a request, and an INSERT that waits is   *)
(* not fair: no patience of the database is what ends a wait.               *)
Proceeds(w) == ~Waiting(w) /\ Step(w)

FairSpec == Spec /\ \A w \in Worker : WF_vars(Proceeds(w))

-----------------------------------------------------------------------------
Job == [slug : Slug \cup {None}, id : Req \cup {None}, plan : Plan]

(* Types, and that a busy worker knows the request it serves.               *)
TypeOK ==
    /\ pc \in [Worker -> CreateSteps \cup DeleteSteps \cup {"idle", "audit", "auditDelete"}]
    /\ job \in [Worker -> Job]
    /\ flags \in [Worker -> SUBSET Kind]
    /\ status \in [Worker -> {"ok", "error"}]
    /\ \A w \in Worker : pc[w] # "idle" => job[w].slug \in Slug /\ job[w].id \in Req
    /\ ext \in [Kind -> [Slug -> {"absent", "present", "terminating"}]]
    /\ owner \in [Kind -> [Slug -> Req \cup {None}]]
    /\ row \in [Slug -> Req \cup {None}]
    /\ info \in [Slug -> [status : {"ok", "error"}, plan : Plan]]
    /\ dlog \subseteq Req
    /\ trail \subseteq {"github_repo_created", "app_create", "app_hard_delete"} \X Req
    /\ fate \in [Req -> Fates]
    /\ doomed \subseteq Req

(* Kinds whose creation the handler can always tell: GitHub, because any    *)
(* doubt there ends the request at once, and the namespace when the API     *)
(* server's answers arrive.                                                 *)
Tracked == {"github"} \cup ({"namespace"} \ Lossy)

(* No request that ends in an orderly way leaves a repository or namespace  *)
(* behind in silence: what a creation made belongs to it while it runs, to  *)
(* its row once committed, and afterwards only exists because a cleanup did *)
(* not succeed or because the creation was cut off.                         *)
CreationsAccounted ==
    \A k \in Tracked, s \in Slug :
        owner[k][s] # None =>
            \/ fate[owner[k][s]] \in {"running", "raised", "crashed"}
            \/ row[s] = owner[k][s]

(* An application is gone exactly when its deletion log is there, although  *)
(* log and row are written a dozen external calls apart and deletions of    *)
(* one app overlap, crash and outlive it.                                   *)
DeletionLogged ==
    /\ \A i \in Req : fate[i] = "committed" => (i \in dlog <=> \A s \in Slug : row[s] # i)
    /\ \A i \in dlog : fate[i] = "committed"

(* What the docstring of create promises of Docker Hub as well: a creation  *)
(* that was rolled back leaves no repository it made.                       *)
DockerAccounted ==
    \A s \in Slug : owner["docker"][s] # None => fate[owner["docker"][s]] # "rolledback"

(* The audit trail never tells of a creation or deletion that did not       *)
(* commit.                                                                  *)
AuditTruthful ==
    \A i \in Req :
        /\ <<"app_create", i>> \in trail => fate[i] = "committed"
        /\ <<"app_hard_delete", i>> \in trail => i \in dlog

(* A handler always comes to an end, one that waits for the unique key of a *)
(* slug included: whoever holds it gets to its commit or its rollback       *)
(* without waiting for anybody, and lets go.                                *)
RequestsFinish == \A w \in Worker : pc[w] # "idle" ~> pc[w] = "idle"

(* Status ok is worth its name: while nobody asked for its deletion, an app *)
(* with status ok has the repositories it did not bring along and its job.  *)
(* (Checked where requests do not overlap.)                                 *)
OkAppIsBacked ==
    \A s \in Slug : row[s] # None /\ info[s].status = "ok" /\ row[s] \notin doomed =>
        /\ info[s].plan.github # "none"
        /\ info[s].plan.github = "create" => owner["github"][s] = row[s]
        /\ ~info[s].plan.dockerGiven => ext["docker"][s] = "present"
        /\ ext["jenkins"][s] = "present"

(* _rollback_external removes what its own request made and nothing else.   *)
(* (Checked where requests do not overlap.)                                 *)
RollbackRemovesOwn ==
    [][\A w \in Worker, k \in Kind, s \in Slug :
         pc[w] = "rollback" /\ flags'[w] # flags[w] /\ owner'[k][s] # owner[k][s]
           => owner[k][s] = job[w].id]_vars

=============================================================================
