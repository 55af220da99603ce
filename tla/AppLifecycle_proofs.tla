------------------------ MODULE AppLifecycle_proofs -------------------------
(***************************************************************************)
(* Safety of AppLifecycle for every set of workers, slugs and requests,     *)
(* every choice of bodies and of services that lose answers, and of         *)
(* AppsTraffic where requests do not overlap.                               *)
(***************************************************************************)
EXTENDS AppsTraffic, TLAPS

Creating(w) == pc[w] \in CreateSteps
Deleting(w) == pc[w] \in DeleteSteps

(* Who serves which request: a creation in progress has a request of its    *)
(* own, and a request in or after its commit, or being deleted, committed.  *)
Jobs ==
    /\ \A w \in Worker : Creating(w) => fate[job[w].id] = "running"
    /\ \A v, w \in Worker : Creating(v) /\ Creating(w) /\ job[v].id = job[w].id => v = w
    /\ \A w \in Worker : Deleting(w) \/ pc[w] \in {"audit", "auditDelete"}
                            => fate[job[w].id] = "committed"
    /\ \A w \in Worker : pc[w] = "auditDelete" => job[w].id \in dlog

(* The unique key of the slug: a flushed INSERT is the only one, and the    *)
(* table has no row for it.                                                 *)
Rows ==
    /\ \A s \in Slug : row[s] # None => fate[row[s]] = "committed"
    /\ \A s, t \in Slug : row[s] = row[t] /\ row[s] # None => s = t
    /\ \A w \in Worker, s \in Slug : Deleting(w) /\ row[s] = job[w].id => s = job[w].slug
    /\ \A w \in Worker : pc[w] \in Flushed => row[job[w].slug] = None
    /\ \A v, w \in Worker :
         pc[v] \in Flushed /\ pc[w] \in Flushed /\ job[v].slug = job[w].slug => v = w

(* What is owned exists, was made by a request that has begun, and under    *)
(* the slug of that request.                                                *)
Owners ==
    /\ \A k \in Kind, s \in Slug : owner[k][s] # None =>
         ext[k][s] = "present" /\ fate[owner[k][s]] # "unused"
    /\ \A k \in Tracked, s \in Slug, w \in Worker :
         (Creating(w) \/ Deleting(w)) /\ owner[k][s] = job[w].id => s = job[w].slug

(* The flags: what a creation owns under its slug is flagged, and what a    *)
(* cleanup has not come to yet is still on its list.                        *)
Flags ==
    /\ \A w \in Worker :
         /\ pc[w] = "github" => flags[w] = {}
         /\ pc[w] = "docker" => flags[w] \subseteq {"github"}
         /\ pc[w] \in {"nsCheck", "nsCreate"} => flags[w] \subseteq {"github", "docker"}
         /\ pc[w] = "idle" => flags[w] = {}
    /\ \A k \in Tracked, w \in Worker :
         (Creating(w) \/ Deleting(w)) /\ owner[k][job[w].slug] = job[w].id => k \in flags[w]

IInv == TypeOK /\ Jobs /\ Rows /\ Owners /\ Flags
        /\ CreationsAccounted /\ DeletionLogged /\ AuditTruthful

-----------------------------------------------------------------------------
(* What the initial records and the tracked kinds are.                      *)
LEMMA Constants ==
    /\ IdleJob \in Job
    /\ NoPlan \in Plan
    /\ Tracked \subseteq Kind
BY NoneAssumption DEF IdleJob, NoPlan, Job, Plan, Tracked, Kind

(* What a call to an external service leaves in the world, typed.           *)
WorldOK ==
    /\ ext \in [Kind -> [Slug -> {"absent", "present", "terminating"}]]
    /\ owner \in [Kind -> [Slug -> Req \cup {None}]]

(* A call to an external service keeps the world in its type.               *)
LEMMA WorldStep ==
    ASSUME TypeOK, NEW k \in Kind, NEW w \in Worker, pc[w] # "idle",
           Make(k, w) \/ FailMake(k, w) \/ CleanUp(k, w) \/ GiveUp(k, w)
    PROVE  WorldOK'
<1> DEFINE s == job[w].slug
<1>1. s \in Slug /\ job[w].id \in Req
  BY DEF TypeOK
<1>2. CASE UNCHANGED world
  BY <1>2 DEF TypeOK, WorldOK, world
<1>3. CASE Make(k, w)
  <2>1. CASE ext[k][s] = "absent"
    <3>1. ext' = [ext EXCEPT ![k][s] = "present"] /\ owner' = [owner EXCEPT ![k][s] = job[w].id]
      BY <1>3, <2>1 DEF Make
    <3>. QED
      BY <1>1, <3>1 DEF TypeOK, WorldOK
  <2>2. CASE ext[k][s] # "absent"
    BY <1>2, <1>3, <2>2 DEF Make
  <2>. QED
    BY <2>1, <2>2
<1>4. CASE GiveUp(k, w)
  BY <1>1, <1>4 DEF TypeOK, WorldOK, GiveUp
<1>5. CASE Unmake(k, w)
  BY <1>1, <1>5 DEF TypeOK, WorldOK, Unmake
<1>. QED
  BY <1>2, <1>3, <1>4, <1>5 DEF FailMake, CleanUp

(* The initial state is typed.                                              *)
LEMMA TypeInit == Init => TypeOK
BY Constants DEF Init, TypeOK, Fates

(* Every step keeps every variable in its type.                             *)
LEMMA TypeStep == ASSUME TypeOK, [Next]_vars PROVE TypeOK'
<1> USE NoneAssumption, BodiesAssumption, Constants DEF TypeOK, world, database, history, local
<1>1. ASSUME NEW w \in Worker, BeginCreate(w) PROVE TypeOK'
  BY <1>1 DEF BeginCreate, Goto, AfterGithub, Plan, Job, CreateSteps, Fates
<1>2. ASSUME NEW w \in Worker, GithubCreated(w) PROVE TypeOK'
  <2>1. WorldOK'
    BY <1>2, WorldStep DEF GithubCreated, Kind, WorldOK, IsNext
  <2>. QED
    BY <1>2, <2>1 DEF GithubCreated, Goto, AfterGithub, CreateSteps, WorldOK, Kind
<1>3. ASSUME NEW w \in Worker, GithubRefused(w) PROVE TypeOK'
  BY <1>3 DEF GithubRefused, EndCreate, Return, Goto, Fates
<1>4. ASSUME NEW w \in Worker, DockerReady(w) PROVE TypeOK'
  <2>1. WorldOK'
    BY <1>4, WorldStep DEF DockerReady, Kind, WorldOK, IsNext
  <2>. QED
    BY <1>4, <2>1 DEF DockerReady, Goto, CreateSteps, WorldOK, Kind
<1>5. ASSUME NEW w \in Worker, DockerFails(w) PROVE TypeOK'
  <2>1. WorldOK'
    BY <1>5, WorldStep DEF DockerFails, Kind, WorldOK, IsNext
  <2>. QED
    BY <1>5, <2>1 DEF DockerFails, Goto, CreateSteps, WorldOK, Kind
<1>6. ASSUME NEW w \in Worker, NamespaceChecked(w) PROVE TypeOK'
  BY <1>6 DEF NamespaceChecked, Goto, CreateSteps
<1>7. ASSUME NEW w \in Worker, NamespaceCreated(w) PROVE TypeOK'
  <2>1. WorldOK'
    BY <1>7, WorldStep DEF NamespaceCreated, Kind, WorldOK, IsNext
  <2>. QED
    BY <1>7, <2>1 DEF NamespaceCreated, Goto, CreateSteps, WorldOK, Kind
<1>8. ASSUME NEW w \in Worker, NamespaceFails(w) PROVE TypeOK'
  <2>1. WorldOK'
    BY <1>8, WorldStep DEF NamespaceFails, Kind, WorldOK, IsNext
  <2>. QED
    BY <1>8, <2>1 DEF NamespaceFails, StartRollback, Goto, CreateSteps, WorldOK, Kind
<1>9. ASSUME NEW w \in Worker, Inserted(w) PROVE TypeOK'
  BY <1>9 DEF Inserted, Goto, CreateSteps
<1>10. ASSUME NEW w \in Worker, InsertConflicts(w) PROVE TypeOK'
  BY <1>10 DEF InsertConflicts, StartRollback, Goto, CreateSteps
<1>11. ASSUME NEW w \in Worker, JenkinsFirstPost(w) PROVE TypeOK'
  <2>1. WorldOK'
    BY <1>11, WorldStep DEF JenkinsFirstPost, Kind, WorldOK, IsNext
  <2>. QED
    BY <1>11, <2>1 DEF JenkinsFirstPost, Goto, CreateSteps, WorldOK, Kind
<1>12. ASSUME NEW w \in Worker, JenkinsReady(w) PROVE TypeOK'
  <2>1. WorldOK'
    BY <1>12, WorldStep DEF JenkinsReady, Kind, WorldOK, IsNext
  <2>. QED
    BY <1>12, <2>1 DEF JenkinsReady, Goto, CreateSteps, WorldOK, Kind
<1>13. ASSUME NEW w \in Worker, JenkinsFails(w) PROVE TypeOK'
  <2>1. WorldOK'
    BY <1>13, WorldStep DEF JenkinsFails, Kind, WorldOK, IsNext
  <2>. QED
    BY <1>13, <2>1 DEF JenkinsFails, StartRollback, Goto, CreateSteps, WorldOK, Kind
<1>14. ASSUME NEW w \in Worker, Commit(w) PROVE TypeOK'
  BY <1>14 DEF Commit, Goto, CreateSteps, DeleteSteps, Fates, Job
<1>15. ASSUME NEW w \in Worker, AuditCreate(w) PROVE TypeOK'
  BY <1>15 DEF AuditCreate, Return, Goto, CreateSteps
<1>16. ASSUME NEW w \in Worker, RollbackStep(w) PROVE TypeOK'
  <2>1. WorldOK'
    BY <1>16, WorldStep DEF RollbackStep, Kind, WorldOK, IsNext
  <2>. QED
    BY <1>16, <2>1 DEF RollbackStep, IsNext, WorldOK, Kind
<1>17. ASSUME NEW w \in Worker, RollbackDone(w) PROVE TypeOK'
  BY <1>17 DEF RollbackDone, EndCreate, Return, Goto, Fates
<1>18. ASSUME NEW w \in Worker, CreateRaises(w) PROVE TypeOK'
  <2>1. WorldOK'
    BY <1>18, WorldStep DEF CreateRaises, Kind, WorldOK, IsNext
  <2>. QED
    BY <1>18, <2>1 DEF CreateRaises, EndCreate, Return, Goto, Fates, WorldOK, Kind
<1>19. ASSUME NEW w \in Worker, BeginDelete(w) PROVE TypeOK'
  BY <1>19 DEF BeginDelete, Goto, Job, DeleteSteps
<1>20. ASSUME NEW w \in Worker, ResourceFound(w) PROVE TypeOK'
  BY <1>20 DEF ResourceFound, Goto, DeleteSteps
<1>21. ASSUME NEW w \in Worker, ResourceSkipped(w) PROVE TypeOK'
  <2>1. WorldOK'
    BY <1>21, WorldStep DEF ResourceSkipped, Kind, WorldOK, IsNext
  <2>. QED
    BY <1>21, <2>1 DEF ResourceSkipped, IsNext, WorldOK, Kind
<1>22. ASSUME NEW w \in Worker, RemoveResource(w) PROVE TypeOK'
  <2>1. WorldOK'
    BY <1>22, WorldStep DEF RemoveResource, Kind, WorldOK, IsNext
  <2>. QED
    BY <1>22, <2>1 DEF RemoveResource, Goto, IsNext, DeleteSteps, WorldOK, Kind
<1>23. ASSUME NEW w \in Worker, DropRow(w) PROVE TypeOK'
  BY <1>23 DEF DropRow, Goto
<1>24. ASSUME NEW w \in Worker, AuditDelete(w) PROVE TypeOK'
  BY <1>24 DEF AuditDelete, Return, Goto
<1>25. ASSUME NEW w \in Worker, Crash(w) PROVE TypeOK'
  <2>1. Return(w) /\ fate' \in [Req -> Fates]
    BY <1>25 DEF Crash, EndCreate, Fates
  <2>. QED
    BY <1>25, <2>1 DEF Crash, Return, Goto
<1>26. ASSUME NEW s \in Slug, NamespaceGone(s) PROVE TypeOK'
  BY <1>26 DEF NamespaceGone
<1>27. CASE UNCHANGED vars
  BY <1>27 DEF vars
<1>. QED
  BY <1>1, <1>2, <1>3, <1>4, <1>5, <1>6, <1>7, <1>8, <1>9, <1>10, <1>11, <1>12, <1>13, <1>14, <1>15, <1>16, <1>17, <1>18, <1>19, <1>20, <1>21, <1>22, <1>23, <1>24, <1>25, <1>26, <1>27
  DEF Next, Act, Step, CreateStep, DeleteStep

-----------------------------------------------------------------------------
(* What a call to service k changes under each kind and slug.               *)
LEMMA WorldEffect ==
    ASSUME TypeOK, NEW k \in Kind, NEW w \in Worker, pc[w] # "idle",
           Make(k, w) \/ FailMake(k, w) \/ CleanUp(k, w) \/ GiveUp(k, w)
    PROVE  \A j \in Kind, t \in Slug :
             \/ owner'[j][t] = owner[j][t] /\ ext'[j][t] = ext[j][t]
             \/ owner'[j][t] = None
             \/ /\ Make(k, w) /\ j = k /\ t = job[w].slug
                /\ owner'[j][t] = job[w].id /\ ext'[j][t] = "present"
<1> DEFINE s == job[w].slug
<1>1. s \in Slug /\ job[w].id \in Req
  BY DEF TypeOK
<1>2. CASE UNCHANGED world
  BY <1>2 DEF world
<1>3. CASE Make(k, w)
  <2>1. CASE ext[k][s] = "absent"
    <3>1. ext' = [ext EXCEPT ![k][s] = "present"] /\ owner' = [owner EXCEPT ![k][s] = job[w].id]
      BY <1>3, <2>1 DEF Make
    <3>. QED
      BY <1>1, <1>3, <3>1 DEF TypeOK
  <2>2. CASE ext[k][s] # "absent"
    BY <1>2, <1>3, <2>2 DEF Make
  <2>. QED
    BY <2>1, <2>2
<1>4. CASE GiveUp(k, w)
  BY <1>1, <1>4 DEF TypeOK, GiveUp
<1>5. CASE Unmake(k, w)
  BY <1>1, <1>5 DEF TypeOK, Unmake
<1>. QED
  BY <1>2, <1>3, <1>4, <1>5 DEF FailMake, CleanUp

(* A handler that ends leaves the other workers alone.                      *)
LEMMA ReturnEffect ==
    ASSUME TypeOK, NEW w \in Worker, Return(w)
    PROVE  /\ pc'[w] = "idle" /\ flags'[w] = {}
           /\ \A v \in Worker \ {w} :
                pc'[v] = pc[v] /\ job'[v] = job[v] /\ flags'[v] = flags[v]
BY DEF TypeOK, Return, Goto

(* After a cleanup of kind k, successful or not, the request owns no k.     *)
LEMMA CleanUpEffect ==
    ASSUME TypeOK, NEW k \in Kind, NEW w \in Worker, pc[w] # "idle",
           CleanUp(k, w) \/ GiveUp(k, w)
    PROVE  owner'[k][job[w].slug] # job[w].id
BY NoneAssumption DEF TypeOK, CleanUp, Unmake, GiveUp

(* What a step of worker w does to resource k of slug t: nothing, or it     *)
(* leaves it without an owner, or it is the creation that makes it.         *)
Effect(w, k, t) ==
    \/ owner'[k][t] = owner[k][t] /\ ext'[k][t] = ext[k][t]
    \/ owner'[k][t] = None
    \/ /\ Creating(w)
       /\ t = job[w].slug /\ owner'[k][t] = job[w].id /\ ext'[k][t] = "present"
       /\ k \in Tracked => \/ fate'[job[w].id] = "raised"
                           \/ fate'[job[w].id] = "running" /\ k \in flags'[w]

(* Every step of a worker has such an effect on every resource.             *)
LEMMA EffectStep ==
    ASSUME IInv, NEW w \in Worker, Act(w)
    PROVE  \A k \in Kind, t \in Slug : Effect(w, k, t)
<1> USE DEF IInv, TypeOK, Jobs, Creating, CreateSteps, Kind, Effect, history
<1>1. CASE GithubCreated(w)
  BY <1>1, WorldEffect DEF GithubCreated, Goto, AfterGithub, Tracked, FailMake, world
<1>2. CASE DockerReady(w)
  BY <1>2, WorldEffect DEF DockerReady, Goto, Tracked, FailMake, world
<1>3. CASE DockerFails(w)
  BY <1>3, WorldEffect DEF DockerFails, Goto, Tracked, FailMake, world
<1>4. CASE NamespaceCreated(w)
  <2>1. Creating(w) /\ fate'[job[w].id] = "running" /\ "namespace" \in flags'[w] /\ Make("namespace", w)
    BY <1>4 DEF NamespaceCreated
  <2>2. pc[w] # "idle"
    BY <2>1
  <2>3. \A j \in Kind, t \in Slug :
          \/ owner'[j][t] = owner[j][t] /\ ext'[j][t] = ext[j][t]
          \/ owner'[j][t] = None
          \/ /\ j = "namespace" /\ t = job[w].slug
             /\ owner'[j][t] = job[w].id /\ ext'[j][t] = "present"
    BY <2>1, <2>2, WorldEffect, "namespace" \in Kind
  <2>. QED
    BY <2>1, <2>3
<1>5. CASE NamespaceFails(w)
  <2>1. Creating(w) /\ fate'[job[w].id] = "running" /\ (FailMake("namespace", w) \/ UNCHANGED world)
    BY <1>5 DEF NamespaceFails
  <2>2. CASE "namespace" \in Tracked
    BY <2>1, <2>2 DEF Tracked, FailMake, world
  <2>3. CASE "namespace" \notin Tracked
    BY <2>1, <2>3, WorldEffect DEF world
  <2>. QED
    BY <2>2, <2>3
<1>6. CASE JenkinsFirstPost(w)
  BY <1>6, WorldEffect DEF JenkinsFirstPost, Goto, Tracked, FailMake, world
<1>7. CASE JenkinsReady(w)
  BY <1>7, WorldEffect DEF JenkinsReady, Goto, Tracked, FailMake, world
<1>8. CASE JenkinsFails(w)
  BY <1>8, WorldEffect DEF JenkinsFails, StartRollback, Tracked, FailMake, world
<1>9. CASE CreateRaises(w)
  BY <1>9, WorldEffect DEF CreateRaises, EndCreate, Return, Goto, Tracked, FailMake, world
<1>10. ASSUME NEW k \in Kind, pc[w] # "idle", CleanUp(k, w) \/ GiveUp(k, w)
      PROVE  \A j \in Kind, t \in Slug : Effect(w, j, t)
  <2>1. ~ Make(k, w) \/ UNCHANGED world
    BY <1>10, NoneAssumption DEF CleanUp, Unmake, GiveUp, Make
  <2>. QED
    BY <1>10, <2>1, WorldEffect DEF world
<1>11. CASE RollbackStep(w)
  BY <1>11, <1>10 DEF RollbackStep, CleanUp, world
<1>12. CASE ResourceSkipped(w)
  BY <1>12, <1>10 DEF ResourceSkipped, CleanUp, world
<1>13. CASE RemoveResource(w)
  BY <1>13, <1>10 DEF RemoveResource, CleanUp, world
<1>14. CASE UNCHANGED world
  BY <1>14 DEF world
<1>. QED
  BY <1>1, <1>2, <1>3, <1>4, <1>5, <1>6, <1>7, <1>8, <1>9, <1>10, <1>11, <1>12, <1>13, <1>14
  DEF Act, Step, CreateStep, DeleteStep, BeginCreate, GithubRefused, NamespaceChecked, Inserted, InsertConflicts, Commit, AuditCreate, RollbackDone, BeginDelete, ResourceFound, DropRow, AuditDelete, Crash

(* What a step of worker w leaves alone.                                    *)
Frame(w) ==
    /\ \A v \in Worker \ {w} : pc'[v] = pc[v] /\ job'[v] = job[v] /\ flags'[v] = flags[v]
    /\ pc'[w] # "idle" => job'[w] = job[w]
    /\ Creating(w)' => Creating(w)
    /\ Deleting(w)' => Deleting(w)
    /\ \A i \in Req : \/ fate'[i] = fate[i]
                      \/ Creating(w) /\ i = job[w].id /\ fate'[i] # "unused"

(* Every step of a busy worker has that frame.                              *)
LEMMA FrameStep ==
    ASSUME TypeOK, NEW w \in Worker, Step(w) \/ Crash(w)
    PROVE  Frame(w)
<1> USE DEF TypeOK, Frame, Creating, Deleting, CreateSteps, DeleteSteps, history, local
<1>1. CASE GithubCreated(w)
  BY <1>1 DEF GithubCreated, Goto, AfterGithub
<1>2. CASE GithubRefused(w)
  BY <1>2 DEF GithubRefused, EndCreate, Return, Goto
<1>3. CASE DockerReady(w)
  BY <1>3 DEF DockerReady, Goto
<1>4. CASE DockerFails(w)
  BY <1>4 DEF DockerFails, Goto
<1>5. CASE NamespaceChecked(w)
  BY <1>5 DEF NamespaceChecked, Goto
<1>6. CASE NamespaceCreated(w)
  BY <1>6 DEF NamespaceCreated, Goto
<1>7. CASE NamespaceFails(w)
  BY <1>7 DEF NamespaceFails, StartRollback, Goto
<1>8. CASE Inserted(w)
  BY <1>8 DEF Inserted, Goto, SlugLocked
<1>9. CASE InsertConflicts(w)
  BY <1>9 DEF InsertConflicts, StartRollback, Goto
<1>10. CASE JenkinsFirstPost(w)
  BY <1>10 DEF JenkinsFirstPost, Goto
<1>11. CASE JenkinsReady(w)
  BY <1>11 DEF JenkinsReady, Goto
<1>12. CASE JenkinsFails(w)
  BY <1>12 DEF JenkinsFails, StartRollback, Goto
<1>13. CASE Commit(w)
  BY <1>13 DEF Commit, Goto
<1>14. CASE AuditCreate(w)
  BY <1>14 DEF AuditCreate, Return, Goto
<1>15. CASE RollbackStep(w)
  BY <1>15 DEF RollbackStep
<1>16. CASE RollbackDone(w)
  BY <1>16 DEF RollbackDone, EndCreate, Return, Goto
<1>17. CASE CreateRaises(w)
  BY <1>17 DEF CreateRaises, EndCreate, Return, Goto
<1>18. CASE ResourceFound(w)
  BY <1>18 DEF ResourceFound, Goto
<1>19. CASE ResourceSkipped(w)
  BY <1>19 DEF ResourceSkipped
<1>20. CASE RemoveResource(w)
  BY <1>20 DEF RemoveResource, Goto
<1>21. CASE DropRow(w)
  BY <1>21 DEF DropRow, Goto
<1>22. CASE AuditDelete(w)
  BY <1>22 DEF AuditDelete, Return, Goto
<1>23. CASE Crash(w)
  BY <1>23 DEF Crash, EndCreate, Return, Goto
<1>. QED
  BY <1>1, <1>2, <1>3, <1>4, <1>5, <1>6, <1>7, <1>8, <1>9, <1>10, <1>11, <1>12, <1>13, <1>14, <1>15, <1>16, <1>17, <1>18, <1>19, <1>20, <1>21, <1>22, <1>23
  DEF Step, CreateStep, DeleteStep

(* Requests keep to their workers.                                          *)
LEMMA JobsStep == ASSUME IInv, [Next]_vars PROVE Jobs'
<1> USE NoneAssumption
    DEF IInv, TypeOK, Jobs, Rows, Creating, Deleting, CreateSteps, DeleteSteps, world, database, history, local
<1>1. ASSUME NEW w \in Worker, BeginCreate(w) PROVE Jobs'
  BY <1>1 DEF BeginCreate, Goto, AfterGithub
<1>2. ASSUME NEW w \in Worker, GithubCreated(w) PROVE Jobs'
  BY <1>2 DEF GithubCreated, Goto, AfterGithub
<1>3. ASSUME NEW w \in Worker, GithubRefused(w) PROVE Jobs'
  BY <1>3 DEF GithubRefused, EndCreate, Return, Goto
<1>4. ASSUME NEW w \in Worker, DockerReady(w) PROVE Jobs'
  BY <1>4 DEF DockerReady, Goto
<1>5. ASSUME NEW w \in Worker, DockerFails(w) PROVE Jobs'
  BY <1>5 DEF DockerFails, Goto
<1>6. ASSUME NEW w \in Worker, NamespaceChecked(w) PROVE Jobs'
  BY <1>6 DEF NamespaceChecked, Goto
<1>7. ASSUME NEW w \in Worker, NamespaceCreated(w) PROVE Jobs'
  BY <1>7 DEF NamespaceCreated, Goto
<1>8. ASSUME NEW w \in Worker, NamespaceFails(w) PROVE Jobs'
  BY <1>8 DEF NamespaceFails, StartRollback, Goto
<1>9. ASSUME NEW w \in Worker, Inserted(w) PROVE Jobs'
  BY <1>9 DEF Inserted, Goto, SlugLocked
<1>10. ASSUME NEW w \in Worker, InsertConflicts(w) PROVE Jobs'
  BY <1>10 DEF InsertConflicts, StartRollback, Goto
<1>11. ASSUME NEW w \in Worker, JenkinsFirstPost(w) PROVE Jobs'
  BY <1>11 DEF JenkinsFirstPost, Goto
<1>12. ASSUME NEW w \in Worker, JenkinsReady(w) PROVE Jobs'
  BY <1>12 DEF JenkinsReady, Goto
<1>13. ASSUME NEW w \in Worker, JenkinsFails(w) PROVE Jobs'
  BY <1>13 DEF JenkinsFails, StartRollback, Goto
<1>14. ASSUME NEW w \in Worker, Commit(w) PROVE Jobs'
  BY <1>14 DEF Commit, Goto
<1>15. ASSUME NEW w \in Worker, AuditCreate(w) PROVE Jobs'
  BY <1>15 DEF AuditCreate, Return, Goto
<1>16. ASSUME NEW w \in Worker, RollbackStep(w) PROVE Jobs'
  BY <1>16 DEF RollbackStep
<1>17. ASSUME NEW w \in Worker, RollbackDone(w) PROVE Jobs'
  BY <1>17 DEF RollbackDone, EndCreate, Return, Goto
<1>18. ASSUME NEW w \in Worker, CreateRaises(w) PROVE Jobs'
  BY <1>18 DEF CreateRaises, EndCreate, Return, Goto
<1>19. ASSUME NEW w \in Worker, BeginDelete(w) PROVE Jobs'
  BY <1>19 DEF BeginDelete, Goto
<1>20. ASSUME NEW w \in Worker, ResourceFound(w) PROVE Jobs'
  BY <1>20 DEF ResourceFound, Goto
<1>21. ASSUME NEW w \in Worker, ResourceSkipped(w) PROVE Jobs'
  BY <1>21 DEF ResourceSkipped
<1>22. ASSUME NEW w \in Worker, RemoveResource(w) PROVE Jobs'
  BY <1>22 DEF RemoveResource, Goto
<1>23. ASSUME NEW w \in Worker, DropRow(w) PROVE Jobs'
  BY <1>23 DEF DropRow, Goto
<1>24. ASSUME NEW w \in Worker, AuditDelete(w) PROVE Jobs'
  BY <1>24 DEF AuditDelete, Return, Goto
<1>25. ASSUME NEW w \in Worker, Crash(w) PROVE Jobs'
  <2>1. Frame(w)
    BY <1>25, FrameStep
  <2>2. pc'[w] = "idle" /\ UNCHANGED <<row, dlog>>
    BY <1>25 DEF Crash, EndCreate, Return, Goto
  <2>3. ASSUME NEW v \in Worker, pc'[v] # "idle"
        PROVE  pc'[v] = pc[v] /\ job'[v] = job[v] /\ (Creating(w) => job[v].id # job[w].id)
    <3>1. v # w
      BY <2>2, <2>3
    <3>2. pc'[v] = pc[v] /\ job'[v] = job[v]
      BY <2>1, <3>1 DEF Frame
    <3>. QED
      BY <2>3, <3>1, <3>2
  <2>4. \A v \in Worker : pc'[v] # "idle" => fate'[job'[v].id] = fate[job[v].id]
    BY <2>1, <2>3 DEF Frame
  <2>. QED
    BY <2>2, <2>3, <2>4
<1>26. ASSUME NEW s \in Slug, NamespaceGone(s) PROVE Jobs'
  BY <1>26 DEF NamespaceGone
<1>27. CASE UNCHANGED vars
  BY <1>27 DEF vars
<1>. QED
  BY <1>1, <1>2, <1>3, <1>4, <1>5, <1>6, <1>7, <1>8, <1>9, <1>10, <1>11, <1>12, <1>13, <1>14, <1>15, <1>16, <1>17, <1>18, <1>19, <1>20, <1>21, <1>22, <1>23, <1>24, <1>25, <1>26, <1>27
  DEF Next, Act, Step, CreateStep, DeleteStep

(* The unique key of the slug.                                              *)
LEMMA RowsStep == ASSUME IInv, [Next]_vars PROVE Rows'
<1> USE NoneAssumption
    DEF IInv, TypeOK, Jobs, Rows, Flushed, Creating, Deleting, CreateSteps, DeleteSteps, world, database, history, local
<1>1. ASSUME NEW w \in Worker, BeginCreate(w) PROVE Rows'
  BY <1>1 DEF BeginCreate, Goto, AfterGithub
<1>2. ASSUME NEW w \in Worker, GithubCreated(w) PROVE Rows'
  BY <1>2 DEF GithubCreated, Goto, AfterGithub
<1>3. ASSUME NEW w \in Worker, GithubRefused(w) PROVE Rows'
  BY <1>3 DEF GithubRefused, EndCreate, Return, Goto
<1>4. ASSUME NEW w \in Worker, DockerReady(w) PROVE Rows'
  BY <1>4 DEF DockerReady, Goto
<1>5. ASSUME NEW w \in Worker, DockerFails(w) PROVE Rows'
  BY <1>5 DEF DockerFails, Goto
<1>6. ASSUME NEW w \in Worker, NamespaceChecked(w) PROVE Rows'
  BY <1>6 DEF NamespaceChecked, Goto
<1>7. ASSUME NEW w \in Worker, NamespaceCreated(w) PROVE Rows'
  BY <1>7 DEF NamespaceCreated, Goto
<1>8. ASSUME NEW w \in Worker, NamespaceFails(w) PROVE Rows'
  BY <1>8 DEF NamespaceFails, StartRollback, Goto
<1>9. ASSUME NEW w \in Worker, Inserted(w) PROVE Rows'
  BY <1>9 DEF Inserted, Goto, SlugLocked
<1>10. ASSUME NEW w \in Worker, InsertConflicts(w) PROVE Rows'
  BY <1>10 DEF InsertConflicts, StartRollback, Goto
<1>11. ASSUME NEW w \in Worker, JenkinsFirstPost(w) PROVE Rows'
  BY <1>11 DEF JenkinsFirstPost, Goto
<1>12. ASSUME NEW w \in Worker, JenkinsReady(w) PROVE Rows'
  BY <1>12 DEF JenkinsReady, Goto
<1>13. ASSUME NEW w \in Worker, JenkinsFails(w) PROVE Rows'
  BY <1>13 DEF JenkinsFails, StartRollback, Goto
<1>14. ASSUME NEW w \in Worker, Commit(w) PROVE Rows'
  BY <1>14 DEF Commit, Goto
<1>15. ASSUME NEW w \in Worker, AuditCreate(w) PROVE Rows'
  BY <1>15 DEF AuditCreate, Return, Goto
<1>16. ASSUME NEW w \in Worker, RollbackStep(w) PROVE Rows'
  BY <1>16 DEF RollbackStep
<1>17. ASSUME NEW w \in Worker, RollbackDone(w) PROVE Rows'
  BY <1>17 DEF RollbackDone, EndCreate, Return, Goto
<1>18. ASSUME NEW w \in Worker, CreateRaises(w) PROVE Rows'
  BY <1>18 DEF CreateRaises, EndCreate, Return, Goto
<1>19. ASSUME NEW w \in Worker, BeginDelete(w) PROVE Rows'
  BY <1>19 DEF BeginDelete, Goto
<1>20. ASSUME NEW w \in Worker, ResourceFound(w) PROVE Rows'
  BY <1>20 DEF ResourceFound, Goto
<1>21. ASSUME NEW w \in Worker, ResourceSkipped(w) PROVE Rows'
  BY <1>21 DEF ResourceSkipped
<1>22. ASSUME NEW w \in Worker, RemoveResource(w) PROVE Rows'
  BY <1>22 DEF RemoveResource, Goto
<1>23. ASSUME NEW w \in Worker, DropRow(w) PROVE Rows'
  BY <1>23 DEF DropRow, Goto
<1>24. ASSUME NEW w \in Worker, AuditDelete(w) PROVE Rows'
  BY <1>24 DEF AuditDelete, Return, Goto
<1>25. ASSUME NEW w \in Worker, Crash(w) PROVE Rows'
  <2>1. Frame(w)
    BY <1>25, FrameStep
  <2>2. pc'[w] = "idle" /\ UNCHANGED <<row, dlog>>
    BY <1>25 DEF Crash, EndCreate, Return, Goto
  <2>3. \A v \in Worker : pc'[v] # "idle" => pc'[v] = pc[v] /\ job'[v] = job[v]
    BY <2>1, <2>2 DEF Frame
  <2>4. \A i \in Req : fate[i] = "committed" => fate'[i] = "committed"
    BY <2>1 DEF Frame
  <2>5. ASSUME NEW v \in Worker
        PROVE  /\ Deleting(v)' => Deleting(v) /\ job'[v] = job[v]
               /\ pc'[v] \in Flushed => pc[v] \in Flushed /\ job'[v] = job[v]
    BY <2>3
  <2>. HIDE DEF TypeOK, Jobs
  <2>6. (\A s \in Slug : row[s] # None => fate[row[s]] = "committed")'
    BY <2>2, <2>4 DEF TypeOK
  <2>7. (\A v \in Worker, s \in Slug : Deleting(v) /\ row[s] = job[v].id => s = job[v].slug)'
    BY <2>2, <2>5
  <2>8. (\A v \in Worker : pc[v] \in Flushed => row[job[v].slug] = None)'
    BY <2>2, <2>5
  <2>9. (\A u, v \in Worker :
          pc[u] \in Flushed /\ pc[v] \in Flushed /\ job[u].slug = job[v].slug => u = v)'
    BY <2>5
  <2>. QED
    BY <2>2, <2>6, <2>7, <2>8, <2>9
<1>26. ASSUME NEW s \in Slug, NamespaceGone(s) PROVE Rows'
  BY <1>26 DEF NamespaceGone
<1>27. CASE UNCHANGED vars
  BY <1>27 DEF vars
<1>. QED
  BY <1>1, <1>2, <1>3, <1>4, <1>5, <1>6, <1>7, <1>8, <1>9, <1>10, <1>11, <1>12, <1>13, <1>14, <1>15, <1>16, <1>17, <1>18, <1>19, <1>20, <1>21, <1>22, <1>23, <1>24, <1>25, <1>26, <1>27
  DEF Next, Act, Step, CreateStep, DeleteStep

(* Row and deletion log change together.                                    *)
LEMMA LoggedStep == ASSUME IInv, [Next]_vars PROVE DeletionLogged'
<1> USE NoneAssumption
    DEF IInv, TypeOK, Jobs, Rows, DeletionLogged, Flushed, Creating, Deleting, CreateSteps, DeleteSteps, world, database, history, local
<1>1. ASSUME NEW w \in Worker, BeginCreate(w) PROVE DeletionLogged'
  BY <1>1 DEF BeginCreate, Goto, AfterGithub
<1>2. ASSUME NEW w \in Worker, GithubCreated(w) PROVE DeletionLogged'
  BY <1>2 DEF GithubCreated, Goto, AfterGithub
<1>3. ASSUME NEW w \in Worker, GithubRefused(w) PROVE DeletionLogged'
  BY <1>3 DEF GithubRefused, EndCreate, Return, Goto
<1>4. ASSUME NEW w \in Worker, DockerReady(w) PROVE DeletionLogged'
  BY <1>4 DEF DockerReady, Goto
<1>5. ASSUME NEW w \in Worker, DockerFails(w) PROVE DeletionLogged'
  BY <1>5 DEF DockerFails, Goto
<1>6. ASSUME NEW w \in Worker, NamespaceChecked(w) PROVE DeletionLogged'
  BY <1>6 DEF NamespaceChecked, Goto
<1>7. ASSUME NEW w \in Worker, NamespaceCreated(w) PROVE DeletionLogged'
  BY <1>7 DEF NamespaceCreated, Goto
<1>8. ASSUME NEW w \in Worker, NamespaceFails(w) PROVE DeletionLogged'
  BY <1>8 DEF NamespaceFails, StartRollback, Goto
<1>9. ASSUME NEW w \in Worker, Inserted(w) PROVE DeletionLogged'
  BY <1>9 DEF Inserted, Goto, SlugLocked
<1>10. ASSUME NEW w \in Worker, InsertConflicts(w) PROVE DeletionLogged'
  BY <1>10 DEF InsertConflicts, StartRollback, Goto
<1>11. ASSUME NEW w \in Worker, JenkinsFirstPost(w) PROVE DeletionLogged'
  BY <1>11 DEF JenkinsFirstPost, Goto
<1>12. ASSUME NEW w \in Worker, JenkinsReady(w) PROVE DeletionLogged'
  BY <1>12 DEF JenkinsReady, Goto
<1>13. ASSUME NEW w \in Worker, JenkinsFails(w) PROVE DeletionLogged'
  BY <1>13 DEF JenkinsFails, StartRollback, Goto
<1>14. ASSUME NEW w \in Worker, Commit(w) PROVE DeletionLogged'
  BY <1>14 DEF Commit, Goto
<1>15. ASSUME NEW w \in Worker, AuditCreate(w) PROVE DeletionLogged'
  BY <1>15 DEF AuditCreate, Return, Goto
<1>16. ASSUME NEW w \in Worker, RollbackStep(w) PROVE DeletionLogged'
  BY <1>16 DEF RollbackStep
<1>17. ASSUME NEW w \in Worker, RollbackDone(w) PROVE DeletionLogged'
  BY <1>17 DEF RollbackDone, EndCreate, Return, Goto
<1>18. ASSUME NEW w \in Worker, CreateRaises(w) PROVE DeletionLogged'
  BY <1>18 DEF CreateRaises, EndCreate, Return, Goto
<1>19. ASSUME NEW w \in Worker, BeginDelete(w) PROVE DeletionLogged'
  BY <1>19 DEF BeginDelete, Goto
<1>20. ASSUME NEW w \in Worker, ResourceFound(w) PROVE DeletionLogged'
  BY <1>20 DEF ResourceFound, Goto
<1>21. ASSUME NEW w \in Worker, ResourceSkipped(w) PROVE DeletionLogged'
  BY <1>21 DEF ResourceSkipped
<1>22. ASSUME NEW w \in Worker, RemoveResource(w) PROVE DeletionLogged'
  BY <1>22 DEF RemoveResource, Goto
<1>23. ASSUME NEW w \in Worker, DropRow(w) PROVE DeletionLogged'
  BY <1>23 DEF DropRow, Goto
<1>24. ASSUME NEW w \in Worker, AuditDelete(w) PROVE DeletionLogged'
  BY <1>24 DEF AuditDelete, Return, Goto
<1>25. ASSUME NEW w \in Worker, Crash(w) PROVE DeletionLogged'
  BY <1>25 DEF Crash, EndCreate, Return, Goto
<1>26. ASSUME NEW s \in Slug, NamespaceGone(s) PROVE DeletionLogged'
  BY <1>26 DEF NamespaceGone
<1>27. CASE UNCHANGED vars
  BY <1>27 DEF vars
<1>. QED
  BY <1>1, <1>2, <1>3, <1>4, <1>5, <1>6, <1>7, <1>8, <1>9, <1>10, <1>11, <1>12, <1>13, <1>14, <1>15, <1>16, <1>17, <1>18, <1>19, <1>20, <1>21, <1>22, <1>23, <1>24, <1>25, <1>26, <1>27
  DEF Next, Act, Step, CreateStep, DeleteStep

(* Audits follow commits.                                                   *)
LEMMA AuditStep == ASSUME IInv, [Next]_vars PROVE AuditTruthful'
<1> USE NoneAssumption
    DEF IInv, TypeOK, Jobs, AuditTruthful, DeletionLogged, Creating, Deleting, CreateSteps, DeleteSteps, world, database, history, local
<1>1. ASSUME NEW w \in Worker, BeginCreate(w) PROVE AuditTruthful'
  BY <1>1 DEF BeginCreate, Goto, AfterGithub
<1>2. ASSUME NEW w \in Worker, GithubCreated(w) PROVE AuditTruthful'
  BY <1>2 DEF GithubCreated, Goto, AfterGithub
<1>3. ASSUME NEW w \in Worker, GithubRefused(w) PROVE AuditTruthful'
  BY <1>3 DEF GithubRefused, EndCreate, Return, Goto
<1>4. ASSUME NEW w \in Worker, DockerReady(w) PROVE AuditTruthful'
  BY <1>4 DEF DockerReady, Goto
<1>5. ASSUME NEW w \in Worker, DockerFails(w) PROVE AuditTruthful'
  BY <1>5 DEF DockerFails, Goto
<1>6. ASSUME NEW w \in Worker, NamespaceChecked(w) PROVE AuditTruthful'
  BY <1>6 DEF NamespaceChecked, Goto
<1>7. ASSUME NEW w \in Worker, NamespaceCreated(w) PROVE AuditTruthful'
  BY <1>7 DEF NamespaceCreated, Goto
<1>8. ASSUME NEW w \in Worker, NamespaceFails(w) PROVE AuditTruthful'
  BY <1>8 DEF NamespaceFails, StartRollback, Goto
<1>9. ASSUME NEW w \in Worker, Inserted(w) PROVE AuditTruthful'
  BY <1>9 DEF Inserted, Goto, SlugLocked
<1>10. ASSUME NEW w \in Worker, InsertConflicts(w) PROVE AuditTruthful'
  BY <1>10 DEF InsertConflicts, StartRollback, Goto
<1>11. ASSUME NEW w \in Worker, JenkinsFirstPost(w) PROVE AuditTruthful'
  BY <1>11 DEF JenkinsFirstPost, Goto
<1>12. ASSUME NEW w \in Worker, JenkinsReady(w) PROVE AuditTruthful'
  BY <1>12 DEF JenkinsReady, Goto
<1>13. ASSUME NEW w \in Worker, JenkinsFails(w) PROVE AuditTruthful'
  BY <1>13 DEF JenkinsFails, StartRollback, Goto
<1>14. ASSUME NEW w \in Worker, Commit(w) PROVE AuditTruthful'
  BY <1>14 DEF Commit, Goto
<1>15. ASSUME NEW w \in Worker, AuditCreate(w) PROVE AuditTruthful'
  BY <1>15 DEF AuditCreate, Return, Goto
<1>16. ASSUME NEW w \in Worker, RollbackStep(w) PROVE AuditTruthful'
  BY <1>16 DEF RollbackStep
<1>17. ASSUME NEW w \in Worker, RollbackDone(w) PROVE AuditTruthful'
  BY <1>17 DEF RollbackDone, EndCreate, Return, Goto
<1>18. ASSUME NEW w \in Worker, CreateRaises(w) PROVE AuditTruthful'
  BY <1>18 DEF CreateRaises, EndCreate, Return, Goto
<1>19. ASSUME NEW w \in Worker, BeginDelete(w) PROVE AuditTruthful'
  BY <1>19 DEF BeginDelete, Goto
<1>20. ASSUME NEW w \in Worker, ResourceFound(w) PROVE AuditTruthful'
  BY <1>20 DEF ResourceFound, Goto
<1>21. ASSUME NEW w \in Worker, ResourceSkipped(w) PROVE AuditTruthful'
  BY <1>21 DEF ResourceSkipped
<1>22. ASSUME NEW w \in Worker, RemoveResource(w) PROVE AuditTruthful'
  BY <1>22 DEF RemoveResource, Goto
<1>23. ASSUME NEW w \in Worker, DropRow(w) PROVE AuditTruthful'
  BY <1>23 DEF DropRow, Goto
<1>24. ASSUME NEW w \in Worker, AuditDelete(w) PROVE AuditTruthful'
  <2>1. /\ \A i \in Req : <<"app_create", i>> \in trail' => <<"app_create", i>> \in trail
        /\ \A i \in Req : <<"app_hard_delete", i>> \in trail' =>
             <<"app_hard_delete", i>> \in trail \/ i = job[w].id
    BY <1>24 DEF AuditDelete
  <2>2. job[w].id \in dlog /\ UNCHANGED <<dlog, fate>>
    BY <1>24 DEF AuditDelete
  <2>. QED
    BY <2>1, <2>2
<1>25. ASSUME NEW w \in Worker, Crash(w) PROVE AuditTruthful'
  BY <1>25 DEF Crash, EndCreate, Return, Goto
<1>26. ASSUME NEW s \in Slug, NamespaceGone(s) PROVE AuditTruthful'
  BY <1>26 DEF NamespaceGone
<1>27. CASE UNCHANGED vars
  BY <1>27 DEF vars
<1>. QED
  BY <1>1, <1>2, <1>3, <1>4, <1>5, <1>6, <1>7, <1>8, <1>9, <1>10, <1>11, <1>12, <1>13, <1>14, <1>15, <1>16, <1>17, <1>18, <1>19, <1>20, <1>21, <1>22, <1>23, <1>24, <1>25, <1>26, <1>27
  DEF Next, Act, Step, CreateStep, DeleteStep

(* What a committed creation owns belongs to its row.                       *)
LEMMA CommittedOwner ==
    ASSUME IInv, NEW k \in Tracked, NEW t \in Slug,
           owner[k][t] # None, fate[owner[k][t]] = "committed"
    PROVE  row[t] = owner[k][t]
BY DEF IInv, CreationsAccounted

(* Who owns what.                                                           *)
LEMMA OwnersStep == ASSUME IInv, [Next]_vars PROVE Owners'
<1> USE NoneAssumption, Constants DEF IInv, TypeOK, Jobs, Owners, Creating, Deleting, CreateSteps, DeleteSteps
<1>1. ASSUME NEW w \in Worker, BeginCreate(w) PROVE Owners'
  BY <1>1 DEF BeginCreate, Goto, AfterGithub, world, history
<1>2. ASSUME NEW w \in Worker, BeginDelete(w) PROVE Owners'
  <2>1. PICK s \in Slug :
          /\ row[s] # None
          /\ job' = [job EXCEPT ![w] = [slug |-> s, id |-> row[s], plan |-> NoPlan]]
    BY <1>2 DEF BeginDelete
  <2>2. UNCHANGED <<ext, owner, fate>> /\ pc' = [pc EXCEPT ![w] = "check"]
    BY <1>2 DEF BeginDelete, Goto, world
  <2>3. ASSUME NEW k \in Tracked, NEW t \in Slug, owner[k][t] = row[s] PROVE t = s
    <3>1. fate[row[s]] = "committed" /\ \A u \in Slug : row[u] = row[s] => u = s
      BY <2>1 DEF Rows
    <3>2. owner[k][t] # None /\ fate[owner[k][t]] = "committed"
      BY <2>1, <2>3, <3>1
    <3>3. row[t] = owner[k][t]
      BY <3>2, CommittedOwner
    <3>. QED
      BY <2>3, <3>1, <3>3
  <2>. QED
    BY <2>1, <2>2, <2>3
<1>3. ASSUME NEW w \in Worker, Step(w) \/ Crash(w) PROVE Owners'
  <2>1. Frame(w) /\ \A k \in Kind, t \in Slug : Effect(w, k, t)
    BY <1>3, FrameStep, EffectStep DEF Act
  <2>2. ASSUME NEW k \in Kind, NEW s \in Slug, owner'[k][s] # None
        PROVE  ext'[k][s] = "present" /\ fate'[owner'[k][s]] # "unused"
    BY <2>1, <2>2 DEF Frame, Effect
  <2>3. ASSUME NEW k \in Tracked, NEW s \in Slug, NEW v \in Worker,
               Creating(v)' \/ Deleting(v)', owner'[k][s] = job'[v].id
        PROVE  s = job'[v].slug
    <3>1. (Creating(v) \/ Deleting(v)) /\ job'[v] = job[v]
      BY <2>1, <2>3 DEF Frame
    <3>. QED
      <4>1. CASE owner[k][s] = job[v].id
        BY <3>1, <4>1
      <4>2. CASE Creating(w) /\ s = job[w].slug /\ owner'[k][s] = job[w].id
        <5>1. job[v].id = job[w].id /\ job[v].id \in Req
          BY <2>3, <3>1, <4>2
        <5>2. v = w
          BY <3>1, <4>2, <5>1
        <5>. QED
          BY <3>1, <4>2, <5>2
      <4>3. job[v].id # None
        BY <3>1
      <4>. QED
        BY <2>1, <2>3, <3>1, <4>1, <4>2, <4>3 DEF Effect
  <2>. QED
    BY <2>2, <2>3
<1>4. ASSUME NEW s \in Slug, NamespaceGone(s) PROVE Owners'
  BY <1>4 DEF NamespaceGone, history, local
<1>5. CASE UNCHANGED vars
  BY <1>5 DEF vars
<1>. QED
  BY <1>1, <1>2, <1>3, <1>4, <1>5 DEF Next, Act

(* What can be flagged by the first steps of a creation.                    *)
EarlyFlags ==
    \A w \in Worker :
        /\ pc[w] = "github" => flags[w] = {}
        /\ pc[w] = "docker" => flags[w] \subseteq {"github"}
        /\ pc[w] \in {"nsCheck", "nsCreate"} => flags[w] \subseteq {"github", "docker"}
        /\ pc[w] = "idle" => flags[w] = {}

(* Every step preserves that.                                               *)
LEMMA EarlyStep == ASSUME TypeOK, EarlyFlags, [Next]_vars PROVE EarlyFlags'
<1> USE DEF TypeOK, EarlyFlags, Kind, history, local
<1>1. ASSUME NEW w \in Worker, BeginCreate(w) PROVE EarlyFlags'
  BY <1>1 DEF BeginCreate, Goto, AfterGithub
<1>2. ASSUME NEW w \in Worker, GithubCreated(w) PROVE EarlyFlags'
  BY <1>2 DEF GithubCreated, Goto, AfterGithub
<1>3. ASSUME NEW w \in Worker, GithubRefused(w) PROVE EarlyFlags'
  BY <1>3 DEF GithubRefused, EndCreate, Return, Goto
<1>4. ASSUME NEW w \in Worker, DockerReady(w) PROVE EarlyFlags'
  BY <1>4 DEF DockerReady, Goto
<1>5. ASSUME NEW w \in Worker, DockerFails(w) PROVE EarlyFlags'
  BY <1>5 DEF DockerFails, Goto
<1>6. ASSUME NEW w \in Worker, NamespaceChecked(w) PROVE EarlyFlags'
  BY <1>6 DEF NamespaceChecked, Goto
<1>7. ASSUME NEW w \in Worker, NamespaceCreated(w) PROVE EarlyFlags'
  BY <1>7 DEF NamespaceCreated, Goto
<1>8. ASSUME NEW w \in Worker, NamespaceFails(w) PROVE EarlyFlags'
  BY <1>8 DEF NamespaceFails, StartRollback, Goto
<1>9. ASSUME NEW w \in Worker, Inserted(w) PROVE EarlyFlags'
  BY <1>9 DEF Inserted, Goto, SlugLocked
<1>10. ASSUME NEW w \in Worker, InsertConflicts(w) PROVE EarlyFlags'
  BY <1>10 DEF InsertConflicts, StartRollback, Goto
<1>11. ASSUME NEW w \in Worker, JenkinsFirstPost(w) PROVE EarlyFlags'
  BY <1>11 DEF JenkinsFirstPost, Goto
<1>12. ASSUME NEW w \in Worker, JenkinsReady(w) PROVE EarlyFlags'
  BY <1>12 DEF JenkinsReady, Goto
<1>13. ASSUME NEW w \in Worker, JenkinsFails(w) PROVE EarlyFlags'
  BY <1>13 DEF JenkinsFails, StartRollback, Goto
<1>14. ASSUME NEW w \in Worker, Commit(w) PROVE EarlyFlags'
  BY <1>14 DEF Commit, Goto
<1>15. ASSUME NEW w \in Worker, AuditCreate(w) PROVE EarlyFlags'
  BY <1>15 DEF AuditCreate, Return, Goto
<1>16. ASSUME NEW w \in Worker, RollbackStep(w) PROVE EarlyFlags'
  BY <1>16 DEF RollbackStep
<1>17. ASSUME NEW w \in Worker, RollbackDone(w) PROVE EarlyFlags'
  BY <1>17 DEF RollbackDone, EndCreate, Return, Goto
<1>18. ASSUME NEW w \in Worker, CreateRaises(w) PROVE EarlyFlags'
  BY <1>18 DEF CreateRaises, EndCreate, Return, Goto
<1>19. ASSUME NEW w \in Worker, BeginDelete(w) PROVE EarlyFlags'
  BY <1>19 DEF BeginDelete, Goto
<1>20. ASSUME NEW w \in Worker, ResourceFound(w) PROVE EarlyFlags'
  BY <1>20 DEF ResourceFound, Goto
<1>21. ASSUME NEW w \in Worker, ResourceSkipped(w) PROVE EarlyFlags'
  BY <1>21 DEF ResourceSkipped
<1>22. ASSUME NEW w \in Worker, RemoveResource(w) PROVE EarlyFlags'
  BY <1>22 DEF RemoveResource, Goto
<1>23. ASSUME NEW w \in Worker, DropRow(w) PROVE EarlyFlags'
  BY <1>23 DEF DropRow, Goto
<1>24. ASSUME NEW w \in Worker, AuditDelete(w) PROVE EarlyFlags'
  BY <1>24 DEF AuditDelete, Return, Goto
<1>25. ASSUME NEW w \in Worker, Crash(w) PROVE EarlyFlags'
  BY <1>25 DEF Crash, EndCreate, Return, Goto
<1>26. ASSUME NEW s \in Slug, NamespaceGone(s) PROVE EarlyFlags'
  BY <1>26 DEF NamespaceGone
<1>27. CASE UNCHANGED vars
  BY <1>27 DEF vars
<1>. QED
  BY <1>1, <1>2, <1>3, <1>4, <1>5, <1>6, <1>7, <1>8, <1>9, <1>10, <1>11, <1>12, <1>13, <1>14, <1>15, <1>16, <1>17, <1>18, <1>19, <1>20, <1>21, <1>22, <1>23, <1>24, <1>25, <1>26, <1>27
  DEF Next, Act, Step, CreateStep, DeleteStep

(* A request that goes on strikes a kind off its list only by a cleanup.    *)
LEMMA FlagDropped ==
    ASSUME IInv, NEW w \in Worker, Step(w), NEW k \in Tracked,
           k \in flags[w], k \notin flags'[w], pc'[w] # "idle"
    PROVE  CleanUp(k, w) \/ GiveUp(k, w) \/ ext[k][job[w].slug] = "absent"
<1> USE DEF IInv, TypeOK, Flags, Tracked, history, local
<1>1. CASE GithubCreated(w)
  BY <1>1 DEF GithubCreated, Goto, AfterGithub
<1>2. CASE GithubRefused(w)
  BY <1>2 DEF GithubRefused, EndCreate, Return, Goto
<1>3. CASE DockerReady(w)
  BY <1>3 DEF DockerReady, Goto
<1>4. CASE DockerFails(w)
  BY <1>4 DEF DockerFails, Goto
<1>5. CASE NamespaceChecked(w)
  BY <1>5 DEF NamespaceChecked, Goto
<1>6. CASE NamespaceCreated(w)
  BY <1>6 DEF NamespaceCreated, Goto
<1>7. CASE NamespaceFails(w)
  BY <1>7 DEF NamespaceFails, StartRollback, Goto
<1>8. CASE Inserted(w)
  BY <1>8 DEF Inserted, Goto, SlugLocked
<1>9. CASE InsertConflicts(w)
  BY <1>9 DEF InsertConflicts, StartRollback, Goto
<1>10. CASE JenkinsFirstPost(w)
  BY <1>10 DEF JenkinsFirstPost, Goto
<1>11. CASE JenkinsReady(w)
  BY <1>11 DEF JenkinsReady, Goto
<1>12. CASE JenkinsFails(w)
  BY <1>12 DEF JenkinsFails, StartRollback, Goto
<1>13. CASE Commit(w)
  BY <1>13 DEF Commit, Goto
<1>14. CASE AuditCreate(w)
  BY <1>14 DEF AuditCreate, Return, Goto
<1>15. CASE RollbackStep(w)
  BY <1>15 DEF RollbackStep
<1>16. CASE RollbackDone(w)
  BY <1>16 DEF RollbackDone, EndCreate, Return, Goto
<1>17. CASE CreateRaises(w)
  BY <1>17 DEF CreateRaises, EndCreate, Return, Goto
<1>18. CASE ResourceFound(w)
  BY <1>18 DEF ResourceFound, Goto
<1>19. CASE ResourceSkipped(w)
  BY <1>19 DEF ResourceSkipped
<1>20. CASE RemoveResource(w)
  BY <1>20 DEF RemoveResource, Goto
<1>21. CASE DropRow(w)
  BY <1>21 DEF DropRow, Goto
<1>22. CASE AuditDelete(w)
  BY <1>22 DEF AuditDelete, Return, Goto
<1>. QED
  BY <1>1, <1>2, <1>3, <1>4, <1>5, <1>6, <1>7, <1>8, <1>9, <1>10, <1>11, <1>12, <1>13, <1>14, <1>15, <1>16, <1>17, <1>18, <1>19, <1>20, <1>21, <1>22
  DEF Step, CreateStep, DeleteStep

(* How the fate of a creation changes.                                      *)
LEMMA FateChanged ==
    ASSUME TypeOK, NEW w \in Worker, Step(w) \/ Crash(w), Creating(w),
           fate'[job[w].id] # fate[job[w].id]
    PROVE  \/ fate'[job[w].id] \in {"raised", "crashed"}
           \/ pc[w] = "github" \/ flags[w] = {}
           \/ Commit(w)
<1> USE DEF TypeOK, history, local
<1>1. CASE GithubCreated(w)
  BY <1>1 DEF GithubCreated, Goto, AfterGithub
<1>2. CASE GithubRefused(w)
  BY <1>2 DEF GithubRefused, EndCreate, Return, Goto
<1>3. CASE DockerReady(w)
  BY <1>3 DEF DockerReady, Goto
<1>4. CASE DockerFails(w)
  BY <1>4 DEF DockerFails, Goto
<1>5. CASE NamespaceChecked(w)
  BY <1>5 DEF NamespaceChecked, Goto
<1>6. CASE NamespaceCreated(w)
  BY <1>6 DEF NamespaceCreated, Goto
<1>7. CASE NamespaceFails(w)
  BY <1>7 DEF NamespaceFails, StartRollback, Goto
<1>8. CASE Inserted(w)
  BY <1>8 DEF Inserted, Goto, SlugLocked
<1>9. CASE InsertConflicts(w)
  BY <1>9 DEF InsertConflicts, StartRollback, Goto
<1>10. CASE JenkinsFirstPost(w)
  BY <1>10 DEF JenkinsFirstPost, Goto
<1>11. CASE JenkinsReady(w)
  BY <1>11 DEF JenkinsReady, Goto
<1>12. CASE JenkinsFails(w)
  BY <1>12 DEF JenkinsFails, StartRollback, Goto
<1>13. CASE Commit(w)
  BY <1>13 DEF Commit, Goto
<1>14. CASE AuditCreate(w)
  BY <1>14 DEF AuditCreate, Return, Goto
<1>15. CASE RollbackStep(w)
  BY <1>15 DEF RollbackStep
<1>16. CASE RollbackDone(w)
  BY <1>16 DEF RollbackDone, EndCreate, Return, Goto
<1>17. CASE CreateRaises(w)
  BY <1>17 DEF CreateRaises, EndCreate, Return, Goto
<1>18. CASE ResourceFound(w)
  BY <1>18 DEF ResourceFound, Goto
<1>19. CASE ResourceSkipped(w)
  BY <1>19 DEF ResourceSkipped
<1>20. CASE RemoveResource(w)
  BY <1>20 DEF RemoveResource, Goto
<1>21. CASE DropRow(w)
  BY <1>21 DEF DropRow, Goto
<1>22. CASE AuditDelete(w)
  BY <1>22 DEF AuditDelete, Return, Goto
<1>23. CASE Crash(w)
  BY <1>23 DEF Crash, EndCreate, Return, Goto
<1>. QED
  BY <1>1, <1>2, <1>3, <1>4, <1>5, <1>6, <1>7, <1>8, <1>9, <1>10, <1>11, <1>12, <1>13, <1>14, <1>15, <1>16, <1>17, <1>18, <1>19, <1>20, <1>21, <1>22, <1>23
  DEF Step, CreateStep, DeleteStep

(* Who writes the table.                                                    *)
LEMMA RowChanged ==
    ASSUME NEW w \in Worker, Step(w) \/ Crash(w), row' # row
    PROVE  Commit(w) \/ DropRow(w)
<1> USE DEF database
<1>1. CASE GithubCreated(w)
  BY <1>1 DEF GithubCreated, Goto, AfterGithub
<1>2. CASE GithubRefused(w)
  BY <1>2 DEF GithubRefused, EndCreate, Return, Goto
<1>3. CASE DockerReady(w)
  BY <1>3 DEF DockerReady, Goto
<1>4. CASE DockerFails(w)
  BY <1>4 DEF DockerFails, Goto
<1>5. CASE NamespaceChecked(w)
  BY <1>5 DEF NamespaceChecked, Goto
<1>6. CASE NamespaceCreated(w)
  BY <1>6 DEF NamespaceCreated, Goto
<1>7. CASE NamespaceFails(w)
  BY <1>7 DEF NamespaceFails, StartRollback, Goto
<1>8. CASE Inserted(w)
  BY <1>8 DEF Inserted, Goto, SlugLocked
<1>9. CASE InsertConflicts(w)
  BY <1>9 DEF InsertConflicts, StartRollback, Goto
<1>10. CASE JenkinsFirstPost(w)
  BY <1>10 DEF JenkinsFirstPost, Goto
<1>11. CASE JenkinsReady(w)
  BY <1>11 DEF JenkinsReady, Goto
<1>12. CASE JenkinsFails(w)
  BY <1>12 DEF JenkinsFails, StartRollback, Goto
<1>13. CASE Commit(w)
  BY <1>13 DEF Commit, Goto
<1>14. CASE AuditCreate(w)
  BY <1>14 DEF AuditCreate, Return, Goto
<1>15. CASE RollbackStep(w)
  BY <1>15 DEF RollbackStep
<1>16. CASE RollbackDone(w)
  BY <1>16 DEF RollbackDone, EndCreate, Return, Goto
<1>17. CASE CreateRaises(w)
  BY <1>17 DEF CreateRaises, EndCreate, Return, Goto
<1>18. CASE ResourceFound(w)
  BY <1>18 DEF ResourceFound, Goto
<1>19. CASE ResourceSkipped(w)
  BY <1>19 DEF ResourceSkipped
<1>20. CASE RemoveResource(w)
  BY <1>20 DEF RemoveResource, Goto
<1>21. CASE DropRow(w)
  BY <1>21 DEF DropRow, Goto
<1>22. CASE AuditDelete(w)
  BY <1>22 DEF AuditDelete, Return, Goto
<1>23. CASE Crash(w)
  BY <1>23 DEF Crash, EndCreate, Return, Goto
<1>. QED
  BY <1>1, <1>2, <1>3, <1>4, <1>5, <1>6, <1>7, <1>8, <1>9, <1>10, <1>11, <1>12, <1>13, <1>14, <1>15, <1>16, <1>17, <1>18, <1>19, <1>20, <1>21, <1>22, <1>23
  DEF Step, CreateStep, DeleteStep

(* The list of each request stays complete: what a step leaves owned under  *)
(* the slug of a request in progress is still flagged by it.                *)
LEMMA FlagsStep == ASSUME IInv, [Next]_vars PROVE Flags'
<1>1. EarlyFlags'
  BY EarlyStep DEF IInv, Flags, EarlyFlags
<1>2. ASSUME NEW k \in Tracked, NEW v \in Worker, Creating(v)' \/ Deleting(v)',
             owner'[k][job'[v].slug] = job'[v].id
      PROVE  k \in flags'[v]
  <2>1. ASSUME NEW w \in Worker, BeginCreate(w) PROVE k \in flags'[v]
    BY <1>2, <2>1, NoneAssumption, Constants
       DEF BeginCreate, Goto, AfterGithub, IInv, TypeOK, Owners, Flags, world, history,
           Creating, Deleting, CreateSteps, DeleteSteps
  <2>2. ASSUME NEW w \in Worker, BeginDelete(w) PROVE k \in flags'[v]
    BY <1>2, <2>2, Constants
       DEF BeginDelete, Goto, IInv, TypeOK, Flags, world, Creating, Deleting,
           CreateSteps, DeleteSteps
  <2>3. ASSUME NEW w \in Worker, Step(w) \/ Crash(w) PROVE k \in flags'[v]
    <3>1. Frame(w) /\ TypeOK /\ Jobs /\ Jobs'
      BY <2>3, FrameStep, JobsStep DEF IInv, Next, Act
    <3>2. pc[v] # "idle" /\ job'[v] = job[v] /\ pc'[v] # "idle"
      BY <1>2, <3>1 DEF Frame, Creating, Deleting, CreateSteps, DeleteSteps
    <3>3. Creating(v) \/ Deleting(v)
      BY <1>2, <3>1 DEF Frame, Creating, Deleting
    <3>4. k \in Kind /\ job[v].slug \in Slug /\ job[v].id \in Req
      BY <3>1, <3>2, Constants DEF TypeOK
    <3>5. fate'[job[v].id] \in {"running", "committed"}
      BY <1>2, <3>1, <3>2 DEF Jobs
    <3>6. Effect(w, k, job[v].slug)
      BY <2>3, <3>4, EffectStep DEF Act
    <3>7. CASE /\ owner[k][job[v].slug] = job[v].id
               /\ ext'[k][job[v].slug] = ext[k][job[v].slug]
      <4>1. k \in flags[v] /\ ext[k][job[v].slug] = "present"
        BY <3>3, <3>4, <3>7, NoneAssumption DEF IInv, Flags, Owners
      <4>2. CASE v # w
        BY <3>1, <4>1, <4>2 DEF Frame
      <4>3. CASE v = w /\ Step(w)
        <5>1. SUFFICES ASSUME k \notin flags'[w] PROVE FALSE
          BY <4>3
        <5>2. CleanUp(k, w) \/ GiveUp(k, w)
          BY <3>2, <4>1, <4>3, <5>1, FlagDropped
        <5>. QED
          BY <1>2, <3>1, <3>2, <3>4, <4>3, <5>2, CleanUpEffect
      <4>4. CASE v = w /\ Crash(w)
        BY <3>2, <4>4, <3>1, ReturnEffect DEF Crash, EndCreate
      <4>. QED
        BY <2>3, <4>2, <4>3, <4>4
    <3>8. CASE owner'[k][job[v].slug] = job[w].id /\ Creating(w) /\ k \in flags'[w]
      <4>1. job[v].id = job[w].id
        BY <1>2, <3>2, <3>8
      <4>2. Creating(v)
        BY <3>1, <3>3, <3>8, <4>1 DEF Jobs, Deleting
      <4>3. v = w
        BY <3>1, <3>8, <4>1, <4>2 DEF Jobs
      <4>. QED
        BY <3>8, <4>3
    <3>. QED
      BY <1>2, <3>2, <3>4, <3>5, <3>6, <3>7, <3>8, NoneAssumption DEF Effect
  <2>4. ASSUME NEW s \in Slug, NamespaceGone(s) PROVE k \in flags'[v]
    BY <1>2, <2>4 DEF NamespaceGone, local, IInv, Flags, Creating, Deleting
  <2>5. CASE UNCHANGED vars
    BY <1>2, <2>5 DEF vars, IInv, Flags, Creating, Deleting
  <2>. QED
    BY <2>1, <2>2, <2>3, <2>4, <2>5 DEF Next, Act
<1>. QED
  BY <1>1, <1>2 DEF Flags, EarlyFlags

(* Nothing tracked is orphaned: a creation only ends in an orderly way, and *)
(* a row only goes, when the list is empty, and then nothing is owned.      *)
LEMMA AccountedStep == ASSUME IInv, [Next]_vars PROVE CreationsAccounted'
<1>1. SUFFICES ASSUME NEW k \in Tracked, NEW s \in Slug, owner'[k][s] # None
               PROVE  \/ fate'[owner'[k][s]] \in {"running", "raised", "crashed"}
                      \/ row'[s] = owner'[k][s]
  BY DEF CreationsAccounted
<1>2. k \in Kind /\ TypeOK /\ CreationsAccounted
  BY Constants DEF IInv
<1>3. ASSUME NEW w \in Worker, BeginCreate(w) \/ BeginDelete(w)
      PROVE  \/ fate'[owner'[k][s]] \in {"running", "raised", "crashed"}
             \/ row'[s] = owner'[k][s]
  <2>1. UNCHANGED <<owner, row>> /\ \A i \in Req : fate'[i] \in {fate[i], "running"}
    BY <1>2, <1>3 DEF BeginCreate, BeginDelete, TypeOK, world, database
  <2>2. owner[k][s] \in Req
    BY <1>1, <1>2, <2>1 DEF TypeOK
  <2>. QED
    BY <1>1, <1>2, <2>1, <2>2 DEF CreationsAccounted
<1>4. ASSUME NEW w \in Worker, Step(w) \/ Crash(w)
      PROVE  \/ fate'[owner'[k][s]] \in {"running", "raised", "crashed"}
             \/ row'[s] = owner'[k][s]
  <2>1. Frame(w) /\ Effect(w, k, s)
    BY <1>2, <1>4, FrameStep, EffectStep DEF Act
  <2>2. CASE owner'[k][s] = owner[k][s]
    <3> DEFINE i == owner[k][s]
    <3>1. i \in Req /\ i # None
      BY <1>1, <1>2, <2>2 DEF TypeOK
    <3>2. \/ fate[i] \in {"running", "raised", "crashed"}
          \/ row[s] = i /\ fate[i] = "committed"
      BY <1>2, <3>1 DEF CreationsAccounted, IInv, Rows
    <3>3. ASSUME Creating(w) \/ Deleting(w), i = job[w].id
          PROVE  s = job[w].slug /\ k \in flags[w]
      BY <3>1, <3>3 DEF IInv, Owners, Flags
    <3>4. CASE fate'[i] # fate[i]
      <4>1. Creating(w) /\ i = job[w].id
        BY <2>1, <3>1, <3>4 DEF Frame
      <4>2. s = job[w].slug /\ k \in flags[w]
        BY <3>3, <4>1
      <4>3. pc[w] # "github"
        BY <4>2 DEF IInv, Flags
      <4>4. fate'[i] \in {"raised", "crashed"} \/ Commit(w)
        BY <1>2, <1>4, <3>4, <4>1, <4>2, <4>3, FateChanged
      <4>5. CASE Commit(w)
        BY <1>2, <2>2, <4>1, <4>2, <4>5 DEF Commit, TypeOK
      <4>. QED
        BY <2>2, <4>4, <4>5
    <3>5. CASE fate'[i] = fate[i] /\ row[s] = i /\ fate[i] = "committed" /\ row'[s] # row[s]
      <4>1. CASE Commit(w)
        <5>1. job[w].slug \in Slug /\ row[job[w].slug] = None
          BY <1>2, <4>1 DEF IInv, TypeOK, Rows, Commit, Flushed
        <5>. QED
          BY <1>2, <3>1, <3>5, <4>1, <5>1 DEF Commit, TypeOK
      <4>2. CASE DropRow(w)
        <5>1. job[w].slug = s /\ job[w].id = i
          BY <1>2, <3>5, <4>2 DEF DropRow, TypeOK
        <5>2. k \in flags[w]
          BY <3>3, <4>2, <5>1 DEF DropRow, Deleting, DeleteSteps
        <5>. QED
          BY <4>2, <5>2 DEF DropRow
      <4>. QED
        BY <1>4, <3>5, <4>1, <4>2, RowChanged
    <3>. QED
      BY <2>2, <3>2, <3>4, <3>5
  <2>3. CASE Creating(w) /\ owner'[k][s] = job[w].id /\ fate'[job[w].id] \in {"raised", "running"}
    BY <2>3
  <2>. QED
    BY <1>1, <2>1, <2>2, <2>3 DEF Effect
<1>5. ASSUME NEW t \in Slug, NamespaceGone(t)
      PROVE  \/ fate'[owner'[k][s]] \in {"running", "raised", "crashed"}
             \/ row'[s] = owner'[k][s]
  BY <1>1, <1>2, <1>5 DEF NamespaceGone, database, history, CreationsAccounted
<1>6. CASE UNCHANGED vars
  BY <1>1, <1>2, <1>6 DEF vars, CreationsAccounted
<1>. QED
  BY <1>3, <1>4, <1>5, <1>6 DEF Next, Act

(* The inductive invariant holds initially,                                 *)
LEMMA InvInit == Init => IInv
<1> SUFFICES ASSUME Init PROVE IInv
  OBVIOUS
<1>1. TypeOK
  BY TypeInit
<1>. QED
  BY <1>1, Constants DEF Init, IInv, Jobs, Rows, Owners, Flags, CreationsAccounted,
     DeletionLogged, AuditTruthful, Creating, Deleting, CreateSteps, DeleteSteps, Flushed

(* and every step preserves it.                                             *)
LEMMA InvStep == IInv /\ [Next]_vars => IInv'
<1> SUFFICES ASSUME IInv, [Next]_vars PROVE IInv'
  OBVIOUS
<1>1. TypeOK'
  BY TypeStep DEF IInv
<1>. QED
  BY <1>1, JobsStep, RowsStep, OwnersStep, FlagsStep, AccountedStep, LoggedStep, AuditStep
  DEF IInv

(* So it holds always.                                                      *)
THEOREM Invariant == Spec => []IInv
BY InvInit, InvStep, PTL DEF Spec

(* The variables keep their types, and a busy worker its request.           *)
THEOREM TypeCorrect == Spec => []TypeOK
<1>1. IInv => TypeOK
  BY DEF IInv
<1>. QED
  BY <1>1, Invariant, PTL

(* Neither the rollback of a creation nor the deletion of an application    *)
(* loses track of a repository or namespace (apps/service.py).              *)
THEOREM CreationsAreAccounted == Spec => []CreationsAccounted
<1>1. IInv => CreationsAccounted
  BY DEF IInv
<1>. QED
  BY <1>1, Invariant, PTL

(* An application is gone exactly when its deletion log exists.             *)
THEOREM DeletionsAreLogged == Spec => []DeletionLogged
<1>1. IInv => DeletionLogged
  BY DEF IInv
<1>. QED
  BY <1>1, Invariant, PTL

(* The audit trail tells of committed changes only.                         *)
THEOREM AuditIsTruthful == Spec => []AuditTruthful
<1>1. IInv => AuditTruthful
  BY DEF IInv
<1>. QED
  BY <1>1, Invariant, PTL

-----------------------------------------------------------------------------
(* Requests do not overlap.                                                 *)
(* Only namespaces take their time to go.                                   *)
Settled == \A k \in Kind \ {"namespace"}, s \in Slug : ext[k][s] # "terminating"

(* What a rollback would remove is what the creation has made: the flag of  *)
(* Jenkins is only set where no rollback can follow.                        *)
Flagged(w) ==
    Creating(w) /\ pc[w] # "commit" =>
       \A k \in flags[w] : k # "jenkins" /\ owner[k][job[w].slug] = job[w].id

(* No namespace has come up since this creation found none.                 *)
StillFree(w) == pc[w] = "nsCreate" => ext["namespace"][job[w].slug] = "absent"

(* A creation that is still going to give status ok has what it is past of. *)
Made(w) ==
    LET s == job[w].slug
        p == job[w].plan IN
    /\ Creating(w) /\ pc[w] # "rollback" /\ status[w] = "ok" =>
          /\ p.github # "none"
          /\ p.github = "create" /\ pc[w] # "github" => owner["github"][s] = job[w].id
          /\ ~p.dockerGiven /\ pc[w] \notin {"github", "docker"} => ext["docker"][s] = "present"
    /\ pc[w] = "commit" => ext["jenkins"][s] = "present"

(* What an app with status ok needs, and nobody has asked for its deletion. *)
Ok(s) == row[s] # None /\ info[s].status = "ok" /\ row[s] \notin doomed

Backed(s) ==
    /\ info[s].plan.github # "none"
    /\ info[s].plan.github = "create" => owner["github"][s] = row[s]
    /\ ~info[s].plan.dockerGiven => ext["docker"][s] = "present"
    /\ ext["jenkins"][s] = "present"

(* A creation that has made the Docker repository of a slug has not made    *)
(* the one that an app of that slug needs.                                  *)
Spares(w) ==
    Creating(w) /\ "docker" \in flags[w] /\ Ok(job[w].slug)
       => info[job[w].slug].plan.dockerGiven

(* A deletion works on an app whose deletion has been asked for.            *)
Erases(w) == Deleting(w) => row[job[w].slug] = job[w].id /\ job[w].id \in doomed

Serves(w) == Flagged(w) /\ StillFree(w) /\ Made(w) /\ Spares(w) /\ Erases(w)

SerialInv ==
    IInv /\ Settled /\ (\A s \in Slug : Ok(s) => Backed(s)) /\ \A w \in Worker : Serves(w)

(* A creating call changes the one resource, if it was not there, ...       *)
LEMMA MakeChanges ==
    ASSUME TypeOK, NEW k \in Kind, NEW w \in Worker, pc[w] # "idle",
           Make(k, w) \/ FailMake(k, w)
    PROVE  /\ \A j \in Kind, t \in Slug :
                j # k \/ t # job[w].slug \/ ext[k][job[w].slug] # "absent" =>
                   owner'[j][t] = owner[j][t] /\ ext'[j][t] = ext[j][t]
           /\ ext'[k][job[w].slug] \in {ext[k][job[w].slug], "present"}
           /\ Make(k, w) /\ ext[k][job[w].slug] = "absent" =>
                 /\ owner'[k][job[w].slug] = job[w].id
                 /\ ext'[k][job[w].slug] = "present"
<1> DEFINE s == job[w].slug
<1>1. s \in Slug /\ job[w].id \in Req
  BY DEF TypeOK
<1>2. CASE UNCHANGED world /\ ~Make(k, w)
  BY <1>2 DEF world
<1>3. CASE Make(k, w)
  BY <1>1, <1>3 DEF TypeOK, Make, world
<1>. QED
  BY <1>2, <1>3 DEF FailMake

(* and a cleanup changes the one resource that it is about.                 *)
LEMMA CleanUpChanges ==
    ASSUME TypeOK, NEW k \in Kind, NEW w \in Worker, pc[w] # "idle",
           CleanUp(k, w) \/ GiveUp(k, w)
    PROVE  /\ \A j \in Kind, t \in Slug :
                j # k \/ t # job[w].slug =>
                   owner'[j][t] = owner[j][t] /\ ext'[j][t] = ext[j][t]
           /\ k # "namespace" => ext'[k][job[w].slug] \in {ext[k][job[w].slug], "absent"}
<1>1. job[w].slug \in Slug /\ job[w].id \in Req
  BY DEF TypeOK
<1>. QED
  BY <1>1 DEF TypeOK, CleanUp, Unmake, GiveUp

(* A worker that is busy has a request.                                     *)
LEMMA Busy ==
    ASSUME SerialInv, NEW w \in Worker, pc[w] # "idle"
    PROVE  job[w].slug \in Slug /\ job[w].id # None
BY NoneAssumption DEF SerialInv, IInv, TypeOK

(* A creating call leaves what is there, and what it makes is there and     *)
(* owned by its creation.                                                   *)
LEMMA MakeKeeps ==
    ASSUME SerialInv, NEW k \in Kind, NEW w \in Worker, pc[w] # "idle",
           Make(k, w) \/ FailMake(k, w)
    PROVE  /\ \A j \in Kind, t \in Slug :
                /\ owner[j][t] # None => owner'[j][t] = owner[j][t]
                /\ ext[j][t] = "present" => ext'[j][t] = "present"
           /\ Make(k, w) /\ ext[k][job[w].slug] = "absent" => owner'[k][job[w].slug] = job[w].id
           /\ Make(k, w) /\ k # "namespace" => ext'[k][job[w].slug] = "present"
<1>1. job[w].slug \in Slug /\ TypeOK
  BY DEF SerialInv, IInv, TypeOK
<1>2. \A j \in Kind, t \in Slug : owner[j][t] # None => ext[j][t] = "present"
  BY DEF SerialInv, IInv, Owners
<1>3. k # "namespace" => ext[k][job[w].slug] \in {"absent", "present"}
  BY <1>1 DEF SerialInv, Settled, TypeOK
<1>. QED
  BY <1>1, <1>2, <1>3, MakeChanges

(* The list of a creation is what it has made.                              *)
LEMMA FlaggedStep ==
    ASSUME SerialInv, NEW w \in Worker, Act(w)
    PROVE  Flagged(w)'
<1> USE NoneAssumption DEF SerialInv, IInv, TypeOK, Serves, Flags, Flagged, Creating, CreateSteps, DeleteSteps,
              world, database, history, local
<1>1. CASE BeginCreate(w)
  BY <1>1 DEF BeginCreate, Goto, AfterGithub
<1>2. CASE GithubCreated(w)
  <2>1. pc[w] # "idle" /\ "github" \in Kind /\ (Make("github", w))
    BY <1>2 DEF GithubCreated, Kind
  <2>. QED
    BY <1>2, <2>1, MakeChanges DEF GithubCreated, Goto, AfterGithub, Kind
<1>3. CASE GithubRefused(w)
  BY <1>3 DEF GithubRefused, EndCreate, Return, Goto
<1>4. CASE DockerReady(w)
  <2>1. Creating(w) /\ pc[w] \notin {"idle", "commit"} /\ "docker" \in Kind /\ Make("docker", w)
    BY <1>4 DEF DockerReady, Kind
  <2>2. job' = job /\ flags[w] \subseteq Kind /\ flags'[w] = IF ext["docker"][job[w].slug] = "absent" THEN flags[w] \cup {"docker"} ELSE flags[w]
    BY <1>4 DEF DockerReady, Kind
  <2>3. Flagged(w)
    OBVIOUS
  <2>. QED
    <3> HIDE DEF SerialInv, IInv, TypeOK, Serves, Flags, Creating
    <3>. QED
      BY <2>1, <2>2, <2>3, Busy, MakeKeeps DEF world
<1>5. CASE DockerFails(w)
  <2>1. pc[w] # "idle" /\ "docker" \in Kind /\ (FailMake("docker", w))
    BY <1>5 DEF DockerFails, Kind
  <2>. QED
    BY <1>5, <2>1, MakeChanges DEF DockerFails, Goto, Kind, Owners
<1>6. CASE NamespaceChecked(w)
  BY <1>6 DEF NamespaceChecked, Goto
<1>7. CASE NamespaceCreated(w)
  <2>1. Creating(w) /\ pc[w] \notin {"idle", "commit"} /\ "namespace" \in Kind /\ Make("namespace", w) /\ ext["namespace"][job[w].slug] = "absent"
    BY <1>7 DEF NamespaceCreated, Kind, StillFree
  <2>2. job' = job /\ flags[w] \subseteq Kind /\ flags'[w] = flags[w] \cup {"namespace"}
    BY <1>7 DEF NamespaceCreated, Kind, StillFree
  <2>3. Flagged(w)
    OBVIOUS
  <2>. QED
    <3> HIDE DEF SerialInv, IInv, TypeOK, Serves, Flags, Creating
    <3>. QED
      BY <2>1, <2>2, <2>3, Busy, MakeKeeps DEF world
<1>8. CASE NamespaceFails(w)
  <2>1. Creating(w) /\ pc[w] \notin {"idle", "commit"} /\ "namespace" \in Kind /\ (UNCHANGED world \/ FailMake("namespace", w))
    BY <1>8 DEF NamespaceFails, StartRollback, Kind
  <2>2. job' = job /\ flags[w] \subseteq Kind /\ flags'[w] = flags[w] \cap {"github"}
    BY <1>8 DEF NamespaceFails, StartRollback, Kind
  <2>3. Flagged(w)
    OBVIOUS
  <2>. QED
    <3> HIDE DEF SerialInv, IInv, TypeOK, Serves, Flags, Creating
    <3>. QED
      BY <2>1, <2>2, <2>3, Busy, MakeKeeps DEF world
<1>9. CASE Inserted(w)
  BY <1>9 DEF Inserted, Goto
<1>10. CASE InsertConflicts(w)
  BY <1>10 DEF InsertConflicts, StartRollback, Goto
<1>11. CASE JenkinsFirstPost(w)
  <2>1. Creating(w) /\ pc[w] \notin {"idle", "commit"} /\ "jenkins" \in Kind /\ (UNCHANGED world \/ Make("jenkins", w))
    BY <1>11 DEF JenkinsFirstPost, Kind
  <2>2. job' = job /\ flags[w] \subseteq Kind /\ flags'[w] = flags[w]
    BY <1>11 DEF JenkinsFirstPost, Kind
  <2>3. Flagged(w)
    OBVIOUS
  <2>. QED
    <3> HIDE DEF SerialInv, IInv, TypeOK, Serves, Flags, Creating
    <3>. QED
      BY <2>1, <2>2, <2>3, Busy, MakeKeeps DEF world
<1>12. CASE JenkinsReady(w)
  <2>1. pc'[w] = "commit"
    BY <1>12 DEF JenkinsReady, Goto
  <2>. QED
    BY <2>1
<1>13. CASE JenkinsFails(w)
  <2>1. Creating(w) /\ pc[w] \notin {"idle", "commit"} /\ "jenkins" \in Kind /\ FailMake("jenkins", w)
    BY <1>13 DEF JenkinsFails, StartRollback, Kind
  <2>2. job' = job /\ flags[w] \subseteq Kind /\ flags'[w] = flags[w]
    BY <1>13 DEF JenkinsFails, StartRollback, Kind
  <2>3. Flagged(w)
    OBVIOUS
  <2>. QED
    <3> HIDE DEF SerialInv, IInv, TypeOK, Serves, Flags, Creating
    <3>. QED
      BY <2>1, <2>2, <2>3, Busy, MakeKeeps DEF world
<1>14. CASE Commit(w)
  BY <1>14 DEF Commit, Goto
<1>15. CASE AuditCreate(w)
  BY <1>15 DEF AuditCreate, Return, Goto
<1>16. CASE RollbackStep(w)
  <2>1. PICK k \in Kind : k \in flags[w] /\ flags' = [flags EXCEPT ![w] = @ \ {k}] /\ CleanUp(k, w)
    BY <1>16 DEF RollbackStep, IsNext
  <2>2. pc[w] = "rollback" /\ pc' = pc /\ job' = job /\ job[w].slug \in Slug
    BY <1>16 DEF RollbackStep
  <2>3. \A j \in Kind \ {k} : owner'[j][job[w].slug] = owner[j][job[w].slug]
    BY <2>1, <2>2, CleanUpChanges
  <2>. QED
    BY <2>1, <2>2, <2>3
<1>17. CASE RollbackDone(w)
  BY <1>17 DEF RollbackDone, EndCreate, Return, Goto
<1>18. CASE CreateRaises(w)
  BY <1>18 DEF CreateRaises, EndCreate, Return, Goto
<1>19. CASE BeginDelete(w)
  BY <1>19 DEF BeginDelete, Goto
<1>20. CASE ResourceFound(w)
  BY <1>20 DEF ResourceFound, Goto
<1>21. CASE ResourceSkipped(w)
  BY <1>21 DEF ResourceSkipped
<1>22. CASE RemoveResource(w)
  BY <1>22 DEF RemoveResource, Goto
<1>23. CASE DropRow(w)
  BY <1>23 DEF DropRow, Goto
<1>24. CASE AuditDelete(w)
  BY <1>24 DEF AuditDelete, Return, Goto
<1>25. CASE Crash(w)
  BY <1>25 DEF Crash, EndCreate, Return, Goto
<1>. QED
  BY <1>1, <1>2, <1>3, <1>4, <1>5, <1>6, <1>7, <1>8, <1>9, <1>10, <1>11, <1>12, <1>13,
     <1>14, <1>15, <1>16, <1>17, <1>18, <1>19, <1>20, <1>21, <1>22, <1>23, <1>24, <1>25
     DEF Act, Step, CreateStep, DeleteStep

(* One request is the only one that could make the namespace.               *)
LEMMA StillFreeStep ==
    ASSUME SerialInv, NEW w \in Worker, Act(w)
    PROVE  StillFree(w)'
<1> USE DEF SerialInv, IInv, TypeOK, Serves, StillFree, world, database, history, local
<1>1. CASE BeginCreate(w)
  BY <1>1 DEF BeginCreate, Goto, AfterGithub
<1>2. CASE GithubCreated(w)
  BY <1>2 DEF GithubCreated, Goto, AfterGithub
<1>3. CASE GithubRefused(w)
  BY <1>3 DEF GithubRefused, EndCreate, Return, Goto
<1>4. CASE DockerReady(w)
  BY <1>4 DEF DockerReady, Goto
<1>5. CASE DockerFails(w)
  BY <1>5 DEF DockerFails, Goto
<1>6. CASE NamespaceChecked(w)
  BY <1>6 DEF NamespaceChecked, Goto
<1>7. CASE NamespaceCreated(w)
  BY <1>7 DEF NamespaceCreated, Goto
<1>8. CASE NamespaceFails(w)
  BY <1>8 DEF NamespaceFails, StartRollback, Goto
<1>9. CASE Inserted(w)
  BY <1>9 DEF Inserted, Goto
<1>10. CASE InsertConflicts(w)
  BY <1>10 DEF InsertConflicts, StartRollback, Goto
<1>11. CASE JenkinsFirstPost(w)
  BY <1>11 DEF JenkinsFirstPost, Goto
<1>12. CASE JenkinsReady(w)
  BY <1>12 DEF JenkinsReady, Goto
<1>13. CASE JenkinsFails(w)
  BY <1>13 DEF JenkinsFails, StartRollback, Goto
<1>14. CASE Commit(w)
  BY <1>14 DEF Commit, Goto
<1>15. CASE AuditCreate(w)
  BY <1>15 DEF AuditCreate, Return, Goto
<1>16. CASE RollbackStep(w)
  BY <1>16 DEF RollbackStep
<1>17. CASE RollbackDone(w)
  BY <1>17 DEF RollbackDone, EndCreate, Return, Goto
<1>18. CASE CreateRaises(w)
  BY <1>18 DEF CreateRaises, EndCreate, Return, Goto
<1>19. CASE BeginDelete(w)
  BY <1>19 DEF BeginDelete, Goto
<1>20. CASE ResourceFound(w)
  BY <1>20 DEF ResourceFound, Goto
<1>21. CASE ResourceSkipped(w)
  BY <1>21 DEF ResourceSkipped
<1>22. CASE RemoveResource(w)
  BY <1>22 DEF RemoveResource, Goto
<1>23. CASE DropRow(w)
  BY <1>23 DEF DropRow, Goto
<1>24. CASE AuditDelete(w)
  BY <1>24 DEF AuditDelete, Return, Goto
<1>25. CASE Crash(w)
  BY <1>25 DEF Crash, EndCreate, Return, Goto
<1>. QED
  BY <1>1, <1>2, <1>3, <1>4, <1>5, <1>6, <1>7, <1>8, <1>9, <1>10, <1>11, <1>12, <1>13,
     <1>14, <1>15, <1>16, <1>17, <1>18, <1>19, <1>20, <1>21, <1>22, <1>23, <1>24, <1>25
     DEF Act, Step, CreateStep, DeleteStep

(* A creation with status ok gets on.                                       *)
LEMMA MadeStep ==
    ASSUME SerialInv, NEW w \in Worker, Act(w)
    PROVE  Made(w)'
<1> USE NoneAssumption DEF SerialInv, IInv, TypeOK, Serves, Made, Plan, Job, Kind, Creating, CreateSteps, DeleteSteps,
              world, database, history, local
<1>1. CASE BeginCreate(w)
  BY <1>1 DEF BeginCreate, Goto, AfterGithub
<1>2. CASE GithubCreated(w)
  <2>1. pc[w] # "idle" /\ "github" \in Kind /\ Make("github", w)
    BY <1>2 DEF GithubCreated, Goto, AfterGithub
  <2>2. job' = job /\ status'[w] = status[w] /\ pc'[w] = AfterGithub(job[w].plan)
    BY <1>2 DEF GithubCreated, Goto, AfterGithub
  <2>3. Made(w) /\ Creating(w) /\ pc[w] # "rollback"
    BY <1>2 DEF GithubCreated, Goto, AfterGithub
  <2>. QED
    <3> HIDE DEF SerialInv, IInv, TypeOK, Serves, Plan, Job
    <3>. QED
      BY <1>2, <2>1, <2>2, <2>3, Busy, MakeKeeps DEF GithubCreated, Goto, AfterGithub
<1>3. CASE GithubRefused(w)
  BY <1>3 DEF GithubRefused, EndCreate, Return, Goto
<1>4. CASE DockerReady(w)
  <2>1. pc[w] # "idle" /\ "docker" \in Kind /\ Make("docker", w)
    BY <1>4 DEF DockerReady, Goto
  <2>2. job' = job /\ status'[w] = status[w] /\ pc'[w] = "nsCheck"
    BY <1>4 DEF DockerReady, Goto
  <2>3. Made(w) /\ Creating(w) /\ pc[w] # "rollback"
    BY <1>4 DEF DockerReady, Goto
  <2>. QED
    <3> HIDE DEF SerialInv, IInv, TypeOK, Serves, Plan, Job
    <3>. QED
      BY <1>4, <2>1, <2>2, <2>3, Busy, MakeKeeps DEF DockerReady, Goto
<1>5. CASE DockerFails(w)
  BY <1>5 DEF DockerFails, Goto
<1>6. CASE NamespaceChecked(w)
  BY <1>6 DEF NamespaceChecked, Goto
<1>7. CASE NamespaceCreated(w)
  <2>1. pc[w] # "idle" /\ "namespace" \in Kind /\ Make("namespace", w)
    BY <1>7 DEF NamespaceCreated, Goto
  <2>2. job' = job /\ status'[w] = status[w] /\ pc'[w] = "insert"
    BY <1>7 DEF NamespaceCreated, Goto
  <2>3. Made(w) /\ Creating(w) /\ pc[w] # "rollback"
    BY <1>7 DEF NamespaceCreated, Goto
  <2>. QED
    <3> HIDE DEF SerialInv, IInv, TypeOK, Serves, Plan, Job
    <3>. QED
      BY <1>7, <2>1, <2>2, <2>3, Busy, MakeKeeps DEF NamespaceCreated, Goto
<1>8. CASE NamespaceFails(w)
  BY <1>8 DEF NamespaceFails, StartRollback, Goto
<1>9. CASE Inserted(w)
  BY <1>9 DEF Inserted, Goto
<1>10. CASE InsertConflicts(w)
  BY <1>10 DEF InsertConflicts, StartRollback, Goto
<1>11. CASE JenkinsFirstPost(w)
  <2>1. pc[w] # "idle" /\ "jenkins" \in Kind /\ (Make("jenkins", w) \/ UNCHANGED world)
    BY <1>11 DEF JenkinsFirstPost, Goto
  <2>2. job' = job /\ status'[w] = status[w] /\ pc'[w] = "jenkins2"
    BY <1>11 DEF JenkinsFirstPost, Goto
  <2>3. Made(w) /\ Creating(w) /\ pc[w] # "rollback"
    BY <1>11 DEF JenkinsFirstPost, Goto
  <2>. QED
    <3> HIDE DEF SerialInv, IInv, TypeOK, Serves, Plan, Job
    <3>. QED
      BY <1>11, <2>1, <2>2, <2>3, Busy, MakeKeeps DEF JenkinsFirstPost, Goto
<1>12. CASE JenkinsReady(w)
  <2>1. pc[w] # "idle" /\ "jenkins" \in Kind /\ Make("jenkins", w)
    BY <1>12 DEF JenkinsReady, Goto
  <2>2. job' = job /\ status'[w] = status[w] /\ pc'[w] = "commit"
    BY <1>12 DEF JenkinsReady, Goto
  <2>3. Made(w) /\ Creating(w) /\ pc[w] # "rollback"
    BY <1>12 DEF JenkinsReady, Goto
  <2>. QED
    <3> HIDE DEF SerialInv, IInv, TypeOK, Serves, Plan, Job
    <3>. QED
      BY <1>12, <2>1, <2>2, <2>3, Busy, MakeKeeps DEF JenkinsReady, Goto
<1>13. CASE JenkinsFails(w)
  BY <1>13 DEF JenkinsFails, StartRollback, Goto
<1>14. CASE Commit(w)
  BY <1>14 DEF Commit, Goto
<1>15. CASE AuditCreate(w)
  BY <1>15 DEF AuditCreate, Return, Goto
<1>16. CASE RollbackStep(w)
  BY <1>16 DEF RollbackStep
<1>17. CASE RollbackDone(w)
  BY <1>17 DEF RollbackDone, EndCreate, Return, Goto
<1>18. CASE CreateRaises(w)
  BY <1>18 DEF CreateRaises, EndCreate, Return, Goto
<1>19. CASE BeginDelete(w)
  BY <1>19 DEF BeginDelete, Goto
<1>20. CASE ResourceFound(w)
  BY <1>20 DEF ResourceFound, Goto
<1>21. CASE ResourceSkipped(w)
  BY <1>21 DEF ResourceSkipped
<1>22. CASE RemoveResource(w)
  BY <1>22 DEF RemoveResource, Goto
<1>23. CASE DropRow(w)
  BY <1>23 DEF DropRow, Goto
<1>24. CASE AuditDelete(w)
  BY <1>24 DEF AuditDelete, Return, Goto
<1>25. CASE Crash(w)
  BY <1>25 DEF Crash, EndCreate, Return, Goto
<1>. QED
  BY <1>1, <1>2, <1>3, <1>4, <1>5, <1>6, <1>7, <1>8, <1>9, <1>10, <1>11, <1>12, <1>13,
     <1>14, <1>15, <1>16, <1>17, <1>18, <1>19, <1>20, <1>21, <1>22, <1>23, <1>24, <1>25
     DEF Act, Step, CreateStep, DeleteStep

(* A Docker repository that an app needs is not made again.                 *)
LEMMA SparesStep ==
    ASSUME SerialInv, NEW w \in Worker, Act(w)
    PROVE  Spares(w)'
<1> USE NoneAssumption DEF SerialInv, IInv, TypeOK, Serves, Flags, Spares, Ok, Creating, CreateSteps, DeleteSteps,
              world, database, history, local
<1>1. CASE BeginCreate(w)
  BY <1>1 DEF BeginCreate, Goto, AfterGithub
<1>2. CASE GithubCreated(w)
  BY <1>2 DEF GithubCreated, Goto, AfterGithub
<1>3. CASE GithubRefused(w)
  BY <1>3 DEF GithubRefused, EndCreate, Return, Goto
<1>4. CASE DockerReady(w)
  <2>1. Ok(job[w].slug) => Backed(job[w].slug)
    BY <1>4 DEF DockerReady
  <2>. QED
    BY <1>4, <2>1 DEF DockerReady, Goto, Backed
<1>5. CASE DockerFails(w)
  BY <1>5 DEF DockerFails, Goto
<1>6. CASE NamespaceChecked(w)
  BY <1>6 DEF NamespaceChecked, Goto
<1>7. CASE NamespaceCreated(w)
  BY <1>7 DEF NamespaceCreated, Goto
<1>8. CASE NamespaceFails(w)
  BY <1>8 DEF NamespaceFails, StartRollback, Goto
<1>9. CASE Inserted(w)
  BY <1>9 DEF Inserted, Goto
<1>10. CASE InsertConflicts(w)
  BY <1>10 DEF InsertConflicts, StartRollback, Goto
<1>11. CASE JenkinsFirstPost(w)
  BY <1>11 DEF JenkinsFirstPost, Goto
<1>12. CASE JenkinsReady(w)
  BY <1>12 DEF JenkinsReady, Goto
<1>13. CASE JenkinsFails(w)
  BY <1>13 DEF JenkinsFails, StartRollback, Goto
<1>14. CASE Commit(w)
  BY <1>14 DEF Commit, Goto
<1>15. CASE AuditCreate(w)
  BY <1>15 DEF AuditCreate, Return, Goto
<1>16. CASE RollbackStep(w)
  BY <1>16 DEF RollbackStep
<1>17. CASE RollbackDone(w)
  BY <1>17 DEF RollbackDone, EndCreate, Return, Goto
<1>18. CASE CreateRaises(w)
  BY <1>18 DEF CreateRaises, EndCreate, Return, Goto
<1>19. CASE BeginDelete(w)
  BY <1>19 DEF BeginDelete, Goto
<1>20. CASE ResourceFound(w)
  BY <1>20 DEF ResourceFound, Goto
<1>21. CASE ResourceSkipped(w)
  BY <1>21 DEF ResourceSkipped
<1>22. CASE RemoveResource(w)
  BY <1>22 DEF RemoveResource, Goto
<1>23. CASE DropRow(w)
  BY <1>23 DEF DropRow, Goto
<1>24. CASE AuditDelete(w)
  BY <1>24 DEF AuditDelete, Return, Goto
<1>25. CASE Crash(w)
  BY <1>25 DEF Crash, EndCreate, Return, Goto
<1>. QED
  BY <1>1, <1>2, <1>3, <1>4, <1>5, <1>6, <1>7, <1>8, <1>9, <1>10, <1>11, <1>12, <1>13,
     <1>14, <1>15, <1>16, <1>17, <1>18, <1>19, <1>20, <1>21, <1>22, <1>23, <1>24, <1>25
     DEF Act, Step, CreateStep, DeleteStep

(* The row of a deletion is there until it drops it.                        *)
LEMMA ErasesStep ==
    ASSUME SerialInv, NEW w \in Worker, Act(w)
    PROVE  Erases(w)'
<1> USE NoneAssumption DEF SerialInv, IInv, TypeOK, Serves, Erases, Deleting, CreateSteps, DeleteSteps,
              world, database, history, local
<1>1. CASE BeginCreate(w)
  BY <1>1 DEF BeginCreate, Goto, AfterGithub
<1>2. CASE GithubCreated(w)
  BY <1>2 DEF GithubCreated, Goto, AfterGithub
<1>3. CASE GithubRefused(w)
  BY <1>3 DEF GithubRefused, EndCreate, Return, Goto
<1>4. CASE DockerReady(w)
  BY <1>4 DEF DockerReady, Goto
<1>5. CASE DockerFails(w)
  BY <1>5 DEF DockerFails, Goto
<1>6. CASE NamespaceChecked(w)
  BY <1>6 DEF NamespaceChecked, Goto
<1>7. CASE NamespaceCreated(w)
  BY <1>7 DEF NamespaceCreated, Goto
<1>8. CASE NamespaceFails(w)
  BY <1>8 DEF NamespaceFails, StartRollback, Goto
<1>9. CASE Inserted(w)
  BY <1>9 DEF Inserted, Goto
<1>10. CASE InsertConflicts(w)
  BY <1>10 DEF InsertConflicts, StartRollback, Goto
<1>11. CASE JenkinsFirstPost(w)
  BY <1>11 DEF JenkinsFirstPost, Goto
<1>12. CASE JenkinsReady(w)
  BY <1>12 DEF JenkinsReady, Goto
<1>13. CASE JenkinsFails(w)
  BY <1>13 DEF JenkinsFails, StartRollback, Goto
<1>14. CASE Commit(w)
  BY <1>14 DEF Commit, Goto
<1>15. CASE AuditCreate(w)
  BY <1>15 DEF AuditCreate, Return, Goto
<1>16. CASE RollbackStep(w)
  BY <1>16 DEF RollbackStep
<1>17. CASE RollbackDone(w)
  BY <1>17 DEF RollbackDone, EndCreate, Return, Goto
<1>18. CASE CreateRaises(w)
  BY <1>18 DEF CreateRaises, EndCreate, Return, Goto
<1>19. CASE BeginDelete(w)
  BY <1>19 DEF BeginDelete, Goto
<1>20. CASE ResourceFound(w)
  BY <1>20 DEF ResourceFound, Goto
<1>21. CASE ResourceSkipped(w)
  BY <1>21 DEF ResourceSkipped
<1>22. CASE RemoveResource(w)
  BY <1>22 DEF RemoveResource, Goto
<1>23. CASE DropRow(w)
  BY <1>23 DEF DropRow, Goto
<1>24. CASE AuditDelete(w)
  BY <1>24 DEF AuditDelete, Return, Goto
<1>25. CASE Crash(w)
  BY <1>25 DEF Crash, EndCreate, Return, Goto
<1>. QED
  BY <1>1, <1>2, <1>3, <1>4, <1>5, <1>6, <1>7, <1>8, <1>9, <1>10, <1>11, <1>12, <1>13,
     <1>14, <1>15, <1>16, <1>17, <1>18, <1>19, <1>20, <1>21, <1>22, <1>23, <1>24, <1>25
     DEF Act, Step, CreateStep, DeleteStep

(* What a step of a worker may do to the world.                             *)
Called(w) ==
    \/ UNCHANGED world
    \/ Creating(w) /\ pc[w] # "rollback" /\ \E k \in Kind : Make(k, w) \/ FailMake(k, w)
    \/ pc[w] = "rollback" /\ \E k \in flags[w] : CleanUp(k, w)
    \/ Deleting(w) /\ \E k \in Kind : CleanUp(k, w) \/ GiveUp(k, w)

(* Every step of a worker makes one call at most.                           *)
LEMMA CalledStep ==
    ASSUME SerialInv, NEW w \in Worker, Act(w)
    PROVE  Called(w)
<1> USE DEF SerialInv, IInv, TypeOK, Called, Creating, Deleting, CreateSteps, DeleteSteps, Kind, world
<1>1. CASE BeginCreate(w)
  BY <1>1 DEF BeginCreate, Goto, AfterGithub
<1>2. CASE GithubCreated(w)
  BY <1>2 DEF GithubCreated, Goto, AfterGithub
<1>3. CASE GithubRefused(w)
  BY <1>3 DEF GithubRefused, EndCreate, Return, Goto
<1>4. CASE DockerReady(w)
  BY <1>4 DEF DockerReady, Goto
<1>5. CASE DockerFails(w)
  BY <1>5 DEF DockerFails, Goto
<1>6. CASE NamespaceChecked(w)
  BY <1>6 DEF NamespaceChecked, Goto
<1>7. CASE NamespaceCreated(w)
  BY <1>7 DEF NamespaceCreated, Goto
<1>8. CASE NamespaceFails(w)
  BY <1>8 DEF NamespaceFails, StartRollback, Goto
<1>9. CASE Inserted(w)
  BY <1>9 DEF Inserted, Goto
<1>10. CASE InsertConflicts(w)
  BY <1>10 DEF InsertConflicts, StartRollback, Goto
<1>11. CASE JenkinsFirstPost(w)
  BY <1>11 DEF JenkinsFirstPost, Goto
<1>12. CASE JenkinsReady(w)
  BY <1>12 DEF JenkinsReady, Goto
<1>13. CASE JenkinsFails(w)
  BY <1>13 DEF JenkinsFails, StartRollback, Goto
<1>14. CASE Commit(w)
  BY <1>14 DEF Commit, Goto
<1>15. CASE AuditCreate(w)
  BY <1>15 DEF AuditCreate, Return, Goto
<1>16. CASE RollbackStep(w)
  BY <1>16 DEF RollbackStep, IsNext
<1>17. CASE RollbackDone(w)
  BY <1>17 DEF RollbackDone, EndCreate, Return, Goto
<1>18. CASE CreateRaises(w)
  BY <1>18 DEF CreateRaises, EndCreate, Return, Goto
<1>19. CASE BeginDelete(w)
  BY <1>19 DEF BeginDelete, Goto
<1>20. CASE ResourceFound(w)
  BY <1>20 DEF ResourceFound, Goto
<1>21. CASE ResourceSkipped(w)
  BY <1>21 DEF ResourceSkipped, IsNext
<1>22. CASE RemoveResource(w)
  BY <1>22 DEF RemoveResource, IsNext
<1>23. CASE DropRow(w)
  BY <1>23 DEF DropRow, Goto
<1>24. CASE AuditDelete(w)
  BY <1>24 DEF AuditDelete, Return, Goto
<1>25. CASE Crash(w)
  BY <1>25 DEF Crash, EndCreate, Return, Goto
<1>. QED
  BY <1>1, <1>2, <1>3, <1>4, <1>5, <1>6, <1>7, <1>8, <1>9, <1>10, <1>11, <1>12, <1>13,
     <1>14, <1>15, <1>16, <1>17, <1>18, <1>19, <1>20, <1>21, <1>22, <1>23, <1>24, <1>25
     DEF Act, Step, CreateStep, DeleteStep

(* No call leaves anything but a namespace on its way.                      *)
LEMMA SettledStep ==
    ASSUME SerialInv, NEW w \in Worker, Act(w)
    PROVE  Settled'
<1>1. ASSUME NEW k \in Kind, NEW v \in Worker, pc[v] # "idle",
             Make(k, v) \/ FailMake(k, v) \/ CleanUp(k, v) \/ GiveUp(k, v)
      PROVE  Settled'
  <2>1. Settled /\ TypeOK
    BY DEF SerialInv, IInv
  <2>2. CASE Make(k, v) \/ FailMake(k, v)
    BY <1>1, <2>1, <2>2, MakeChanges DEF Settled
  <2>3. CASE CleanUp(k, v) \/ GiveUp(k, v)
    BY <1>1, <2>1, <2>3, CleanUpChanges DEF Settled
  <2>. QED
    BY <1>1, <2>2, <2>3
<1>2. CASE UNCHANGED world
  BY <1>2 DEF SerialInv, Settled, world
<1>3. UNCHANGED world \/ \E k \in Kind :
         pc[w] # "idle" /\ (Make(k, w) \/ FailMake(k, w) \/ CleanUp(k, w) \/ GiveUp(k, w))
  BY CalledStep DEF Called, Creating, Deleting, CreateSteps, DeleteSteps, SerialInv, IInv, TypeOK
<1>. QED
  BY <1>1, <1>2, <1>3

(* A call of a creation or of a deletion takes nothing away from an app     *)
(* that is still to have it.                                                *)
LEMMA CalledSpares ==
    ASSUME SerialInv, NEW w \in Worker, Called(w), NEW s \in Slug, Ok(s)
    PROVE  /\ info[s].plan.github = "create" => owner'["github"][s] = row[s]
           /\ ~info[s].plan.dockerGiven => ext'["docker"][s] = "present"
           /\ ext'["jenkins"][s] = "present"
<1>1. /\ Backed(s) /\ row[s] # None /\ fate[row[s]] = "committed" /\ TypeOK
      /\ {"github", "docker", "jenkins"} \subseteq Kind
  BY DEF SerialInv, IInv, Rows, Ok, Kind
<1>2. CASE UNCHANGED world
  BY <1>1, <1>2 DEF world, Backed
<1>3. ASSUME NEW k \in Kind, Creating(w), Make(k, w) \/ FailMake(k, w)
      PROVE  /\ info[s].plan.github = "create" => owner'["github"][s] = row[s]
             /\ ~info[s].plan.dockerGiven => ext'["docker"][s] = "present"
             /\ ext'["jenkins"][s] = "present"
  <2>1. pc[w] # "idle"
    BY <1>3 DEF Creating, CreateSteps
  <2>. QED
    BY <1>1, <1>3, <2>1, MakeKeeps DEF Backed
<1>4. ASSUME pc[w] = "rollback", NEW k \in flags[w], CleanUp(k, w)
      PROVE  /\ info[s].plan.github = "create" => owner'["github"][s] = row[s]
             /\ ~info[s].plan.dockerGiven => ext'["docker"][s] = "present"
             /\ ext'["jenkins"][s] = "present"
  <2>1. Creating(w) /\ k \in Kind
    BY <1>1, <1>4 DEF Creating, CreateSteps, TypeOK
  <2>2. fate[job[w].id] = "running" /\ Flagged(w) /\ Spares(w)
    BY <2>1 DEF SerialInv, IInv, Jobs, Serves
  <2>3. \A j \in Kind : j # k \/ s # job[w].slug =>
           owner'[j][s] = owner[j][s] /\ ext'[j][s] = ext[j][s]
    BY <1>1, <1>4, <2>1, CleanUpChanges
  <2>4. CASE s = job[w].slug
    <3>1. k # "jenkins" /\ owner[k][s] = job[w].id /\ job[w].id # row[s]
      BY <1>1, <1>4, <2>1, <2>2, <2>4 DEF Flagged
    <3>2. k = "github" => info[s].plan.github # "create"
      BY <1>1, <3>1 DEF Backed
    <3>3. k = "docker" => info[s].plan.dockerGiven
      BY <1>4, <2>1, <2>2, <2>4 DEF Spares
    <3>. QED
      BY <1>1, <2>3, <3>1, <3>2, <3>3 DEF Backed
  <2>. QED
    BY <1>1, <2>3, <2>4 DEF Backed
<1>5. ASSUME Deleting(w), NEW k \in Kind, CleanUp(k, w) \/ GiveUp(k, w)
      PROVE  /\ info[s].plan.github = "create" => owner'["github"][s] = row[s]
             /\ ~info[s].plan.dockerGiven => ext'["docker"][s] = "present"
             /\ ext'["jenkins"][s] = "present"
  <2>1. pc[w] # "idle" /\ s # job[w].slug
    BY <1>5 DEF Deleting, DeleteSteps, SerialInv, Serves, Erases, Ok
  <2>. QED
    BY <1>1, <1>5, <2>1, CleanUpChanges DEF Backed
<1>. QED
  BY <1>2, <1>3, <1>4, <1>5 DEF Called

(* How the table and what is asked of it change.                            *)
LEMMA TablesStep ==
    ASSUME SerialInv, NEW w \in Worker, Act(w)
    PROVE  \/ UNCHANGED <<row, info>> /\ doomed \subseteq doomed'
           \/ Commit(w)
           \/ DropRow(w)
<1> USE DEF world, database, history, local
<1>1. CASE BeginCreate(w)
  BY <1>1 DEF BeginCreate, Goto, AfterGithub
<1>2. CASE GithubCreated(w)
  BY <1>2 DEF GithubCreated, Goto, AfterGithub
<1>3. CASE GithubRefused(w)
  BY <1>3 DEF GithubRefused, EndCreate, Return, Goto
<1>4. CASE DockerReady(w)
  BY <1>4 DEF DockerReady, Goto
<1>5. CASE DockerFails(w)
  BY <1>5 DEF DockerFails, Goto
<1>6. CASE NamespaceChecked(w)
  BY <1>6 DEF NamespaceChecked, Goto
<1>7. CASE NamespaceCreated(w)
  BY <1>7 DEF NamespaceCreated, Goto
<1>8. CASE NamespaceFails(w)
  BY <1>8 DEF NamespaceFails, StartRollback, Goto
<1>9. CASE Inserted(w)
  BY <1>9 DEF Inserted, Goto
<1>10. CASE InsertConflicts(w)
  BY <1>10 DEF InsertConflicts, StartRollback, Goto
<1>11. CASE JenkinsFirstPost(w)
  BY <1>11 DEF JenkinsFirstPost, Goto
<1>12. CASE JenkinsReady(w)
  BY <1>12 DEF JenkinsReady, Goto
<1>13. CASE JenkinsFails(w)
  BY <1>13 DEF JenkinsFails, StartRollback, Goto
<1>14. CASE Commit(w)
  BY <1>14 DEF Commit, Goto
<1>15. CASE AuditCreate(w)
  BY <1>15 DEF AuditCreate, Return, Goto
<1>16. CASE RollbackStep(w)
  BY <1>16 DEF RollbackStep
<1>17. CASE RollbackDone(w)
  BY <1>17 DEF RollbackDone, EndCreate, Return, Goto
<1>18. CASE CreateRaises(w)
  BY <1>18 DEF CreateRaises, EndCreate, Return, Goto
<1>19. CASE BeginDelete(w)
  BY <1>19 DEF BeginDelete, Goto
<1>20. CASE ResourceFound(w)
  BY <1>20 DEF ResourceFound, Goto
<1>21. CASE ResourceSkipped(w)
  BY <1>21 DEF ResourceSkipped
<1>22. CASE RemoveResource(w)
  BY <1>22 DEF RemoveResource, Goto
<1>23. CASE DropRow(w)
  BY <1>23 DEF DropRow, Goto
<1>24. CASE AuditDelete(w)
  BY <1>24 DEF AuditDelete, Return, Goto
<1>25. CASE Crash(w)
  BY <1>25 DEF Crash, EndCreate, Return, Goto
<1>. QED
  BY <1>1, <1>2, <1>3, <1>4, <1>5, <1>6, <1>7, <1>8, <1>9, <1>10, <1>11, <1>12, <1>13,
     <1>14, <1>15, <1>16, <1>17, <1>18, <1>19, <1>20, <1>21, <1>22, <1>23, <1>24, <1>25
     DEF Act, Step, CreateStep, DeleteStep

(* Apps with status ok keep what they need.                                 *)
LEMMA BackedStep ==
    ASSUME SerialInv, NEW w \in Worker, Act(w)
    PROVE  \A s \in Slug : Ok(s)' => Backed(s)'
<1> SUFFICES ASSUME NEW s \in Slug, Ok(s)' PROVE Backed(s)'
  OBVIOUS
<1>1. Called(w) /\ TypeOK
  BY CalledStep DEF SerialInv, IInv
<1>2. ASSUME Ok(s), row'[s] = row[s], info'[s] = info[s] PROVE Backed(s)'
  BY <1>1, <1>2, CalledSpares DEF SerialInv, Backed
<1>3. CASE UNCHANGED <<row, info>> /\ doomed \subseteq doomed'
  BY <1>2, <1>3 DEF Ok
<1>4. CASE Commit(w)
  <2>1. /\ job[w].slug \in Slug /\ pc[w] = "commit" /\ Creating(w) /\ Made(w)
        /\ row' = [row EXCEPT ![job[w].slug] = job[w].id]
        /\ info' = [info EXCEPT ![job[w].slug] = [status |-> status[w], plan |-> job[w].plan]]
        /\ UNCHANGED <<ext, owner, doomed>>
    BY <1>1, <1>4 DEF Commit, world, SerialInv, Serves, TypeOK, Creating, CreateSteps
  <2>2. CASE s = job[w].slug
    <3>1. row'[s] = job[w].id /\ info'[s] = [status |-> status[w], plan |-> job[w].plan]
      BY <1>1, <2>1, <2>2 DEF TypeOK
    <3>2. status[w] = "ok"
      BY <3>1 DEF Ok
    <3>. QED
      BY <2>1, <2>2, <3>1, <3>2 DEF Made, Backed
  <2>3. CASE s # job[w].slug
    BY <1>1, <1>2, <2>1, <2>3 DEF Ok, TypeOK
  <2>. QED
    BY <2>2, <2>3
<1>5. CASE DropRow(w)
  <2>1. /\ job[w].slug \in Slug /\ Deleting(w) /\ row[job[w].slug] = job[w].id
        /\ row' = [row EXCEPT ![job[w].slug] = IF @ = job[w].id THEN None ELSE @]
        /\ doomed' = doomed \ {job[w].id} /\ UNCHANGED info
    BY <1>1, <1>5 DEF DropRow, SerialInv, Serves, Erases, TypeOK, Deleting, DeleteSteps
  <2>2. s # job[w].slug
    BY <1>1, <2>1 DEF Ok, TypeOK
  <2>3. row'[s] = row[s] /\ row[s] # job[w].id
    BY <1>1, <2>1, <2>2 DEF TypeOK, SerialInv, IInv, Rows
  <2>. QED
    BY <1>2, <2>1, <2>3 DEF Ok
<1>. QED
  BY <1>3, <1>4, <1>5, TablesStep

(* Who has no request under way stays idle while another takes a step.      *)
LEMMA OthersWait ==
    ASSUME TypeOK, NEW w \in Worker, Act(w), NEW v \in Worker \ {w}
    PROVE  pc'[v] = pc[v]
<1>1. CASE Step(w) \/ Crash(w)
  BY <1>1, FrameStep DEF Frame
<1>2. CASE BeginCreate(w) \/ BeginDelete(w)
  BY <1>2 DEF BeginCreate, BeginDelete, Goto, TypeOK
<1>. QED
  BY <1>1, <1>2 DEF Act

(* A request that is alone keeps the invariant, ...                         *)
LEMMA SerialStep ==
    ASSUME SerialInv, NEW w \in Worker, Alone(w), Act(w)
    PROVE  SerialInv'
<1>1. IInv'
  BY InvStep DEF Next, SerialInv
<1>2. Settled' /\ \A s \in Slug : Ok(s)' => Backed(s)'
  BY SettledStep, BackedStep
<1>3. Serves(w)'
  BY FlaggedStep, StillFreeStep, MadeStep, SparesStep, ErasesStep DEF Serves
<1>4. ASSUME NEW v \in Worker, v # w PROVE Serves(v)'
  <2>1. pc'[v] = pc[v]
    BY <1>4, OthersWait DEF SerialInv, IInv
  <2>2. pc'[v] = "idle"
    BY <1>4, <2>1 DEF Alone
  <2>. QED
    BY <2>2 DEF Serves, Flagged, StillFree, Made, Spares, Erases, Creating, Deleting, CreateSteps,
                DeleteSteps
<1>. QED
  BY <1>1, <1>2, <1>3, <1>4 DEF SerialInv

(* and so does a namespace that goes.                                       *)
LEMMA GoneStep == ASSUME SerialInv, NEW s \in Slug, NamespaceGone(s) PROVE SerialInv'
<1>1. /\ UNCHANGED <<pc, job, flags, status, owner, row, info, fate, doomed>>
      /\ ext' = [ext EXCEPT !["namespace"][s] = "absent"]
  BY DEF NamespaceGone, local, database, history
<1>2. /\ \A k \in Kind \ {"namespace"}, t \in Slug : ext'[k][t] = ext[k][t]
      /\ \A t \in Slug : ext["namespace"][t] = "absent" => ext'["namespace"][t] = "absent"
  BY <1>1 DEF SerialInv, IInv, TypeOK, Kind
<1>3. Settled' /\ \A t \in Slug : Ok(t)' => Backed(t)'
  BY <1>1, <1>2 DEF SerialInv, Settled, Ok, Backed, Kind
<1>4. ASSUME NEW w \in Worker PROVE Serves(w)'
  <2>1. Serves(w) /\ (pc[w] # "idle" => job[w].slug \in Slug)
    BY DEF SerialInv, IInv, TypeOK
  <2>2. (Flagged(w) /\ StillFree(w))'
    BY <1>1, <1>2, <2>1 DEF Serves, Flagged, StillFree, Creating
  <2>3. Made(w)'
    BY <1>1, <1>2, <2>1 DEF Serves, Made, Creating, CreateSteps, Kind
  <2>4. (Spares(w) /\ Erases(w))'
    BY <1>1, <2>1 DEF Serves, Spares, Erases, Ok, Creating, Deleting
  <2>. QED
    BY <2>2, <2>3, <2>4 DEF Serves
<1>5. IInv'
  BY InvStep DEF Next, SerialInv
<1>. QED
  BY <1>3, <1>4, <1>5 DEF SerialInv

(* Where requests do not overlap the invariant and what it adds hold.       *)
THEOREM SerialInvariant == TrafficSpec => [](serial => SerialInv)
<1>1. TrafficInit => (serial => SerialInv)
  BY InvInit DEF TrafficInit, Init, SerialInv, Settled, Ok, Serves, Flagged, StillFree, Made, Spares,
                 Erases, Creating, Deleting, CreateSteps, DeleteSteps
<1>2. (serial => SerialInv) /\ [TrafficNext]_trafficVars => (serial => SerialInv)'
  <2>1. ASSUME SerialInv, UNCHANGED vars PROVE SerialInv'
    BY <2>1, InvStep DEF vars, SerialInv, Settled, Ok, Backed, Serves, Flagged, StillFree, Made, Spares,
                Erases, Creating, Deleting
  <2>. QED
    BY <2>1, SerialStep, GoneStep DEF TrafficNext, trafficVars
<1>. QED
  BY <1>1, <1>2, PTL DEF TrafficSpec

(* Where requests do not overlap, an app with status ok that nobody has     *)
(* asked to delete has the repositories it did not bring and its job:       *)
(* create gives that status only past these steps, and neither the rollback *)
(* of another creation under its slug nor a lost answer takes them away.    *)
THEOREM OkAppsAreBacked == TrafficSpec => []SerialOkAppIsBacked
<1>1. (serial => SerialInv) => SerialOkAppIsBacked
  BY DEF SerialInv, Ok, Backed, OkAppIsBacked, SerialOkAppIsBacked
<1>. QED
  BY <1>1, SerialInvariant, PTL

(* Where requests do not overlap, _rollback_external removes what its own   *)
(* request has made: the flags of create say so.                            *)
THEOREM RollbacksRemoveOwn == TrafficSpec => SerialRollbackRemovesOwn
<1> DEFINE RemovesOwn ==
      \A w \in Worker, k \in Kind, s \in Slug :
         pc[w] = "rollback" /\ flags'[w] # flags[w] /\ owner'[k][s] # owner[k][s]
           => owner[k][s] = job[w].id
<1>1. ASSUME serial => SerialInv, [TrafficNext]_trafficVars PROVE [serial => RemovesOwn]_trafficVars
  <2>1. ASSUME serial, NEW w \in Worker, NEW k \in Kind, NEW s \in Slug,
               pc[w] = "rollback", flags'[w] # flags[w], owner'[k][s] # owner[k][s]
        PROVE  owner[k][s] = job[w].id
    <3>1. SerialInv /\ flags' # flags /\ owner' # owner
      BY <1>1, <2>1
    <3>2. PICK v \in Worker : Alone(v) /\ Act(v)
      BY <1>1, <2>1, <3>1 DEF TrafficNext, trafficVars, vars, NamespaceGone, local
    <3>3. v = w
      BY <2>1, <3>2 DEF Alone
    <3>4. Called(w)
      BY <3>1, <3>2, <3>3, CalledStep
    <3>5. PICK j \in flags[w] : CleanUp(j, w)
      BY <2>1, <3>1, <3>4 DEF Called, Deleting, DeleteSteps, world
    <3>6. TypeOK /\ j \in Kind /\ Creating(w) /\ Flagged(w)
      BY <2>1, <3>1 DEF SerialInv, IInv, TypeOK, Serves, Creating, CreateSteps
    <3>7. k = j /\ s = job[w].slug
      BY <2>1, <3>5, <3>6, CleanUpChanges
    <3>. QED
      BY <2>1, <3>6, <3>7 DEF Flagged
  <2>. QED
    BY <2>1
<1>. QED
  BY <1>1, SerialInvariant, PTL DEF TrafficSpec, SerialRollbackRemovesOwn

=============================================================================
