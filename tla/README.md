# laurel-infra-manager in TLA+

laurel-infra-manager is a Flask API that registers applications, gives each of
them a GitHub repository, a Docker Hub repository, a Kubernetes namespace and a
Jenkins job, deploys their workloads ("scoops"), publishes them under host
names ("domains") and records their builds. This directory models the part of
it that is hard to test: handlers that walk through several external systems
and a database, with hand-written rollbacks, best-effort cleanups and status
fields that are reconciled when somebody asks.

Paths below are relative to `src/app/modules/` unless they start elsewhere.

## 1. Inventory

The API runs as two synchronous gunicorn workers (`src/Dockerfile`:
`-w 2 --timeout 60`). There is no background job and no queue: all work happens
inside a request. So the concurrency of the system is that of **two processes
that interleave at every external call and at every database statement**, and
its crash is the worker that is killed in the middle of a request because it
was silent for 60 seconds. External calls are HTTP calls with a timeout (those
to the Kubernetes API have none); any of them can fail, or take effect while the
answer is lost.

| Component | State it keeps | Operations | Interacts with | Hard behaviour | What makes it correct |
|---|---|---|---|---|---|
| `apps` | tables `applications`, `app_events`, `app_deletion_logs` | create (5 steps and a rollback), update, delete (4 cleanups, log, row) | GitHub, Docker Hub, Kubernetes, Jenkins, audits | partial failure, lost answers, crashes, two requests for one slug | nothing is orphaned in silence; log and row agree; status ok means something; a rollback removes only its own |
| `scoops` | table `scoops` with the port pool; Deployment, CronJob, Service, HPA in the cluster | create, update, deploy, undeploy, delete (checked, forced, with undeploy), status | cluster, audits | a port is handed out again after a delete; partial undeploys | no two Services on one port; an undeployed scoop has left the cluster |
| `domains` | table `domains`; Ingress, Certificate | create, update, deploy, undeploy, soft_delete, status | scoops, dns, cert-manager | each removal is best effort; status copied from the cluster | a deleted domain is gone or somebody was told; undeploy tells the truth |
| `dns` | a hosts block in a ConfigMap, loaded by CoreDNS at its restart | add, remove | Kubernetes | read, read again, replace, restart | a host table: one call changes one host |
| `webhooks` | - | a push: version, scoops, trigger, location, current version, record | Docker Hub, Jenkins, builds | redelivered and concurrent pushes, six steps that fail apart | published tags are immutable; every record is of its own build |
| `builds` | table `app_builds` | create_pending, poll on GET, set_current_version | Jenkins | queue items that vanish, overlapping polls | a recorded outcome is real; a record follows its own build |
| `integrations` | a token of 300 s for Docker Hub, in each process | client calls | outside | idempotence, lost answers, a token that outlives its password | what a call reports is what it did; a token in use is alive |
| `cluster` | client cache | generic create, replace, delete, exists; listings, logs | Kubernetes | 409 and 404 as success | - |
| `audits` | table `audits` | log (commits at once), queries | all services | its commit is not the caller's | it never tells what did not happen |
| `configstore` | ConfigMaps, Secrets, known by name, namespace and a label | upsert, delete, list; mounted by the manifests of `scoops` | Kubernetes, apps, scoops | creates the namespace of an app being deleted; lookups that fail half-way | belongs to a live app; a scoop mounts all it asked for, or nothing |
| `workspaces` | table `workspaces` | create, update, soft_delete | apps | renames that overlap; rows that are deleted and still hold their name | no user has a name twice; the slug is that of the name |
| `domain_pool` | table `domain_pool` | create, update, delete | domains | count, then delete | no suffix goes while a host uses it |
| `system` | Secrets of Kubernetes, what the pod of the API has mounted | read and patch a key, restart the deployment | Kubernetes | patch and restart fail apart; PUTs overlap | what is reported restarted comes to run; no PUT undoes another |
| `configurator` | schemas, columns, records | CRUD, validation, search, pages, seed at start | audits | both workers seed; a record is validated before and stored after | records refer and fit; all workers come to serve; a search is a glob |
| `auth`, `users`, `core` | - | token gate, errors, health, clients | - | stateless | - |

The hazards, each at its line and with the properties that cover it or the
reason why none does, are the list `hazards` of `PROJECT.json`.

## 2. Modules

| Module | Models | Uses |
|---|---|---|
| `AppLifecycle` | `apps/service.py` create, `_rollback_external`, delete, with the GitHub, Docker Hub, Kubernetes and Jenkins calls it makes | - |
| `HostTable` | what `dns/service.py` promises: a set of hosts changed one at a time | - |
| `ClusterDNS` | `dns/service.py` | `HostTable` (refinement, `hosts <- entries`) |
| `Domains` | `domains/service.py`, its controller, and cert-manager | extends `ClusterDNS`, whose steps a handler waits for |
| `DomainPool` | `domain_pool/service.py` beside the rows of `domains` it counts | - |
| `Scoops` | `scoops/service.py`, `deploy.py`, `controller.py`, the kinds `manifest.py` builds | - |
| `Builds` | `webhooks/controller.py`, `builds/service.py`, the queue and build lookups of `integrations/jenkins/service.py`, `version_bump.py`, and Jenkins itself | - |
| `Registry` | how apps, scoops and domains meet: rows, foreign keys, cascades, namespaces, what each delete removes | - |
| `ConfigStore` | `configstore/service.py`, the snapshot and cleanup of `apps/service.py`, the `envFrom` injection of `scoops/manifest.py` | - |
| `Workspaces` | `workspaces/service.py`, and the workspace of an application | - |
| `SystemSecrets` | `system/service.py`, `restart_deployment`, the rollout and the mounts of `deploy/base/deployment.yml` | - |
| `HubLogin` | `_login` of `integrations/docker/service.py` and the password it uses | - |
| `Configurator` | `configurator/`: schemas, columns, records, validation, and the seed of `create_app` | - |
| `RecordSearch` | search and pages of `configurator/records/service.py`, as operators over bounded inputs | SequencesExt |
| `AppsTraffic`, `ScoopsTraffic`, `RegistryTraffic` | a component under two kinds of traffic, requests that overlap and requests that do not, with the properties that hold of the second only | `AppLifecycle`, `Scoops`, `Registry` |
| `DomainsTraffic` | `Domains`, or the catalogue beside it | extends `Domains`, instantiates `DomainPool` |
| `Platform` | the services that share no state, a behaviour being one of one of them (section 3) | instantiates `Workspaces`, `ConfigStore`, `SystemSecrets`, `HubLogin`, `Configurator` (four times), `RecordSearch` |
| `MCAppLifecycle`, `MCAppsTraffic`, `MCDomains`, `MCScoops`, `MCBuilds`, `MCRegistry`, `MCPlatform` | the instances TLC checks: small constants, symmetry sets, a view, a constraint | the modules above |
| `AppLifecycle_proofs`, `Registry_proofs`, `Scoops_proofs`, `Domains_proofs`, `Builds_proofs`, `Configurator_proofs`, `ConfigStore_proofs`, `Platform_proofs` | invariants, lemmas and theorems of each component (section 5); `Configurator_proofs` has those of `RecordSearch` too, `Platform_proofs` those of `Workspaces`, `SystemSecrets` and `HubLogin` | the component or its traffic module, TLAPS |

Conventions in all of them:

* `Worker` is the set of gunicorn processes. `pc[w]` names the step of the
  handler that worker `w` is about to run, and the locals of the handler are
  functions on `Worker` as well; an idle worker has none (`Return` resets them).
* One action is the stretch from one external call or database statement to the
  next. Where the code checks and then acts, these are two actions, so another
  worker can come in between.
* A call that fails has two outcomes, without effect and with it (the answer
  was lost); the exceptions no handler catches have actions of their own.
* What a session has loaded is a local (`seen`). SQLAlchemy writes the columns
  that differ from what it loaded, and the models do that too (`Store`).
* `Act(w)` is whatever worker `w` does next, with a new request or the one it has,
  and `Next` is `Act` of some worker. "Requests that do not overlap" are the steps
  `Alone(w) /\ Act(w)`: any worker, but one request at a time, with its failures,
  lost answers and crash.
* Variables marked *history* exist for the properties only; no guard of a code
  action reads them except to choose fresh ids.

### AppLifecycle

`ext[k][s]` is the resource of kind `k` under slug `s`: all four services find it
again by the slug, which is why two requests for one slug share them. `flags[w]`
are the booleans `created_*` of create, and in delete the cleanups still ahead.
The INSERT is flushed at step 4 and committed after Jenkins: between the two its
transaction holds the unique keys (`SlugLocked`) and another INSERT of that slug
waits. `owner[k][s]` remembers which creation made a resource and still answers
for it; a cleanup that is given up (the code logs a warning) clears it.
`Lossy` are the services whose answers can be lost. `Bodies` are the request
bodies (`Plan`): GitHub repository given, to be created, neither; image given or not.

### ClusterDNS, HostTable, Domains

`entries` is the block of the ConfigMap and `served` what CoreDNS resolves, that
is, the block at its last restart. `current[w]` says that nobody has written since
`w`'s second read, which is what the resourceVersion of the replace compares.
`Domains` adds rows, Ingress, Certificate and the handlers, which call `Begin` and
wait for `at[w] = "done"`; `Issue` is cert-manager. `excused` remembers the domains
for which undeploy gave up a removal.

### Scoops

Objects are found by name and namespace (`there`), rows by id: `live[w]` says
that the row a session has loaded is still in the table. `Kinds` is what
`ManifestService.build` makes of a row and `Rank` its order; undeploy goes the
other way. `ns[w]` is the namespace the request works in, which the query or an
edited row can choose. `excused` are the names whose row was dropped without a
look at the cluster (force, or an API error of the check).

### Builds

Versions are the patch numbers of tags `0.0.n`. An `item` is a queue item of
Jenkins and, later, the build made of it, because each build comes from one
item; `kept` says whether the queue API still knows it. A URL is an item, a
build, or *lost*: the `/queue/item/<build number>` that `_poll_one` writes over
the URL of an item. It keeps the old one only if the digits of the item start
with that number (`Renumbered` has both). `own[p]` is the item that push `p` has
triggered. Jenkins folds equal items in its queue and runs builds of one job
concurrently, because the generated pipeline does not forbid it. An answer to the
trigger may lack its Location (`TriggerUnlocated`); then `LocateByJob` takes the
last build of the job, or the *page* of the job, whose poll counts as a failed
build (`AskPage`). `unlocated` remembers the pushes this has happened to.

### Registry

The same services once more, seen from between them: `AppLifecycle`, `Scoops` and
`Domains` have the inside of each operation with its failures, `Registry` has what
an operation reads, applies and commits, so that operations of different services
can meet. Where a deletion passes over a failure in the cluster and drops the row
all the same (the namespace of an application, `apps/service.py:418-423`; Ingress and
DNS entry of a domain, `domains/service.py:284-296`; an API error of the check before
a scoop goes, `scoops/controller.py:234-240`), its action has that branch, and
`spared` remembers the row, as it does for `?force=true`; `apps/service.py:383-385`
says that orphans may stay. A later deletion of the same row that succeeds takes it
off again. `scoop[s]` and `domain[d]` are rows with their foreign keys; the keys
cascade in MySQL (`DropApp`), and an INSERT that refers to a row that has gone is
refused. `spaces`, `svc`, `route` and `entry` are what the cluster has: a namespace
takes the objects in it along, but the DNS block is in none. `Requests` are the
requests a client may or may not make: a namespace of its own (`override`), another
namespace or application for a scoop (`move`), `?force=true`, the DELETE of an
application.

### ConfigStore

`store[n][x]` is the label of object `x` in namespace `n`; the name of an object is
the one the convention gives it (the application) or one a request has chosen. A
deploy looks its references up one by one (`todo`) and keeps what it finds
(`found`); a read that fails makes it go on with nothing (`manifest.py:344`). `env`
is what the workload mounts. A deletion takes its snapshot (`Selected`) by a label,
deletes the namespace and drops the row; where the namespace cannot be deleted it
drops the row all the same, and `spared` remembers the application.

### Workspaces and DomainPool

`ws[k]` is a row, deleted by its mark and never removed; the UNIQUE columns hold for
all rows, the look for duplicates for the live rows of the owner. `seen[w]` is the
row as the session loaded it: a rename writes the columns that differ from it.
In `DomainPool` the two tables know of each other by the suffix of a string
(`Under`) only; the count and the DELETE are two steps.

### SystemSecrets and HubLogin

A value is the number of the patch that wrote it. `pod` is what runs: the template
it was made from and the values it mounted when it started. `owed` are the patches
no restart of their own has followed yet, because the PUT is under way, has failed
or its worker was killed; `promised[k]` is the last value a PUT has reported as
restarted. `Rollout` is Kubernetes. In `HubLogin` the clock is a counter;
`until[w]` is `expires_at`, which counts from the time before the login, and a
login takes at most `Timeout`. `Password` is `_get_creds`: `fromEnv` says that the
workers have credentials in their environment, which go before `docker_pat`
(`docker/service.py:66-73`); the password of the environment is value 0, those of
`docker_pat` count from 1.

### Configurator and RecordSearch

A PUT or DELETE of a schema or a column is one transaction and one step; a record
is validated against columns that were read before (`body[w]`) and stored in a
later step. `boot`, `seedSchemas`, `seedColumns`, `seedRecords` are the
transactions of the seed, and `failed` is a boot that has raised, upon which
gunicorn halts and Kubernetes starts the container again (`Restart`). In
`RecordSearch` a text is a sequence of letters; its state is only the input, and
the two invariants compare `Matches` and the pages with what they are to be. A
search cuts what it has found in memory, in the order of the ids (`Found`); a
listing runs one query per page, ordered by `created_at`, to the second and without
a tie-breaker (`List`): `place[p]` is the order the query for page `p` gives the
records, any of those that `sortKey` allows. No record is written between the pages.

## 3. Runs

| Run | Instance | Shows |
|---|---|---|
| `apps_traffic` | 1 slug, 2 creations; GitHub, Docker Hub and Jenkins lose answers; 2 workers that overlap and create all they can, or do not overlap and take every body | `CreationsAccounted`, `DeletionLogged`, `AuditTruthful`; without overlap `SerialOkAppIsBacked`, `SerialRollbackRemovesOwn` |
| `apps_progress` | 1 slug, 2 creations, lost answers, fair; 2 workers and given repositories, or 1 worker and every body | `TypeOK`, `RequestsFinish` |
| `apps_docker_orphan` | 1 worker, 1 creation | violation of `DockerAccounted` |
| `apps_namespace_theft` | 2 workers, 2 creations, no lost answers | violation of `RollbackRemovesOwn` |
| `dns_lost_update` | 2 workers, 2 hosts | violation of `OneHostAtATime` (= `HostTable!Spec`) |
| `domains_serial` | 2 workers whose requests do not overlap; 1 domain that moves between 2 hosts, or a catalogue of 2 second-level domains and 4 hosts | `TypeOK`, `DeletedIsGone`, `UndeployTruthful`, `OneHostAtATime`; `PoolGoesUnused` |
| `scoops_traffic` | 2 scoops, 2 workers; requests that delete nothing and overlap on 2 ports, or every request without overlap on 1 port | `TypeOK`, `PortsDisjoint`; without overlap `SerialUndeployedIsGone`, `SerialNoOrphans` |
| `builds_polls` | 2 workers, 2 deliveries | `TypeOK`, `OutcomeIsReal`, `NeverOlder` |
| `builds_tag_collision` | 2 workers, 2 deliveries | violation of `TagsImmutable` |
| `builds_misattributed` | 1 worker, 2 deliveries | violation of `FollowsOwnBuild` |
| `registry_traffic` | 2 applications, 1 scoop, 1 domain, 2 workers; every request, or requests that do not overlap, with scoops that stay in place | `TypeOK`, `RowsRefer`; without overlap `SerialDeadLeavesNothing`, `SerialRouteReachesScoop` |
| `platform` | the services of `Platform`, one at a time | `TypesOK` and the properties of the table below |

`Platform` puts services side by side that share no state. The variable `service`,
which nothing changes, says which of them a behaviour is about; the others stay in
their initial state, so TLC explores the sum of the state spaces and not their
product. Each property speaks of its own service. Where a service promises less to
requests that overlap, or too many kinds of them make the instance large, it is
there once for each kind of traffic.

| Value of `service` | Instance | Shows |
|---|---|---|
| `crowd` | `Workspaces`, 2 workers, the requests of 1 user (`Crowding`), 2 workspaces, 3 names of 2 slugs | `OneLivePerName` |
| `turns` | `Workspaces`, requests of 2 users that do not overlap | `OneLivePerName`, `SlugFollowsName` |
| `config` | `ConfigStore`, 2 workers whose requests do not overlap, 2 applications and a scoop of one of them, a name of choice, references, reads that fail | `Backed`, `EnvResolves`, `EnvWhole` |
| `secrets` | `SystemSecrets`, 2 workers, 2 mounted keys, 2 patches of each | `PodIsCurrent`, `NoKeyGoesBack`, `PromiseKept` |
| `hub` | `HubLogin`, 2 workers, tokens of 2 units, logins of at most 1, 4 units of time, 2 values of `docker_pat`, credentials in the environment or not | `KeptIsAlive`, `RotationReaches` |
| `seed` | `Configurator`, 3 workers that boot at once, 2 deaths | `ComesUp` |
| `columns` | `Configurator`, 2 workers, 2 schemas, columns, 1 death | `RowsRefer` |
| `records` | `Configurator`, 2 workers, 1 schema, 2 records, 1 death | `RowsRefer`, `FitsWhenStored` |
| `values` | `Configurator`, requests that do not overlap (here of 1 worker), columns and a record, three kinds of values | `FitsWhenStored` |
| `search` | `RecordSearch`, values of up to 3 and patterns of up to 4 letters, up to 9 records of a search, up to 3 of a listing in every order their ages allow, pages of up to 5 | `MatchesIsGlob`, `PagesPartition` |

`TypesOK` is the type invariant of whichever instance runs.

`CHECK_DEADLOCK FALSE` is in the runs whose requests are used up (each creation
and each delivery happens once), whose rows are not made twice or whose counters
reach their bound; then the system rests with nothing to do.

**Why these bounds.** The code serves two requests at a time, so two workers are all of
its concurrency. One slug, because requests for different slugs touch no common state;
two creations, because the second is the one that meets the leftovers or the lock of the
first. Two scoops for one port are what a port conflict takes, and two ports are what
two concurrent choices take; the constraint `Small` of `MCScoops` keeps to one port
without overlap, and with it leaves out one of the three statuses, which only the column
of that name has. One domain with two hosts: domains share nothing but the DNS block,
whose entries of two hosts meet in `dns_lost_update`. Two deliveries are one build and
the other build it can be taken for. `builds_polls` uses two of the three ways a build
can end, which the code treats alike, and its view leaves out the version column of the
scoops and `current_version`: nothing reads them, and no property is about them. The
view of `MCRegistry` leaves out the cluster where requests overlap: the properties there
are about rows, and no step that writes a row asks the cluster, except the check before
a scoop goes. What that check finds can only end the request, as a crash does, and its
failure lets the deletion go on whatever is there. Two applications are what a scoop can
be moved between. Three names of which two have one slug are what lets names and slugs
collide apart. Two patches of a key are one that waits for its restart and one that
overtakes it; a token of two units against logins of one runs out while a login is under
way, and four units are two lives of a token; three listed records are two that tie and
one that does not. Three workers can fail one after the other over a table that is no
longer empty; two deaths can hit the first boot and the one after it. A pattern of four
letters has a star at each end, one inside and a letter.

**Serial and concurrent traffic.** Properties with `Serial` in their name,
`DeletedIsGone`, `UndeployTruthful`, `PoolGoesUnused`, `Backed`, `EnvResolves`,
`EnvWhole`, `SlugFollowsName`, and `PortsDisjoint` with deletes are checked where
requests do not overlap, with crashes, failures and lost answers. The code takes no
lock across an external call, so two requests about the same object do break most of
them; that is said at each property, in the hazards and in section 4. The traffic
modules choose in the initial state (`serial`, or the value of `service`) whether
requests overlap, and keep to it; a property with the premise `serial` says nothing
of those that do. `DomainsTraffic` and the `SerialNext` of `ConfigStore` and
`Configurator` have requests that do not overlap only; the certificates of a domain
are issued whenever cert-manager likes. Serial traffic leaves out what would undo
the property by itself: in `RegistryTraffic` requests that move a scoop or name a
namespace for it, in `ScoopsTraffic` a namespace that is not
that of the row.

**Fairness.** `FairSpec` of `AppLifecycle` has weak fairness of `Step(w)`, the next step
of a handler that has one: calls to GitHub, Docker Hub and Jenkins have a timeout, and
gunicorn bounds the whole request. The beginning of a request and a crash are not fair,
and neither is anything a handler does while it waits for the unique key of a slug
(`Proceeds(w) == ~Waiting(w) /\ Step(w)`): the database may give the INSERT up, which is
in `CreateRaises`, but need not. So `RequestsFinish` says that the holder always lets
go. Where two workers contend, the bodies of that run bring their repositories, because
the repository steps neither wait nor make others wait; one worker alone goes through
every body (`ProgressSpec` of `MCAppsTraffic` has the same fairness). `SystemSecrets`
assumes that the deployment controller of Kubernetes rolls out a template that stays
(`Rollout`), and nothing of the handlers: `PromiseKept` is about what was already
answered. `Configurator` assumes that `create_app` runs to its end (`BootStep`) and that
Kubernetes starts a container that has ended (`Restart`, the `restartPolicy` of a
Deployment); deaths are bounded, as no boot can come to its end among deaths that never
cease.

## 4. What the violations say

1. **`apps_docker_orphan`**: when the namespace fails, the rollback is not told of
   the Docker Hub repository (`apps/service.py:185-189`), although the docstring
   promises a rollback of whatever was created.
2. **`apps_namespace_theft`**: `create_namespace` takes a 409 for a success, the
   flag is set all the same, and the rollback deletes the namespace of another
   creation (`apps/service.py:179-181`, `cluster/service.py:492-508`).
3. **`dns_lost_update`**: `_write_cm` reads the ConfigMap again just before it
   replaces it, which defeats the conflict detection; the body comes from the
   older read (`dns/service.py:71-75`).
4. **`builds_tag_collision`**: a version is computed from published tags, and a tag
   is published only at the end of a build, so overlapping pushes share a tag;
   `src/docs/frontend-next-version.md` says that this cannot happen.
5. **`builds_misattributed`**: once an item is forgotten, or its URL was rewritten
   with a build number, `lastBuild` answers for it: the record shows the number
   and the outcome of another push (`builds/service.py:103-106`).

Further statements of the repository that the code does not meet are written down
as definitions in the modules, each with the words it takes up, and no run of the
suite checks them: the suite keeps the violations of the lifecycle, the DNS block and
the builds. To see one, give TLC the module with the instance named here.

| Definition | Instance in which TLC refutes it | The code |
|---|---|---|
| `Domains!AddedResolves` | 1 worker, 1 host | `dns/service.py:181`: the retry after a failed restart of CoreDNS finds the entry, restarts nothing and reports *added* ("sin este restart el host nuevo no resuelve", `dns/service.py:78`) |
| `Domains!AllDeletedAllGone` | 1 worker, 2 hosts | `domains/service.py:169`: the entry of a host that PUT has replaced is never removed |
| `Domains!DeletedIsGone` | 2 workers | `domains/service.py:193`: a deploy that overlaps the deletion applies its objects afterwards |
| `Scoops!UndeployLeavesNothing` | 1 worker, `update` among the requests | `scoops/manifest.py:247`: an HPA applied before `max_replicas` was lowered is not among the manifests that undeploy removes ("elimina tambien sus recursos del cluster", `scoops/controller.py:211`) |
| `Scoops!NoOrphans` | 2 workers, deploy and delete | `scoops/deploy.py:62`: a deploy goes on applying for a row that is gone |
| `Registry!EntriesHaveDomains` | 1 worker, `deleteApp` | `apps/service.py:454`: the hosts of a deleted application stay in the DNS block ("limpieza absoluta", `apps/service.py:365`) |
| `Registry!ScoopsSurvive` | 1 worker, `deleteApp` | `scoops/model.py:75` is CASCADE; the docstring `apps/service.py:375-376` says SET NULL, "los scoops sobreviven sin app" |
| `Registry!DomainWithinApp` | 2 applications, `move` | `scoops/service.py:270`: a PUT moves a scoop away from the application of its domain |
| `Registry!RouteReachesScoop` | `override` | `domains/service.py:213`: the Ingress goes to the namespace of the application, not to that of the scoop |
| `Registry!DeadLeavesNothing` | `move` | `scoops/controller.py:222`: the check before a deletion looks into the namespace the row has now |
| `Registry!CleanedCanGo` | 1 worker, no extra request | `scoops/controller.py:251`: `?undeploy=true` removes the objects of a scoop whose row then cannot go, as a domain refers to it |
| `Builds!LocatedAnyhow` | 1 worker, 1 delivery (the outcome), 2 (the older build) | `jenkins/service.py:1050`: without a Location the last build of the job, or its page, stands for the build of the push ("la fuente de verdad para donde esta mi build", line 1045) |
| `Workspaces!SlugFollowsName` | 2 workers, 1 workspace | `workspaces/service.py:128`: of two renames, one writes the name and the other the slug |
| `Workspaces!ConflictIsReal` | 1 worker | `workspaces/model.py:27`: UNIQUE holds over deleted rows and other users' ("unico por usuario", line 16) |
| `Workspaces!AppsInLive` | 1 worker | `apps/service.py:92` ignores `deleted_at` |
| `DomainPool!PoolGoesUnused` | 2 workers | `domain_pool/service.py:59`: a host is registered between the count and the DELETE |
| `ConfigStore!Backed` | 2 workers, or `namespace` among the requests | `configstore/service.py:117-118`: the namespace is made again after the deletion; an object elsewhere is never found |
| `ConfigStore!SnapshotComplete` | 1 worker | `apps/service.py:485`: the snapshot asks for the label `app=<slug>`, which no object has |
| `ConfigStore!EnvReachesPods` | a scoop in `Cronjobs` | `scoops/manifest.py:263`: the containers of a CronJob are one level deeper |
| `ConfigStore!LabelledMounted` | `name` | `scoops/manifest.py:307` reads two names and never asks for the label (`manifest.py:228-230`) |
| `ConfigStore!EnvResolves` | `foreignRefs` | `scoops/manifest.py:299`: a reference to another namespace is mounted without it |
| `HubLogin!RotationReachesAnyhow` | 1 worker, credentials in the environment | `docker/service.py:66-73`: with them a new `docker_pat` reaches nobody, as its fallback order says (lines 7-9), while `system` reports it saved |
| `RecordSearch!PagesPartitionTies` | 2 listed records, pages of 1 | `configurator/records/service.py:75`: `ORDER BY created_at` has no tie-breaker, and the records of the seed are of one commit (`configurator/seed.py:52`); a record can be on two pages or on none |
| `Configurator!BootNeverFails` | 2 workers | `configurator/seed.py:12`: both find the table empty, and the second one's commit raises |
| `Configurator!SeedWhole` | 1 worker, 1 death | `configurator/seed.py:20`: three commits, and only the first decides whether to seed |
| `Configurator!MissingIsMissing` | `records` | `configurator/controller.py:351`: invalid data is answered with 404 |
| `Configurator!BadIsBad` | `records`, 2 ids of schemas | `configurator/controller.py:306`: a schema that is not there is answered with 400 |

## 5. Proofs

TLC checks each property on one small instance; the theorems below hold for every
value of the constants that satisfies their hypotheses. Every safety invariant and
every action property that a passing run checks is stated by a theorem.

**Assumptions.** All theorems rest on the named assumptions of the module they are
about, which TLC evaluates in its runs: sets that are what their names say
(`LossyAssumption`, `BodiesAssumption`, the `IdsAssumption` of `Registry`, the
`RequestsAssumption` of `Registry` and of `Scoops`, `ResultAssumption`,
`PortAssumption`), and a `None` that is no element of them. `Platform` collects those of
its instances in `PlatformAssumption`, with the kinds of requests that `config` is
about: names of choice, references, reads that fail. Requests that name another
namespace are not among them, as they refute `Backed` and `EnvResolves` (section 4).
What a theorem assumes beyond that is in its statement:

| Hypothesis | Says | Why |
|---|---|---|
| `FinitePushes` | `Push` is finite | finitely many deliveries have arrived at any time, and the numbers of builds are counted from them |
| `NoDeletions` | no scoop is deleted | a deleted scoop gives back its port while the Service may still be there |
| `"columns" \notin Requests` | no request touches columns | a record is validated in one transaction and stored in another; without it, only for requests that do not overlap |
| `"namespace" \notin Requests`, `"foreignRefs" \notin Requests` | no upsert names another namespace; no reference of a scoop leaves its own | such a request refutes the property by itself (section 4) |

That requests do not overlap is never a hypothesis about the constants: it is part of
the property (`serial`, or the value of `service`) or of the specification, whose
steps are `Alone(w) /\ Act(w)`. There may be *any number of workers*.

### The theorems

| Module | Theorem | States | Of |
|---|---|---|---|
| `AppLifecycle_proofs` | `TypeCorrect`, `CreationsAreAccounted`, `DeletionsAreLogged`, `AuditIsTruthful` | `TypeOK`, `CreationsAccounted`, `DeletionLogged`, `AuditTruthful` | `Spec` |
| | `OkAppsAreBacked`, `RollbacksRemoveOwn` | `SerialOkAppIsBacked`, `SerialRollbackRemovesOwn` | `TrafficSpec` |
| `Registry_proofs` | `TypeCorrect`, `RowsReferToRows` | `TypeOK`, `RowsRefer` | `Spec` |
| | `TheDeadLeaveNothing`, `RoutesReach` | `SerialDeadLeavesNothing`, `SerialRouteReachesScoop` | `TrafficSpec` |
| `Scoops_proofs` | `TypeCorrect` | `TypeOK` | `Spec` |
| | `PortsAreDisjoint` | `PortsDisjoint` | `TrafficSpec`; also `Spec` with `NoDeletions` |
| | `UndeployedAreGone`, `NothingIsOrphaned` | `SerialUndeployedIsGone`, `SerialNoOrphans` | `TrafficSpec` |
| `Domains_proofs` | `TypeCorrect`, `DnsTypeCorrect` | `TypeOK`, `DnsTypeOK` | `Spec`, `DnsSpec` |
| | `DnsImplementsTable` | `OneHostAtATime` (= `HostTable!Spec`) | `DnsTurns`: calls one at a time |
| | `UndeploysAreTruthful`, `DeletedAreGone`, `DomainsImplementTable` | `UndeployTruthful`, `DeletedIsGone`, `OneHostAtATime` | `EitherSpec` of `DomainsTraffic` |
| | `PoolsGoUnused` | `PoolGoesUnused` | `EitherSpec` |
| `Builds_proofs` | `TypeCorrect`, `OutcomesAreReal`, `RecordsAreNotOlder` | `TypeOK`, `OutcomeIsReal`, `NeverOlder` | `Spec` with `FinitePushes` |
| `Platform_proofs` | `TypeCorrect` | `TypesOK` | `Spec` of `Platform`, as all that follow |
| | `NamesAreUnique`, `SlugsFollow` | `OneLivePerName`, `SlugFollowsName` | |
| | `UpToDatePodIsCurrent`, `KeysNeverGoBack`, `PromisedRuns` | `PodIsCurrent`, `NoKeyGoesBack`, the safety half of `PromiseKept` | |
| | `KeptTokensAreAlive`, `RotationsReach` | `KeptIsAlive`, `RotationReaches` | |
| | `ObjectsAreBacked`, `MountsResolve`, `MountsAreWhole` | `Backed`, `EnvResolves`, `EnvWhole` | |
| | `RowsReferToSchemas`, `StoredRecordsFit` | `RowsRefer`, `FitsWhenStored` | |
| | `SearchesAreGlobs`, `PagesArePartitions` | `MatchesIsGlob`, `PagesPartition` | |
| `ConfigStore_proofs` | `ObjectsAreBacked`, `MountsResolve`, `MountsAreWhole` | the same of `ConfigStore`, each with the widest requests that it survives | its `SerialSpec` |
| `Configurator_proofs` | `RowsReferToSchemas` | the same of `Configurator` | its `Spec` |
| | `StoredRecordsFit`, `SerialRecordsFit` | the same of `Configurator`: columns that stay, or requests that do not overlap | its `Spec`, its `SerialSpec` |
| | `SearchesAreGlobs`, `PagesArePartitions` | the same of `RecordSearch` | its `Spec` |

Hardly one of these properties is inductive by itself. What follows says, for each
module, what the invariant adds and why it is needed.

### AppLifecycle

The invariant `IInv` adds to the three properties

- `Jobs`: a worker in a step of create serves a creation whose fate is
  *running*, and no two workers serve the same one; a worker that deletes, or
  writes an audit line, serves a committed creation, in the log by the time the
  deletion's line is written;
- `Rows`: a row carries a committed id, no id is in two rows, the row a deletion
  works on is that of its slug, and a flushed INSERT is the only one for its slug,
  with no row there;
- `Owners`: what has an owner exists and its owner has begun; a tracked resource
  owned by the creation a worker makes or deletes is under that worker's slug;
- `Flags`: which flags each early step can have, and that the tracked resources
  owned by the creation a worker makes or deletes are all on its list, so the
  rollback or the cleanup still comes to them.

The argument for `CreationsAccounted` is this: ownership is given only where the
flag is set in the same step, or where the request ends as *raised* or
*crashed*; the rollback can end only when no flag is left, and each flag goes
with the removal or with the warning that gives it up. `DeletionLogged` rests on
`Rows`: log and row change in the one step `DropRow`, and only a committed id is
ever in a row. The proof first says what a step does to the resources (`Effect`)
and what it leaves alone (`Frame`), then preserves each conjunct by a lemma of
its own, with one step per action that can disturb it.

Without overlap, `SerialInv` relates the resources to the one handler that is at
work. Only namespaces take their time to go (`Settled`), and an application with
status ok is `Backed`. Of the handler (`Serves`) it says that what it would roll back
it has made itself (`Flagged`), that the namespace it is about to make is `StillFree`,
that a creation which is still going to report ok has `Made` what it is past of and
`Spares` the Docker repository of an application that is there, and that a deletion
`Erases` an application whose deletion was asked for. `RollbackRemovesOwn` follows from
`Flagged`; with two creations at a time that fails, because the flag is then set for a
namespace that has come up in between (`apps_namespace_theft`).

### Registry

`RowsRefer` needs, beside the types (`LocalOK`, `RowsOK`, `ClusterOK`), nothing of
what the sessions have seen: an INSERT or UPDATE looks at the keys when it is
executed, and a row that goes takes its dependants along.

`SerialInv` adds that requests that move no scoop and name no namespace leave every
scoop in the namespace of its application (`Plain`, `Placed`), that the cluster has
only what a row asks for or what a deletion has spared (`OnlyRegistered`), and that
what the handler at work has seen is what is stored (`Current`). `DeadLeavesNothing`
is `OnlyRegistered` read the other way; the cascades of `DropApp` preserve it because
every object of the scoops and domains that go is in the namespace that the same
deletion has removed, or in one that it has spared. One set holds the spared rows of
three tables, which is why their ids are told apart (`IdsAssumption`).

### Scoops

For requests that overlap and delete nothing (`CrowdInv`): the UNIQUE column of the
ports (`UniquePorts`), every Service has the port of its row (`ServiceHasPort`), and
every session has loaded the port that the row still has. `TrafficSpec` keeps such
requests apart from the deletions by `NothingDrops`.

With deletions and without overlap (`SerialInv`): the objects of a scoop are those its
row calls for, with at most an HPA of an earlier row beside them, unless the name is
excused by a forced deletion or one that could not ask the cluster (`Accounted`); all
but that HPA are in the namespace of the row (`NothingAbroad`); and `Serves` follows
the removals of an undeploy one by one, in their order: what it has passed is
gone. The disjointness of ports is then that of the rows.

### ClusterDNS, Domains and DomainPool

The refinement of `HostTable` is the mapping `hosts <- entries`. Only `Write` changes
the entries, to the body computed from the first read; `Fresh` says that without
overlap this body is what the call wants of the block as it is *now* (`Wanted`), so
the write is one step of the table and every other step a stutter. The lost update
of section 4 is the failure of `Fresh`. `Domains` begins calls and waits for them
(`DnsBegins`, `DnsGoesOn`, `DnsEnds`), which lets its proof use the same lemmas.

`SerialInv` of `Domains` adds that no two live rows share a host (`UniqueHosts`),
what the handler has loaded and how far it has come (`Serves`), and what of the
domain an undeploy has removed (`Removing`): a kind that is in `removed` is gone, and
stays so until the handler is done.

For `PoolGoesUnused`, `CountHolds` says that between the count and the DELETE the
count of the suffix stays zero.

### Builds

`IInv` has three parts. `JenkinsOK`: builds are numbered from 1 without a gap, each
number belongs to one item (`Numbered`), and the versions below that of an item are
published (`Published`).
`WorkersOK`: no delivery has two handlers (`OneHandler`), and what hook and poll hold
in their locals is of their delivery (`HookOK`, `PollOK`). `RecordsOK`: a URL or a
number leads to the delivery's own build or a later one (`Follows`, `Leads`). The
last is the core: a number is given when a build starts, `lastBuild` and a rewritten
URL can only jump forward, and so a record never falls behind its own build, though
it may belong to another (`builds_misattributed`). All of that is of pushes with a
Location; the others keep the types, and are in the same Jenkins. The last
number given out is a count of items, which is where `FinitePushes` comes in.

### Platform

A step of `Platform` is a step of the one service that the behaviour is about. Four
of them are proved about directly in `Platform_proofs`:

- `Workspaces` (`WsInvariant`): `OneLivePerName` follows from the UNIQUE columns and
  their owner; `SlugFollowsName` needs that the session's row is the stored one
  while no other request is at work.
- `SystemSecrets` (`SecretsInvariant`): `PatchesOwned` (no two PUTs follow the
  same patch, so the restart of one does not settle what another owes), `PodIsCurrent`
  and `PromisesRun`. `NoKeyGoesBack` follows from the number of a patch, which is the
  highest when it is written.
- `HubLogin` (`HubInvariant`): `CountedFromBefore` (a token expires no earlier at
  Docker Hub than `until` says, because the count starts before the login) and
  `AskedBefore` (a token of an old password was asked for before the rotation, where the password
  is that of `docker_pat`).
  Both bounds are linear in the clock.
- `Platform` itself: `TypesOK`.

`ConfigStore` and `Configurator` have modules of their own, of which
`Platform_proofs` makes instances (`ConfigP`; `SeedP`, `ColumnsP`, `RecordsP`,
`ValuesP`). A lemma `XSame` says that the instance of the proof module and that of
`Platform` define the same; a lemma `XRuns`, that a behaviour of `Platform` about the
service is a behaviour of that instance; with these the theorems of the component
apply to `Platform`.

- `ConfigStore`: `Owned` (an object is in the namespace of the application it bears
  the label of, which is there or has gone with its namespace spared),
  `FoundIsHeld` (what a deploy has found exists), `FoundSoFar` (it has found all that
  exists of what it has read, or nothing at all when a read failed). Each theorem excludes only the
  request that refutes its property.
- `Configurator`: `RowsRefer` needs `GivenOut` (an id is given out once, so what a PUT has
  found is still a record of the same schema, or gone), for a record that was validated
  before its schema went; `FitsWhenStored`
  needs that the body a handler holds is still valid (`Valid`), which a step keeps if
  it leaves the columns alone or no other worker has begun anything (`Steady`).
- `RecordSearch`: the state is the input, so the invariants are facts about
  operators. `Matches` looks at the two ends of the pattern and `Pages` divides;
  neither is recursive, and their proofs need no induction: the match is exhibited
  by its positions, the page of a record by the quotient. A record that ties with no
  other has one place in every query, the number of records before it plus one
  (`PlaceIsRank`): an order is a bijection, and those places are counted.

### Only model-checked

The liveness properties `RequestsFinish`, `PromiseKept` and `ComesUp`: the prover has
neither fairness nor ENABLED. Of `PromiseKept` the safety half is proved. The
violations of section 4 are counterexamples that TLC finds.

## 6. Not modelled

* `auth`, `users`, `core`: no state that the services share. The listings, logs and
  generic endpoints of `cluster`, which a client may aim at any object; the stats.
  The cluster's manifests and the plans under `src/openspec`.
* `audits` beyond the records of `apps`: the other services write them after their
  commit, and no operation reads them.
* Reads; `dry_run`, which changes nothing; `archive_for_app` and
  `archive_for_application`, which nothing calls; the columns that no operation
  reads (the description of a workspace, the flag `tls` of a domain, permissions of
  a schema).
* Contents: manifests, XML, pipeline text, messages, timestamps. The name of a TLS
  secret is one of them: it replaces dots by hyphens (`domains/service.py:141`), so
  two hosts can share a Secret.
* A failed answer of Docker Hub in `webhooks` that is not caught as an `AppError`
  (`webhooks/controller.py:106`) ends the delivery before any effect; it is
  `GiveUp` in `Builds`.
* `status` of a domain (`domains/service.py:369`) can store what it read before a
  deploy; the next GET corrects it, and no property holds between the two.

## 7. Plan

Done: every component with state of its own is modelled and model-checked, and every
safety property of the runs is proved.

Left, in this order:

1. What the liveness properties rest on and can be proved: whoever holds the lock of
   a slug is a worker that is not waiting itself; a boot that has not failed is at a
   step that it can take; a deployment whose pod is not up to date has a rollout
   ahead.
2. `builds`: the number of a record follows the delivery's own build exactly as long
   as Jenkins forgets no item and no URL is rewritten, which would say precisely what
   `builds_misattributed` takes.
