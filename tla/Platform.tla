------------------------------- MODULE Platform ------------------------------
(***************************************************************************)
(* The services around the applications, which share no state: workspaces, *)
(* ConfigMaps and Secrets, the secrets of the system, the login at Docker  *)
(* Hub, the tables of the Configurator and the search in them.  A          *)
(* behaviour is one of one service, the others stay where they started.    *)
(*                                                                         *)
(* A service that promises more for some traffic than for other traffic is *)
(* here once for each: workspaces for requests that overlap and for those  *)
(* that do not, the Configurator for boots, columns, records and values.   *)
(***************************************************************************)
EXTENDS Naturals, Sequences, FiniteSets

CONSTANTS
    Worker,                                 \* of Workspaces, ConfigStore and others
    None,
    Workspace, App, Owner, Name, Slug, SlugOf,  \* of Workspaces
    Crowding,                               \* the owners whose requests overlap
    StoreApp, StoreName, Default, Scoop, AppOf, Cronjobs, StoreRequests,  \* of ConfigStore
    Key, Mounted, MaxPatches,               \* of SystemSecrets
    TTL, Timeout, MaxTime, MaxPats,         \* of HubLogin
    Booting, Columned, Recorded, Valued,    \* of Configurator, each a Setup
    ColName, Type,                          \* of Configurator
    Letter, Star, Absent, MaxValue, MaxPattern, \* of RecordSearch
    MaxItems, MaxListed, MaxLimit               \* of RecordSearch

VARIABLES
    service,
    ws, apps, group, wsPc, wsTarget, wsSubject, who, want, seen,
    app, spared, spaces, store, env, storePc, storeSubject, at, asked, todo, found,
    data, template, pod, owed, promised, putPc, key, loaded, wrote,
    fromEnv, clock, pat, since, token, until, hubPc, now, issued,
    name, cols, rec, used, tablePc, tableTarget, body, crashes,
    value, pattern, total, limit, sortKey, place

wsVars     == <<ws, apps, group, wsPc, wsTarget, wsSubject, who, want, seen>>
storeVars  == <<app, spared, spaces, store, env, storePc, storeSubject, at, asked, todo, found>>
secretVars == <<data, template, pod, owed, promised, putPc, key, loaded, wrote>>
hubVars    == <<fromEnv, clock, pat, since, token, until, hubPc, now, issued>>
tableVars  == <<name, cols, rec, used, tablePc, tableTarget, body, crashes>>
searchVars == <<value, pattern, total, limit, sortKey, place>>

vars == <<service, wsVars, storeVars, secretVars, hubVars, tableVars, searchVars>>

-----------------------------------------------------------------------------
Ws == INSTANCE Workspaces WITH pc <- wsPc, target <- wsTarget, subject <- wsSubject

(* Requests that do not overlap.                                            *)
Config == INSTANCE ConfigStore WITH
    App <- StoreApp, Name <- StoreName, Requests <- StoreRequests,
    pc <- storePc, subject <- storeSubject

Secrets == INSTANCE SystemSecrets WITH pc <- putPc

Hub == INSTANCE HubLogin WITH pc <- hubPc

(* Workers that boot, and die.                                              *)
Seed == INSTANCE Configurator WITH
    Worker <- Booting.worker, Schema <- Booting.schema, Record <- Booting.record,
    Name <- Booting.name, Seeds <- Booting.seeds, Kind <- Booting.kind,
    Requests <- {}, MaxCrashes <- Booting.crashes, pc <- tablePc, target <- tableTarget

(* Schemas and columns, while workers boot.                                 *)
Columns == INSTANCE Configurator WITH
    Worker <- Columned.worker, Schema <- Columned.schema, Record <- Columned.record,
    Name <- Columned.name, Seeds <- Columned.seeds, Kind <- Columned.kind,
    Requests <- {"schemas", "columns"}, MaxCrashes <- Columned.crashes,
    pc <- tablePc, target <- tableTarget

(* Records, while their schemas may go.                                     *)
Records == INSTANCE Configurator WITH
    Worker <- Recorded.worker, Schema <- Recorded.schema, Record <- Recorded.record,
    Name <- Recorded.name, Seeds <- Recorded.seeds, Kind <- Recorded.kind,
    Requests <- {"schemas", "records"}, MaxCrashes <- Recorded.crashes,
    pc <- tablePc, target <- tableTarget

(* Columns and records, of requests that do not overlap.                    *)
Values == INSTANCE Configurator WITH
    Worker <- Valued.worker, Schema <- Valued.schema, Record <- Valued.record,
    Name <- Valued.name, Seeds <- Valued.seeds, Kind <- Valued.kind,
    Requests <- {"columns", "records"}, MaxCrashes <- Valued.crashes,
    pc <- tablePc, target <- tableTarget

Search == INSTANCE RecordSearch

-----------------------------------------------------------------------------
(* What each instance takes for granted of its constants.                   *)
ASSUME PlatformAssumption ==
    /\ Ws!SlugAssumption /\ Ws!NoneAssumption
    /\ Config!StoreNames /\ StoreRequests \subseteq {"name", "refs", "readsFail"}
    /\ Secrets!KeyAssumption /\ Secrets!PatchesAssumption
    /\ Hub!TimeAssumption
    /\ Seed!ConfiguratorAssumption /\ Columns!ConfiguratorAssumption
    /\ Records!ConfiguratorAssumption /\ Values!ConfiguratorAssumption
    /\ Search!SearchAssumption

Init ==
    /\ \/ service \in {"crowd", "turns", "config", "secrets", "hub", "seed", "search"} /\ Seed!Init
       \/ service = "columns" /\ Columns!Init
       \/ service = "records" /\ Records!Init
       \/ service = "values" /\ Values!Init
    /\ Ws!Init /\ Config!Init /\ Secrets!Init /\ Hub!Init /\ Search!Init
    /\ service # "hub" => ~fromEnv

(* No other worker has a request for a workspace under way.                 *)
Alone(w) == \A v \in Worker \ {w} : wsPc[v] = "idle"

(* What overlaps are requests of these users.                               *)
Crowded == \A w \in Worker : who[w] \in Crowding \cup {None}

(* The variables of a service stay unless it is one of those that run.      *)
Only(names, its) == IF service \in names THEN TRUE ELSE UNCHANGED its

Rest ==
    /\ UNCHANGED service
    /\ Only({"crowd", "turns"}, wsVars)
    /\ Only({"config"}, storeVars)
    /\ Only({"secrets"}, secretVars)
    /\ Only({"hub"}, hubVars)
    /\ Only({"seed", "columns", "records", "values"}, tableVars)
    /\ Only({"search"}, searchVars)

Next ==
    \/ service = "crowd" /\ Ws!Next /\ Crowded' /\ Rest
    \/ service = "turns" /\ (\E w \in Worker : Alone(w) /\ Ws!Act(w)) /\ Rest
    \/ service = "config" /\ Config!SerialNext /\ Rest
    \/ service = "secrets" /\ Secrets!Next /\ Rest
    \/ service = "hub" /\ Hub!Next /\ Rest
    \/ service = "seed" /\ Seed!Next /\ Rest
    \/ service = "columns" /\ Columns!Next /\ Rest
    \/ service = "records" /\ Records!Next /\ Rest
    \/ service = "values" /\ Values!SerialNext /\ Rest
    \/ service = "search" /\ Search!Next /\ Rest

(* The fairness of SystemSecrets and of Configurator.                       *)
Fairness ==
    /\ WF_vars(service = "secrets" /\ Secrets!Rollout /\ Rest)
    /\ WF_vars(service = "seed" /\ Seed!Restart /\ Rest)
    /\ \A w \in Booting.worker : WF_vars(service = "seed" /\ Seed!BootStep(w) /\ Rest)

Spec == Init /\ [][Next]_vars /\ Fairness

-----------------------------------------------------------------------------
(* The type invariant of the service.                                       *)
TypesOK ==
    /\ service \in {"crowd", "turns"} => Ws!TypeOK
    /\ service = "config"  => Config!TypeOK
    /\ service = "secrets" => Secrets!TypeOK
    /\ service = "hub"     => Hub!TypeOK
    /\ service = "seed"    => Seed!TypeOK
    /\ service = "columns" => Columns!TypeOK
    /\ service = "records" => Records!TypeOK
    /\ service = "values"  => Values!TypeOK

(* Workspaces: a user has no two workspaces of one name or slug, through    *)
(* creations and renames that overlap.                                      *)
OneLivePerName == service \in {"crowd", "turns"} => Ws!OneLivePerName

(* Workspaces: where requests do not overlap the slug is that of the name,  *)
(* through renames that are refused and names of deleted workspaces.        *)
SlugFollowsName == service = "turns" => Ws!SlugFollowsName

(* ConfigStore: every object bears the label of an application that is      *)
(* there, or whose deletion could not remove its namespace; upsert checks   *)
(* the row, and a deletion takes the objects along.                         *)
Backed == service = "config" => Config!Backed

(* ConfigStore: what the manifest of a scoop is about to mount exists.      *)
EnvResolves == service = "config" => Config!EnvResolves

(* ConfigStore: a scoop mounts all it asked for that exists or, when a read *)
(* of the lookup failed, nothing.                                           *)
EnvWhole == service = "config" => Config!EnvWhole

(* SystemSecrets: a pod that is up to date has every value that was saved,  *)
(* but for PUTs under way and those that have said the restart failed.      *)
PodIsCurrent == service = "secrets" => Secrets!PodIsCurrent

(* SystemSecrets: PUTs of different keys do not undo each other.            *)
NoKeyGoesBack == [][service = "secrets" => Secrets!NoKeyGoesBack]_vars

(* SystemSecrets: what a PUT has reported as restarted comes to run.        *)
PromiseKept == Secrets!PromiseKept

(* HubLogin: a token that a call goes out with has not run out at Docker    *)
(* Hub.                                                                     *)
KeptIsAlive == service = "hub" => Hub!KeptIsAlive

(* HubLogin: where the environment does not have the credentials, a new     *)
(* docker_pat reaches every worker within the time a token lives.           *)
RotationReaches == service = "hub" => Hub!RotationReaches

(* Configurator: no column and no record is left of a schema that is gone,  *)
(* the record that was validated before its schema was deleted included.    *)
RowsRefer ==
    /\ service = "columns" => Columns!RowsRefer
    /\ service = "records" => Records!RowsRefer

(* Configurator: where columns do not change under it, a record fits the    *)
(* columns of its schema when it is stored.                                 *)
FitsWhenStored ==
    [][/\ service = "records" => Records!FitsWhenStored
       /\ service = "values"  => Values!FitsWhenStored]_vars

(* Configurator: a boot that fails over the seed is over with the next      *)
(* start, and all workers come to serve.                                    *)
ComesUp ==
    <>[](service = "seed" =>
           \A w \in Booting.worker : tablePc[w] \notin {"failed", "boot"})

(* RecordSearch: a star at either end of a search value stands for any      *)
(* text, any other is a letter.                                             *)
MatchesIsGlob == service = "search" => Search!MatchesIsGlob

(* RecordSearch: the pages of a search, and of a listing by time of         *)
(* creation, have every record that no other ties with, and each once.      *)
PagesPartition == service = "search" => Search!PagesPartition

=============================================================================
