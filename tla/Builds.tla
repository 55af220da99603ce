------------------------------- MODULE Builds --------------------------------
(***************************************************************************)
(* From a push to the record of its build (app/modules/webhooks,           *)
(* app/modules/builds, integrations/jenkins, docker/version_bump.py), for  *)
(* one application: the webhook derives a version from the tags in Docker  *)
(* Hub, hands it to the scoops, triggers the Jenkins job and records an    *)
(* AppBuild; a GET of the record asks Jenkins how the build is doing.      *)
(*                                                                         *)
(* Jenkins answers a trigger with the URL of a queue item, which it        *)
(* forgets some time after the build has started, or without one (header   *)
(* Location).  The job may run several builds at a time, and each of them  *)
(* publishes its tag at its end.                                           *)
(* Versions are the patch numbers of tags 0.0.n; only they change.         *)
(***************************************************************************)
EXTENDS Naturals, FiniteSets

CONSTANTS
    Worker,   \* gunicorn worker processes
    Push,     \* deliveries of pushes to master; a redelivery is another one
    Result,   \* the ways in which the builds end
    None      \* no push

VARIABLES
    item,     \* item[i]: queue item i of Jenkins and the build made of it
    kept,     \* kept[i]: the queue API still knows item i
    tagOf,    \* tagOf[v]: the item whose build published the image of tag v
    scoopsAt, \* column version of the application's scoops
    current,  \* its current_version
    own,      \* history: own[p]: the queue item of delivery p
    unlocated, \* history: deliveries whose trigger got no Location
    rec,      \* rec[p]: the row of table app_builds
    pc,       \* pc[w]: the step of the handler worker w is about to run
    push,     \* push[w]: the delivery it handles or whose record it polls
    version,  \* version[w]: the version it has computed
    url,      \* url[w]: the URL it has got from Jenkins
    seen,     \* seen[w]: the record as its session has loaded it
    answer    \* answer[w]: what get_build_status returns

jenkinsVars == <<item, kept, tagOf>>
appVars     == <<scoopsAt, current, rec>>
localVars   == <<push, version, url, seen, answer>>
vars == <<jenkinsVars, appVars, own, unlocated, pc, localVars>>

Item     == 1 .. Cardinality(Push)
Number   == 0 .. Cardinality(Push)       \* of a build; 0: none
Version  == 0 .. Cardinality(Push)
Terminal == {"success", "failed", "aborted"}
Statuses == {"pending", "running"} \cup Terminal

ASSUME ResultAssumption == Result \subseteq Terminal

(* Kind "lost" is the item of a URL that _poll_one has rewritten, "page" the *)
(* URL of the job itself.                                                   *)
NoUrl == [kind |-> "none", id |-> 0]
NoRec == [status |-> "none", number |-> 0, url |-> NoUrl, started |-> FALSE]

NoItem   == [phase |-> "none", version |-> 0, number |-> 0]
NoAnswer == [status |-> "pending", number |-> 0]

Init ==
    /\ item     = [i \in Item |-> NoItem]
    /\ kept     = [i \in Item |-> FALSE]
    /\ tagOf    = [v \in Version |-> 0]
    /\ scoopsAt = 0
    /\ current  = 0
    /\ own      = [p \in Push |-> 0]
    /\ unlocated = {}
    /\ rec      = [p \in Push |-> NoRec]
    /\ pc       = [w \in Worker |-> "idle"]
    /\ push     = [w \in Worker |-> None]
    /\ version  = [w \in Worker |-> 0]
    /\ url      = [w \in Worker |-> NoUrl]
    /\ seen     = [w \in Worker |-> NoRec]
    /\ answer   = [w \in Worker |-> NoAnswer]

-----------------------------------------------------------------------------
Goto(w, step) == pc' = [pc EXCEPT ![w] = step]

Return(w) ==
    /\ Goto(w, "idle")
    /\ push'    = [push EXCEPT ![w] = None]
    /\ version' = [version EXCEPT ![w] = 0]
    /\ url'     = [url EXCEPT ![w] = NoUrl]
    /\ seen'    = [seen EXCEPT ![w] = NoRec]
    /\ answer'  = [answer EXCEPT ![w] = NoAnswer]

LastBuild == Cardinality({i \in Item : item[i].number # 0})

BuildItem(n) == CHOOSE i \in Item : item[i].number = n

BuildStatus(n) == item[BuildItem(n)].phase

-----------------------------------------------------------------------------
(* POST /api/webhooks/github: a push to master of a repository whose        *)
(* application is known; any other is answered without an effect.           *)
BeginPush(w) ==
    /\ pc[w] = "idle"
    /\ \E p \in Push :
         /\ own[p] = 0 /\ rec[p] = NoRec /\ p \notin unlocated
         /\ \A v \in Worker : push[v] # p
         /\ push' = [push EXCEPT ![w] = p]
    /\ Goto(w, "version")
    /\ UNCHANGED <<jenkinsVars, appVars, own, unlocated, version, url, seen, answer>>

(* next_version: the patch after the highest semver tag of any page.        *)
NextVersion(w) ==
    /\ pc[w] = "version"
    /\ \E v \in Version :
         /\ v = 0 \/ tagOf[v] # 0
         /\ \A u \in Version : tagOf[u] # 0 => u <= v
         /\ version' = [version EXCEPT ![w] = v + 1]
    /\ Goto(w, "propagate")
    /\ UNCHANGED <<jenkinsVars, appVars, own, unlocated, push, url, seen, answer>>

(* To all scoops of the application; a failure is logged.                   *)
Propagate(w) ==
    /\ pc[w] = "propagate"
    /\ scoopsAt' \in {scoopsAt, version[w]}
    /\ Goto(w, "trigger")
    /\ UNCHANGED <<jenkinsVars, current, rec, own, unlocated, localVars>>

(* POST buildWithParameters.  Jenkins folds a trigger into an item that     *)
(* waits in its queue with the same parameters.                             *)
Enqueue(i, w) ==
    /\ \/ /\ item[i].phase = "queued" /\ item[i].version = version[w]
          /\ UNCHANGED <<item, kept>>
       \/ /\ item[i] = NoItem
          /\ \A j \in Item : j < i => item[j] # NoItem
          /\ \A j \in Item : item[j].phase = "queued" => item[j].version # version[w]
          /\ item' = [item EXCEPT ![i] =
                        [phase |-> "queued", version |-> version[w], number |-> 0]]
          /\ kept' = [kept EXCEPT ![i] = TRUE]
    /\ own' = [own EXCEPT ![push[w]] = i]
    /\ UNCHANGED tagOf

Trigger(w) ==
    /\ pc[w] = "trigger"
    /\ \E i \in Item :
         /\ Enqueue(i, w)
         /\ url' = [url EXCEPT ![w] = [kind |-> "item", id |-> i]]
    /\ Goto(w, "locate")
    /\ UNCHANGED <<appVars, unlocated, push, version, seen, answer>>

(* A success without a Location, with or without an item in the queue.      *)
TriggerUnlocated(w) ==
    /\ pc[w] = "trigger"
    /\ \/ \E i \in Item : Enqueue(i, w)
       \/ UNCHANGED <<jenkinsVars, own>>
    /\ unlocated' = unlocated \cup {push[w]}
    /\ Goto(w, "locate")
    /\ UNCHANGED <<appVars, localVars>>

(* An AppError: the record is made all the same, without a URL.             *)
TriggerFails(w) ==
    /\ pc[w] = "trigger"
    /\ \/ \E i \in Item : Enqueue(i, w)
       \/ UNCHANGED <<jenkinsVars, own>>
    /\ Goto(w, "current")
    /\ UNCHANGED <<appVars, unlocated, localVars>>

(* _resolve_build_location: the build, if the queue API names it already,   *)
(* else the queue item.                                                     *)
Locate(w) ==
    LET i == url[w].id IN
    /\ pc[w] = "locate" /\ url[w].kind = "item"
    /\ \/ /\ kept[i] /\ item[i].number # 0
          /\ url' = [url EXCEPT ![w] = [kind |-> "build", id |-> item[i].number]]
       \/ UNCHANGED url
    /\ Goto(w, "current")
    /\ UNCHANGED <<jenkinsVars, appVars, own, unlocated, push, version, seen, answer>>

(* Without a Location: whatever build is the last one of the job by now,    *)
(* and the page of the job when there is none or the question fails.        *)
LocateByJob(w) ==
    /\ pc[w] = "locate" /\ url[w] = NoUrl
    /\ \/ /\ LastBuild # 0
          /\ url' = [url EXCEPT ![w] = [kind |-> "build", id |-> LastBuild]]
       \/ url' = [url EXCEPT ![w] = [kind |-> "page", id |-> 0]]
    /\ Goto(w, "current")
    /\ UNCHANGED <<jenkinsVars, appVars, own, unlocated, push, version, seen, answer>>

SetCurrent(w) ==
    /\ pc[w] = "current"
    /\ current' \in {current, version[w]}
    /\ Goto(w, "record")
    /\ UNCHANGED <<jenkinsVars, scoopsAt, rec, own, unlocated, localVars>>

(* create_pending; a failure is logged.                                     *)
Record(w) ==
    /\ pc[w] = "record"
    /\ \/ rec' = [rec EXCEPT ![push[w]] =
                    [status |-> "pending", url |-> url[w], started |-> FALSE,
                     number |-> IF url[w].kind = "build" THEN url[w].id ELSE 0]]
       \/ UNCHANGED rec
    /\ Return(w)
    /\ UNCHANGED <<jenkinsVars, scoopsAt, current, own, unlocated>>

-----------------------------------------------------------------------------
(* GET /api/apps/<id>/builds/<id>, and one after the other for the list.    *)
BeginPoll(w) ==
    /\ pc[w] = "idle"
    /\ \E p \in Push :
         /\ rec[p].status \in {"pending", "running"} /\ rec[p].url # NoUrl
         /\ push' = [push EXCEPT ![w] = p]
         /\ seen' = [seen EXCEPT ![w] = rec[p]]
         /\ url'  = [url EXCEPT ![w] = rec[p].url]
    /\ Goto(w, "ask")
    /\ UNCHANGED <<jenkinsVars, appVars, own, unlocated, version, answer>>

Follow(w, n) ==
    /\ url' = [url EXCEPT ![w] = [kind |-> "build", id |-> n]]
    /\ UNCHANGED <<pc, answer>>

(* The answer without a number of an item that waits.                       *)
StillQueued(w) ==
    /\ answer' = [answer EXCEPT ![w] = NoAnswer]
    /\ Goto(w, "store")
    /\ UNCHANGED url

Asking == UNCHANGED <<jenkinsVars, appVars, own, unlocated, push, version, seen>>

Searching(w) ==
    /\ url' = [url EXCEPT ![w] = [kind |-> "job", id |-> 0]]
    /\ UNCHANGED <<pc, answer>>

(* The queue API answers for the item of w's URL, and names its build.      *)
Answers(w)    == url[w].kind = "item" /\ kept[url[w].id]
Executable(w) == IF Answers(w) THEN item[url[w].id].number ELSE 0

(* Mutant: an item without an executable is taken for one that is gone.     *)
AskQueueImpatient(w) ==
    /\ pc[w] = "ask" /\ url[w].kind \in {"item", "lost"}
    /\ \/ Executable(w) # 0 /\ Follow(w, Executable(w))
       \/ Executable(w) = 0 /\ Searching(w)
    /\ Asking

(* _resolve_queue_and_get_status                                            *)
AskQueue(w) ==
    /\ pc[w] = "ask" /\ url[w].kind \in {"item", "lost"}
    /\ \/ Executable(w) # 0 /\ Follow(w, Executable(w))
       \/ Executable(w) = 0 /\ Answers(w) /\ StillQueued(w)
       \/ ~Answers(w) /\ Searching(w)
    /\ Asking

(* Mutant: the link to the last build is followed without asking for one.   *)
AskJobUnchecked(w) ==
    /\ pc[w] = "ask" /\ url[w].kind = "job"
    /\ Follow(w, LastBuild)
    /\ Asking

(* _find_build_via_job: whatever build is the last one of the job.          *)
AskJob(w) ==
    /\ pc[w] = "ask" /\ url[w].kind = "job"
    /\ \/ LastBuild # 0 /\ Follow(w, LastBuild)
       \/ LastBuild = 0 /\ StillQueued(w)
    /\ Asking

(* Mutant: the result of a build that still runs, null, counts as failed.   *)
AskBuildResult(w) ==
    LET s == BuildStatus(url[w].id) IN
    /\ pc[w] = "ask" /\ url[w].kind = "build"
    /\ answer' = [answer EXCEPT ![w] = [number |-> url[w].id,
                    status |-> IF s = "running" THEN "failed" ELSE s]]
    /\ Goto(w, "store")
    /\ UNCHANGED url
    /\ Asking

AskBuild(w) ==
    /\ pc[w] = "ask" /\ url[w].kind = "build"
    /\ answer' = [answer EXCEPT ![w] =
                    [status |-> BuildStatus(url[w].id), number |-> url[w].id]]
    /\ Goto(w, "store")
    /\ UNCHANGED url
    /\ Asking

(* The page of a job has neither building nor result nor number, which      *)
(* counts as a build that has failed.                                       *)
AskPage(w) ==
    /\ pc[w] = "ask" /\ url[w].kind = "page"
    /\ answer' = [answer EXCEPT ![w] = [status |-> "failed", number |-> 0]]
    /\ Goto(w, "store")
    /\ UNCHANGED url
    /\ Asking

(* The row's columns that _poll_one has changed are written.  The URL of a  *)
(* queue item is rewritten to /queue/item/<number>, unless its digits       *)
(* happen to start with that number.                                        *)
Renumbered(w, r) ==
    LET a == answer[w] IN
    IF a.number \in {0, seen[w].number} THEN {r}
    ELSE {[r EXCEPT !.number = a.number, !.url = u] :
            u \in IF seen[w].url.kind = "item"
                  THEN {r.url, [kind |-> "lost", id |-> 0]} ELSE {r.url}}

Timed(w) == answer[w].number # 0

(* Nothing to report: number and URL are kept only if another poll of the   *)
(* same request commits.                                                    *)
StoreNothing(w) ==
    LET p == push[w] IN
    /\ pc[w] = "store"
    /\ answer[w].status = seen[w].status /\ seen[w].started /\ Timed(w)
    /\ \E r \in {rec[p]} \cup Renumbered(w, rec[p]) : rec' = [rec EXCEPT ![p] = r]
    /\ Return(w)
    /\ UNCHANGED <<jenkinsVars, scoopsAt, current, own, unlocated>>

Store(w) ==
    LET p == push[w]
        a == answer[w]
        s == seen[w] IN
    /\ pc[w] = "store"
    /\ ~(a.status = s.status /\ s.started /\ Timed(w))
    /\ \E r \in Renumbered(w, rec[p]) :
         rec' = [rec EXCEPT ![p] =
                   [r EXCEPT !.status  = IF a.status # s.status THEN a.status ELSE @,
                             !.started = @ \/ (a.status # "pending" /\ Timed(w))]]
    /\ Return(w)
    /\ UNCHANGED <<jenkinsVars, scoopsAt, current, own, unlocated>>

-----------------------------------------------------------------------------
(* PATCH /api/apps/<id>/current-version                                     *)
SetVersion(w) ==
    /\ pc[w] = "idle"
    /\ current' \in Version
    /\ UNCHANGED <<jenkinsVars, scoopsAt, rec, own, unlocated, pc, localVars>>

(* gunicorn kills the worker; no version can be computed; a poll gets an    *)
(* error, which is logged; the load of the record finds nothing.            *)
GiveUp(w) ==
    /\ pc[w] # "idle"
    /\ Return(w)
    /\ UNCHANGED <<jenkinsVars, appVars, own, unlocated>>

-----------------------------------------------------------------------------
(* Jenkins starts, cancels and forgets items, and ends builds.              *)
StartBuild(i) ==
    /\ item[i].phase = "queued"
    /\ item' = [item EXCEPT ![i].phase = "running", ![i].number = LastBuild + 1]
    /\ UNCHANGED <<kept, tagOf>>

Cancel(i) ==
    /\ item[i].phase = "queued"
    /\ item' = [item EXCEPT ![i].phase = "cancelled"]
    /\ UNCHANGED <<kept, tagOf>>

Forget(i) ==
    /\ kept[i] /\ item[i].phase # "queued"
    /\ kept' = [kept EXCEPT ![i] = FALSE]
    /\ UNCHANGED <<item, tagOf>>

(* The image is published in the last stage.                                *)
FinishBuild(i) ==
    /\ item[i].phase = "running"
    /\ \E result \in Result :
         /\ item' = [item EXCEPT ![i].phase = result]
         /\ \/ tagOf' = [tagOf EXCEPT ![item[i].version] = i]
            \/ result # "success" /\ UNCHANGED tagOf
    /\ UNCHANGED kept

Jenkins ==
    /\ \E i \in Item : StartBuild(i) \/ Cancel(i) \/ Forget(i) \/ FinishBuild(i)
    /\ UNCHANGED <<appVars, own, unlocated, pc, localVars>>

Next ==
    \/ \E w \in Worker :
         \/ BeginPush(w) \/ NextVersion(w) \/ Propagate(w) \/ Trigger(w) \/ TriggerUnlocated(w)
         \/ TriggerFails(w) \/ Locate(w) \/ LocateByJob(w) \/ SetCurrent(w) \/ Record(w)
         \/ BeginPoll(w) \/ AskQueue(w) \/ AskJob(w) \/ AskBuild(w) \/ AskPage(w)
         \/ StoreNothing(w) \/ Store(w) \/ SetVersion(w) \/ GiveUp(w)
    \/ Jenkins

Spec == Init /\ [][Next]_vars

-----------------------------------------------------------------------------
Phases == {"none", "queued", "cancelled", "running"} \cup Terminal
Url    == [kind : {"none", "item", "lost", "job", "build", "page"}, id : Number]
Rec    == [status : Statuses, number : Number, url : Url, started : BOOLEAN]

(* Types, and that a poll only ever follows a build Jenkins has started.    *)
TypeOK ==
    /\ item \in [Item -> [phase : Phases, version : Version, number : Number]]
    /\ kept \in [Item -> BOOLEAN]
    /\ tagOf \in [Version -> {0} \cup Item]
    /\ scoopsAt \in Version
    /\ current \in Version
    /\ own \in [Push -> {0} \cup Item]
    /\ unlocated \subseteq Push
    /\ rec \in [Push -> Rec \cup {NoRec}]
    /\ pc \in [Worker -> {"idle", "version", "propagate", "trigger", "locate", "current",
                          "record", "ask", "store"}]
    /\ push \in [Worker -> Push \cup {None}]
    /\ version \in [Worker -> Version]
    /\ url \in [Worker -> Url]
    /\ seen \in [Worker -> Rec \cup {NoRec}]
    /\ answer \in [Worker -> [status : Statuses, number : Number]]
    /\ \A w \in Worker : url[w].kind = "build" =>
         \E i \in Item : item[i].number = url[w].id

Outcome(p, n) == n >= item[own[p]].number /\ BuildStatus(n) = rec[p].status

(* A record that says how its build ended says how some build of the job    *)
(* ended, and none that is older than the one the push has triggered -      *)
(* whatever two polls of it read and write in which order.  It takes a      *)
(* Location in the answer to the trigger; without one, see LocatedAnyhow.   *)
OutcomeIsReal ==
    \A p \in Push \ unlocated : rec[p].status \in Terminal =>
        /\ own[p] # 0
        /\ \E n \in 1 .. LastBuild : Outcome(p, n)

(* A record of a push that Jenkins has given a Location never names a build *)
(* that is older than its own.                                              *)
NeverOlder ==
    \A p \in Push \ unlocated : own[p] # 0 /\ rec[p].number # 0 =>
        rec[p].number >= item[own[p]].number

(* What _resolve_build_location says of its answer ("la fuente de verdad    *)
(* para donde esta mi build"), for the pushes it has to guess for: their    *)
(* records are about their builds, and about no older one.                  *)
LocatedAnyhow ==
    \A p \in unlocated :
        /\ rec[p].status \in Terminal => rec[p].number # 0
        /\ own[p] # 0 /\ rec[p].number # 0 => rec[p].number >= item[own[p]].number

(* What the design of the version badge says: builds triggered concurrently *)
(* do not collide, so a published tag stays what it is.                     *)
TagsImmutable ==
    [][\A v \in Version : tagOf[v] # 0 => tagOf'[v] = tagOf[v]]_vars

(* What _poll_one says: the number may be out of step, the canonical URL of *)
(* the build is not - a record is about the build its push has triggered,   *)
(* if Jenkins has said where that is.                                       *)
FollowsOwnBuild ==
    \A p \in Push \ unlocated :
        own[p] # 0 /\ rec[p].number # 0 => rec[p].number = item[own[p]].number

=============================================================================
