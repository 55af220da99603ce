------------------------------ MODULE Workspaces -----------------------------
(***************************************************************************)
(* Workspaces (app/modules/workspaces) and the applications that are put   *)
(* into them (apps/service.py create and update): a row per workspace with *)
(* its owner, its name and the slug of the name, deleted by deleted_at.    *)
(* The columns name and slug are UNIQUE over all rows; the code looks for  *)
(* duplicates among the live rows of the owner.                            *)
(***************************************************************************)
CONSTANTS
    Worker,     \* gunicorn worker processes
    Workspace,  \* ids of workspaces, each given out once
    App,        \* ids of applications
    Owner,      \* users
    Name,       \* names of workspaces
    Slug,       \* and slugs
    SlugOf,     \* slugify, which sends different names to one slug
    None        \* no workspace, no name

(* Assumed by the modules that instantiate this one.                        *)
SlugAssumption == SlugOf \in [Name -> Slug]
NoneAssumption == None \notin Workspace \cup App \cup Owner \cup Name \cup Slug

VARIABLES
    ws,      \* ws[k]: the row of workspace k
    apps,    \* the applications there are
    group,   \* group[a]: the column workspace_id of application a
    pc,      \* pc[w]: the step of the handler worker w is about to run
    target,  \* target[w]: the workspace it serves or puts an application into
    subject, \* subject[w]: that application
    who,     \* who[w]: the user that asks
    want,    \* want[w]: the name the body asks for
    seen     \* seen[w]: the row as its session has loaded it

localVars == <<target, subject, who, want, seen>>
vars == <<ws, apps, group, pc, localVars>>

NoRow == [st |-> "none", owner |-> None, name |-> None, slug |-> None]

Init ==
    /\ ws      = [k \in Workspace |-> NoRow]
    /\ apps    = {}
    /\ group   = [a \in App |-> None]
    /\ pc      = [w \in Worker |-> "idle"]
    /\ target  = [w \in Worker |-> None]
    /\ subject = [w \in Worker |-> None]
    /\ who     = [w \in Worker |-> None]
    /\ want    = [w \in Worker |-> None]
    /\ seen    = [w \in Worker |-> NoRow]

-----------------------------------------------------------------------------
Goto(w, step) == pc' = [pc EXCEPT ![w] = step]

Return(w) ==
    /\ Goto(w, "idle")
    /\ target'  = [target EXCEPT ![w] = None]
    /\ subject' = [subject EXCEPT ![w] = None]
    /\ who'     = [who EXCEPT ![w] = None]
    /\ want'    = [want EXCEPT ![w] = None]
    /\ seen'    = [seen EXCEPT ![w] = NoRow]

Mine(o) == {k \in Workspace : ws[k].st = "live" /\ ws[k].owner = o}

(* The query for duplicates: the live rows of the user, but for row k.      *)
Duplicate(o, k, n) ==
    \E j \in Mine(o) \ {k} : ws[j].name = n \/ ws[j].slug = SlugOf[n]

(* The UNIQUE columns: every row counts.                                    *)
Taken(k, name, slug) ==
    \E j \in Workspace \ {k} :
        ws[j].st # "none" /\ (ws[j].name = name \/ ws[j].slug = slug)

-----------------------------------------------------------------------------
(* POST /api/workspaces                                                     *)
BeginCreate(w, o, n) ==
    /\ pc[w] = "idle"
    /\ who'  = [who EXCEPT ![w] = o]
    /\ want' = [want EXCEPT ![w] = n]
    /\ Goto(w, IF Duplicate(o, None, n) THEN "refused" ELSE "insert")
    /\ UNCHANGED <<ws, apps, group, target, subject, seen>>

NewRow(w) == [st |-> "live", owner |-> who[w], name |-> want[w], slug |-> SlugOf[want[w]]]

(* Mutant: the columns are not UNIQUE.                                      *)
InsertAny(w) ==
    /\ pc[w] = "insert"
    /\ \E k \in Workspace : ws[k].st = "none" /\ ws' = [ws EXCEPT ![k] = NewRow(w)]
    /\ Return(w)
    /\ UNCHANGED <<apps, group>>

Insert(w) ==
    LET taken == Taken(None, want[w], SlugOf[want[w]]) IN
    /\ pc[w] = "insert"
    /\ \/ /\ ~taken
          /\ \E k \in Workspace : ws[k].st = "none" /\ ws' = [ws EXCEPT ![k] = NewRow(w)]
          /\ Return(w)
       \/ /\ taken
          /\ Goto(w, "refused")
          /\ UNCHANGED <<ws, localVars>>
    /\ UNCHANGED <<apps, group>>

(* The ConflictError goes out as a 409.                                     *)
Refused(w) ==
    /\ pc[w] = "refused"
    /\ Return(w)
    /\ UNCHANGED <<ws, apps, group>>

-----------------------------------------------------------------------------
(* WorkspaceService.get: a live row of the user, or a 404.                  *)
Load(w, o, k) ==
    /\ pc[w] = "idle"
    /\ k \in Mine(o)
    /\ target' = [target EXCEPT ![w] = k]
    /\ who'    = [who EXCEPT ![w] = o]
    /\ seen'   = [seen EXCEPT ![w] = ws[k]]

(* PUT /api/workspaces/<id> with a name.                                    *)
BeginUpdate(w, o, k, n) ==
    /\ Load(w, o, k)
    /\ want' = [want EXCEPT ![w] = n]
    /\ Goto(w, IF Duplicate(o, k, n) THEN "refused" ELSE "rename")
    /\ UNCHANGED <<ws, apps, group, subject>>

(* The UPDATE names the columns that differ from what the session loaded.   *)
Changed(old, loaded, new) == IF new = loaded THEN old ELSE new

(* Mutant: the slug is not derived again.                                   *)
RenameOnly(w) ==
    LET k    == target[w]
        name == Changed(ws[k].name, seen[w].name, want[w]) IN
    /\ pc[w] = "rename"
    /\ ~Taken(k, name, None)
    /\ ws' = [ws EXCEPT ![k].name = name]
    /\ Return(w)
    /\ UNCHANGED <<apps, group>>

Rename(w) ==
    LET k    == target[w]
        name == Changed(ws[k].name, seen[w].name, want[w])
        slug == Changed(ws[k].slug, seen[w].slug, SlugOf[want[w]]) IN
    /\ pc[w] = "rename"
    /\ \/ /\ ~Taken(k, name, slug)
          /\ ws' = [ws EXCEPT ![k].name = name, ![k].slug = slug]
          /\ Return(w)
       \/ /\ Taken(k, name, slug)
          /\ Goto(w, "refused")
          /\ UNCHANGED <<ws, localVars>>
    /\ UNCHANGED <<apps, group>>

(* DELETE /api/workspaces/<id>                                              *)
BeginDelete(w, o, k) ==
    /\ Load(w, o, k)
    /\ Goto(w, "erase")
    /\ UNCHANGED <<ws, apps, group, subject, want>>

(* One transaction ungroups the applications and marks the row.             *)
Erase(w) ==
    /\ pc[w] = "erase"
    /\ group' = [a \in App |-> IF group[a] = target[w] THEN None ELSE group[a]]
    /\ ws'    = [ws EXCEPT ![target[w]].st = "deleted"]
    /\ Return(w)
    /\ UNCHANGED apps

-----------------------------------------------------------------------------
(* POST and PUT /api/apps with workspace_id: the row of the workspace is    *)
(* looked up by its id alone; the commit follows, for a creation after all  *)
(* its external calls.                                                      *)
BeginAssign(w, a, k) ==
    /\ pc[w] = "idle"
    /\ k # None => ws[k].st # "none"
    /\ target'  = [target EXCEPT ![w] = k]
    /\ subject' = [subject EXCEPT ![w] = a]
    /\ Goto(w, "assign")
    /\ UNCHANGED <<ws, apps, group, who, want, seen>>

Assign(w) ==
    /\ pc[w] = "assign"
    /\ apps'  = apps \cup {subject[w]}
    /\ group' = [group EXCEPT ![subject[w]] = target[w]]
    /\ Return(w)
    /\ UNCHANGED ws

-----------------------------------------------------------------------------
(* The worker is killed, or a commit raises.                                *)
Crash(w) ==
    /\ pc[w] # "idle"
    /\ Return(w)
    /\ UNCHANGED <<ws, apps, group>>

Act(w) ==
    \/ \E o \in Owner, n \in Name :
         BeginCreate(w, o, n) \/ \E k \in Workspace : BeginUpdate(w, o, k, n)
    \/ \E o \in Owner, k \in Workspace : BeginDelete(w, o, k)
    \/ \E a \in App, k \in Workspace \cup {None} : BeginAssign(w, a, k)
    \/ Insert(w) \/ Refused(w) \/ Rename(w) \/ Erase(w) \/ Assign(w) \/ Crash(w)

Next == \E w \in Worker : Act(w)

Spec == Init /\ [][Next]_vars

-----------------------------------------------------------------------------
Row == [st : {"none", "live", "deleted"}, owner : Owner \cup {None},
        name : Name \cup {None}, slug : Slug \cup {None}]

(* Types; what exists has its columns, only an application that exists has  *)
(* a workspace, and a workspace it has is a row.                            *)
TypeOK ==
    /\ ws \in [Workspace -> Row]
    /\ \A k \in Workspace : ws[k].st # "none" => ws[k].name # None /\ ws[k].slug # None
    /\ apps \subseteq App
    /\ group \in [App -> Workspace \cup {None}]
    /\ \A a \in App : group[a] # None => a \in apps /\ ws[group[a]].st # "none"
    /\ pc \in [Worker -> {"idle", "insert", "refused", "rename", "erase", "assign"}]
    /\ target \in [Worker -> Workspace \cup {None}]
    /\ subject \in [Worker -> App \cup {None}]
    /\ who \in [Worker -> Owner \cup {None}]
    /\ want \in [Worker -> Name \cup {None}]
    /\ seen \in [Worker -> Row]

(* A user has no two workspaces of one name or one slug, through creations  *)
(* and renames that overlap.                                                *)
OneLivePerName ==
    \A o \in Owner : \A j, k \in Mine(o) :
        j # k => ws[j].name # ws[k].name /\ ws[j].slug # ws[k].slug

(* The slug is that of the name.                                            *)
SlugFollowsName ==
    \A k \in Workspace : ws[k].st # "none" => ws[k].slug = SlugOf[ws[k].name]

(* The deletion of a workspace leaves no application in it, and what an     *)
(* application is put into is not deleted.                                  *)
AppsInLive == \A a \in apps : group[a] # None => ws[group[a]].st = "live"

(* A 409 means that the user has a workspace of that name or slug.          *)
ConflictIsReal ==
    \A w \in Worker : pc[w] = "refused" => Duplicate(who[w], target[w], want[w])

=============================================================================
