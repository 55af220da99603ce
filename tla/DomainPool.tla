------------------------------ MODULE DomainPool -----------------------------
(***************************************************************************)
(* The catalogue of second-level domains (app/modules/domain_pool) beside  *)
(* the rows of domains (domains/service.py) whose hosts lie under them.    *)
(* The two tables refer to each other only by a suffix of a string: no     *)
(* foreign key, and the deletion of a pool row counts hosts by LIKE.       *)
(***************************************************************************)
CONSTANTS
    Worker,   \* gunicorn worker processes
    Pool,     \* second-level domains
    Host,     \* hosts of domains
    Under,    \* the pairs <<h, p>> where host h ends in "." and p
    None      \* no pool domain, no host

(* Assumed by the modules that instantiate this one.                        *)
UnderAssumption == Under \subseteq Host \X Pool
NoneAssumption == None \notin Pool \cup Host

VARIABLES
    pool,    \* the rows of domain_pool, by their unique column domain
    row,     \* row[h]: the domain of host h: "none", "live" or "deleted"
    pc,      \* pc[w]: the step of the handler worker w is about to run
    subject  \* subject[w]: the pool domain or the host it serves

vars == <<pool, row, pc, subject>>

Init ==
    /\ pool    = {}
    /\ row     = [h \in Host |-> "none"]
    /\ pc      = [w \in Worker |-> "idle"]
    /\ subject = [w \in Worker |-> None]

-----------------------------------------------------------------------------
Take(w, x, step) ==
    /\ pc[w] = "idle"
    /\ pc'      = [pc EXCEPT ![w] = step]
    /\ subject' = [subject EXCEPT ![w] = x]

Return(w) ==
    /\ pc'      = [pc EXCEPT ![w] = "idle"]
    /\ subject' = [subject EXCEPT ![w] = None]

(* POST /api/domain-pool: the UNIQUE column decides; a duplicate is a 409.  *)
CreatePool(w, p) ==
    /\ pc[w] = "idle"
    /\ p \notin pool
    /\ pool' = pool \cup {p}
    /\ UNCHANGED <<row, pc, subject>>

(* Filter of delete: the hosts of live domains LIKE '%.<domain>'.           *)
InUse(p) == \E h \in Host : row[h] = "live" /\ <<h, p>> \in Under

(* Mutant: the count is not taken.                                          *)
BeginDeletePoolAnyway(w, p) ==
    /\ p \in pool
    /\ Take(w, p, "deletePool")
    /\ UNCHANGED <<pool, row>>

(* DELETE /api/domain-pool/<id>: a 409 while a host uses it.                *)
BeginDeletePool(w, p) ==
    /\ p \in pool
    /\ ~InUse(p)
    /\ Take(w, p, "deletePool")
    /\ UNCHANGED <<pool, row>>

(* The DELETE; of a row another worker has deleted it deletes nothing.      *)
DeletePool(w) ==
    /\ pc[w] = "deletePool"
    /\ pool' = pool \ {subject[w]}
    /\ Return(w)
    /\ UNCHANGED row

-----------------------------------------------------------------------------
(* POST /api/domains and PUT with another host: neither asks the catalogue. *)
(* The column host is UNIQUE over live and deleted rows.                    *)
CreateDomain(w, h) ==
    /\ pc[w] = "idle"
    /\ row[h] = "none"
    /\ row' = [row EXCEPT ![h] = "live"]
    /\ UNCHANGED <<pool, pc, subject>>

ChangeHost(w, h, g) ==
    /\ pc[w] = "idle"
    /\ row[h] = "live"
    /\ row[g] = "none"
    /\ row' = [row EXCEPT ![h] = "none", ![g] = "live"]
    /\ UNCHANGED <<pool, pc, subject>>

(* DELETE /api/domains/<id>: deleted_at, after the cluster was cleaned.     *)
BeginDropDomain(w, h) ==
    /\ row[h] = "live"
    /\ Take(w, h, "dropDomain")
    /\ UNCHANGED <<pool, row>>

DropDomain(w) ==
    /\ pc[w] = "dropDomain"
    /\ row' = IF row[subject[w]] = "live"
              THEN [row EXCEPT ![subject[w]] = "deleted"] ELSE row
    /\ Return(w)
    /\ UNCHANGED pool

(* gunicorn ends the worker, or a request fails: the session rolls back.    *)
Crash(w) ==
    /\ pc[w] # "idle"
    /\ Return(w)
    /\ UNCHANGED <<pool, row>>

Act(w) ==
    \/ DeletePool(w) \/ DropDomain(w) \/ Crash(w)
    \/ \E p \in Pool : CreatePool(w, p) \/ BeginDeletePool(w, p)
    \/ \E h \in Host :
          \/ CreateDomain(w, h) \/ BeginDropDomain(w, h)
          \/ \E g \in Host : ChangeHost(w, h, g)

Next == \E w \in Worker : Act(w)

Spec == Init /\ [][Next]_vars

-----------------------------------------------------------------------------
TypeOK ==
    /\ pool \subseteq Pool
    /\ row \in [Host -> {"none", "live", "deleted"}]
    /\ pc \in [Worker -> {"idle", "deletePool", "dropDomain"}]
    /\ \A w \in Worker :
          subject[w] \in (CASE pc[w] = "idle"       -> {None}
                            [] pc[w] = "deletePool" -> Pool
                            [] pc[w] = "dropDomain" -> Host)

(* "Bloqueado si hay subdominios que lo usan" (controller.py delete_pool):  *)
(* a domain leaves the catalogue only while no live host lies under it.     *)
PoolGoesUnused == \A p \in pool \ pool' : ~InUse(p)

=============================================================================
