----------------------------- MODULE DomainsTraffic --------------------------
(***************************************************************************)
(* Domains where requests do not overlap, and beside them the catalogue of *)
(* second-level domains with the rows of hosts it counts (DomainPool),     *)
(* which shares no state with what Domains is about: a behaviour is one of *)
(* the one or of the other.                                                *)
(***************************************************************************)
EXTENDS Domains

CONSTANTS PoolDomain, PoolHost, Under   \* of DomainPool

VARIABLES catalogue, pool, poolRow, poolPc, poolSubject

Catalogue == INSTANCE DomainPool WITH
    Pool <- PoolDomain, Host <- PoolHost, row <- poolRow, pc <- poolPc,
    subject <- poolSubject

ASSUME PoolConstants == Catalogue!UnderAssumption /\ Catalogue!NoneAssumption
ASSUME NoneIsNoHost  == None \notin Host

poolVars == <<pool, poolRow, poolPc, poolSubject>>
allVars  == <<vars, catalogue, poolVars>>

-----------------------------------------------------------------------------
(* No other worker has a request under way.                                 *)
Alone(w)     == \A v \in Worker \ {w} : pc[v] = "idle"
PoolAlone(w) == \A v \in Worker \ {w} : poolPc[v] = "idle"

EitherInit == Init /\ Catalogue!Init /\ catalogue \in BOOLEAN

EitherNext ==
    \/ /\ catalogue
       /\ \E w \in Worker : PoolAlone(w) /\ Catalogue!Act(w)
       /\ UNCHANGED <<catalogue, vars>>
    \/ /\ ~catalogue
       /\ \/ \E w \in Worker : Alone(w) /\ Act(w)
          \/ \E d \in Domain : Issue(d)
       /\ UNCHANGED <<catalogue, poolVars>>

EitherSpec == EitherInit /\ [][EitherNext]_allVars

(* "Bloqueado si hay subdominios que lo usan" (domain_pool/controller.py):  *)
(* where requests do not overlap, a domain leaves the catalogue only while  *)
(* no live host lies under it.                                              *)
PoolGoesUnused == [][Catalogue!PoolGoesUnused]_allVars

=============================================================================
