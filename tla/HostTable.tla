------------------------------ MODULE HostTable ------------------------------
(***************************************************************************)
(* What ClusterDNSService promises (app/modules/dns/service.py): a set of  *)
(* host names of which every change adds one name or removes one name.     *)
(***************************************************************************)
CONSTANT Host
VARIABLE hosts

Init == hosts = {}

Add(h)    == hosts' = hosts \cup {h}
Remove(h) == hosts' = hosts \ {h}

Next == \E h \in Host : Add(h) \/ Remove(h)

Spec == Init /\ [][Next]_hosts

=============================================================================
