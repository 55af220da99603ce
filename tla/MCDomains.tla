------------------------------ MODULE MCDomains ------------------------------
(* Small constants of DomainsTraffic.                                       *)
EXTENDS DomainsTraffic

(* Two hosts under one domain, one under the other, one under neither.      *)
Suffixes == {<<"api.lab.top", "lab.top">>, <<"www.lab.top", "lab.top">>,
             <<"api.top.io", "top.io">>}

=============================================================================
