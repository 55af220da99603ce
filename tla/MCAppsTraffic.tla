---------------------------- MODULE MCAppsTraffic ----------------------------
(* Small instances of AppsTraffic for TLC, for safety and for liveness.     *)
EXTENDS AppsTraffic, MCAppLifecycle

CONSTANT w0

(* Progress: requests of several workers that contend for a slug, with      *)
(* bodies that bring their repositories (the repository steps neither wait  *)
(* nor make others wait), or requests of every body to w0 while the others  *)
(* are idle.                                                                *)
Contend == INSTANCE AppLifecycle WITH Bodies <- GivenBody

ProgressInit == Init /\ serial \in BOOLEAN

ProgressNext ==
    \/ serial /\ Next /\ (\A w \in Worker \ {w0} : pc'[w] = "idle") /\ UNCHANGED serial
    \/ ~serial /\ Contend!Next /\ UNCHANGED serial

(* The fairness of FairSpec.                                                *)
ProgressSpec ==
    /\ ProgressInit /\ [][ProgressNext]_trafficVars
    /\ \A w \in Worker : WF_trafficVars(Proceeds(w) /\ UNCHANGED serial)

=============================================================================
