----------------------------- MODULE ClusterDNS -----------------------------
(***************************************************************************)
(* The DNS override of the cluster (app/modules/dns/service.py): the hosts *)
(* block of a ConfigMap that CoreDNS loads when it is restarted.           *)
(*                                                                         *)
(* add and remove read the block, work out the new one, read the ConfigMap *)
(* AGAIN for its resourceVersion, replace it, and restart CoreDNS.  Every  *)
(* call to the API server can fail, with or without effect.  Domains maps  *)
(* all hosts to the one address DNS_OVERRIDE_LAN_IP, so the block is a set *)
(* of hosts here.                                                          *)
(***************************************************************************)
CONSTANTS
    Worker,   \* gunicorn worker processes
    Host,     \* host names of domains
    None      \* no host

VARIABLES
    entries,  \* hosts in the block of the ConfigMap
    served,   \* hosts CoreDNS resolves: the block of its last restart
    at,       \* at[w]: the step of add or remove worker w is about to run
    call,     \* call[w]: what it was called for
    body,     \* body[w]: the block it is going to write
    current,  \* current[w]: nobody has written since its second read
    answer    \* answer[w]: what it returns or raises

dnsVars == <<entries, served, at, call, body, current, answer>>

NoCall  == [op |-> "add", host |-> None]
Call    == [op : {"add", "remove"}, host : Host \cup {None}]

(* "same" stands for unchanged and absent, "changed" for added and removed, *)
(* "error" for a ClusterDNSError, "raised" for any other exception.         *)
Answers == {"none", "same", "changed", "error", "raised"}

DnsInit ==
    /\ entries = {}
    /\ served  = {}
    /\ at      = [w \in Worker |-> "idle"]
    /\ call    = [w \in Worker |-> NoCall]
    /\ body    = [w \in Worker |-> {}]
    /\ current = [w \in Worker |-> FALSE]
    /\ answer  = [w \in Worker |-> "none"]

-----------------------------------------------------------------------------
Answer(w, a) ==
    /\ at'     = [at EXCEPT ![w] = "done"]
    /\ answer' = [answer EXCEPT ![w] = a]

Begin(w, op, h) ==
    /\ at[w] = "idle"
    /\ at'   = [at EXCEPT ![w] = "read"]
    /\ call' = [call EXCEPT ![w] = [op |-> op, host |-> h]]
    /\ UNCHANGED <<entries, served, body, current, answer>>

(* The caller has the answer; the locals of the call are gone.              *)
End(w) ==
    /\ at'      = [at EXCEPT ![w] = "idle"]
    /\ call'    = [call EXCEPT ![w] = NoCall]
    /\ body'    = [body EXCEPT ![w] = {}]
    /\ current' = [current EXCEPT ![w] = FALSE]
    /\ answer'  = [answer EXCEPT ![w] = "none"]
    /\ UNCHANGED <<entries, served>>

Wanted(w) == IF call[w].op = "add" THEN entries \cup {call[w].host}
                                   ELSE entries \ {call[w].host}

(* Mutant: the block is rendered with the host of the call only.            *)
ReadForgets(w) ==
    /\ at[w] = "read"
    /\ Wanted(w) # entries
    /\ body' = [body EXCEPT ![w] = Wanted(w) \cap {call[w].host}]
    /\ at'   = [at EXCEPT ![w] = "reread"]
    /\ UNCHANGED <<entries, served, call, current, answer>>

(* _read_cm and _parse_entries; then the new block is rendered.             *)
Read(w) ==
    /\ at[w] = "read"
    /\ Wanted(w) # entries
    /\ body' = [body EXCEPT ![w] = Wanted(w)]
    /\ at'   = [at EXCEPT ![w] = "reread"]
    /\ UNCHANGED <<entries, served, call, current, answer>>

(* There is nothing to change: neither a write nor a restart.               *)
ReadSame(w) ==
    /\ at[w] = "read"
    /\ Wanted(w) = entries
    /\ Answer(w, "same")
    /\ UNCHANGED <<entries, served, call, body, current>>

(* No ConfigMap or no such key in it (ClusterDNSError), or the call fails.  *)
ReadFails(w) ==
    /\ at[w] = "read"
    /\ Answer(w, "error") \/ Answer(w, "raised")
    /\ UNCHANGED <<entries, served, call, body, current>>

(* _write_cm reads the ConfigMap again and puts the block into it.          *)
Reread(w) ==
    /\ at[w] = "reread"
    /\ at'      = [at EXCEPT ![w] = "replace"]
    /\ current' = [current EXCEPT ![w] = TRUE]
    /\ UNCHANGED <<entries, served, call, body, answer>>

Write(w) ==
    /\ current[w]
    /\ entries' = body[w]
    /\ current' = [v \in Worker |-> FALSE]

Replace(w) ==
    /\ at[w] = "replace"
    /\ Write(w)
    /\ at' = [at EXCEPT ![w] = "restart"]
    /\ UNCHANGED <<served, call, body, answer>>

(* A conflict of resourceVersions, or the call fails.                       *)
WriteFails(w) ==
    /\ at[w] \in {"reread", "replace"}
    /\ \/ UNCHANGED <<entries, current>>
       \/ at[w] = "replace" /\ Write(w)
    /\ Answer(w, "raised")
    /\ UNCHANGED <<served, call, body>>

Restart(w) ==
    /\ at[w] = "restart"
    /\ served' = entries
    /\ Answer(w, "changed")
    /\ UNCHANGED <<entries, call, body, current>>

(* _restart_coredns turns an ApiException into a ClusterDNSError.           *)
RestartFails(w) ==
    /\ at[w] = "restart"
    /\ served' \in {served, entries}
    /\ Answer(w, "error") \/ Answer(w, "raised")
    /\ UNCHANGED <<entries, call, body, current>>

DnsStep(w) ==
    \/ Read(w) \/ ReadSame(w) \/ ReadFails(w) \/ Reread(w)
    \/ Replace(w) \/ WriteFails(w) \/ Restart(w) \/ RestartFails(w)

-----------------------------------------------------------------------------
(* The service on its own: any worker calls it at any time.                 *)
DnsAct(w) ==
    \/ \E op \in {"add", "remove"}, h \in Host : Begin(w, op, h)
    \/ DnsStep(w)
    \/ at[w] = "done" /\ End(w)

DnsNext == \E w \in Worker : DnsAct(w)

DnsSpec == DnsInit /\ [][DnsNext]_dnsVars

DnsTypeOK ==
    /\ entries \subseteq Host
    /\ served \subseteq Host
    /\ at \in [Worker -> {"idle", "read", "reread", "replace", "restart", "done"}]
    /\ call \in [Worker -> Call]
    /\ body \in [Worker -> SUBSET Host]
    /\ current \in [Worker -> BOOLEAN]
    /\ answer \in [Worker -> Answers]
    /\ \A w \in Worker : at[w] # "idle" => call[w].host \in Host

Table == INSTANCE HostTable WITH hosts <- entries

(* The ConfigMap is a table of hosts: a write changes the host it is about  *)
(* and no other.                                                            *)
OneHostAtATime == Table!Spec

=============================================================================
