------------------------------- MODULE CommitLog -------------------------------
(***************************************************************************)
(* What the replicated service of apps/smr promises: one growing sequence  *)
(* of chosen requests, servers that execute prefixes of it, and a success  *)
(* answer only for a request that has been executed.  Raft implements it.  *)
(***************************************************************************)
EXTENDS Naturals, Sequences

CONSTANT Servers

VARIABLES
    chosen,     \* the requests chosen so far, in order
    executed,   \* per server: the requests it has applied
    acked       \* requests the client got kSuccess for

vars == <<chosen, executed, acked>>

(* The log b begins with a.                                                *)
Begins(b, a) == Len(a) <= Len(b) /\ \A i \in 1 .. Len(a) : b[i] = a[i]

Init == chosen = <<>> /\ executed = [s \in Servers |-> <<>>] /\ acked = {}

(* Requests are added at the end, each once.                               *)
Choose ==
    /\ Begins(chosen', chosen) /\ chosen' # chosen
    /\ \A i, j \in 1 .. Len(chosen') : chosen'[i] = chosen'[j] => i = j
    /\ UNCHANGED <<executed, acked>>

Catchup(s) ==
    /\ executed' = [executed EXCEPT ![s] = executed'[s]]
    /\ Begins(executed'[s], executed[s]) /\ Begins(chosen, executed'[s])
    /\ UNCHANGED chosen

Execute(s) == Catchup(s) /\ UNCHANGED acked

Answer(s) ==
    /\ Catchup(s)
    /\ \E i \in 1 .. Len(executed'[s]) : acked' = acked \cup {executed'[s][i]}

Next == Choose \/ \E s \in Servers : Execute(s) \/ Answer(s)

Spec == Init /\ [][Next]_vars
================================================================================
