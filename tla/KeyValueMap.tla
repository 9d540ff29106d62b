------------------------------ MODULE KeyValueMap ------------------------------
(***************************************************************************)
(* What a hash table promises its threads: calls that act on one map at    *)
(* one moment each.                                                        *)
(***************************************************************************)
CONSTANTS Keys, Values, Threads, None

VARIABLES
    table,      \* the value of each key, None when it has none
    ret         \* per thread: the key and the result of its last get

Init == table = [k \in Keys |-> None] /\ ret = [t \in Threads |-> <<None, None>>]

(* set and del                                                             *)
Write(k, v) ==
    /\ table' = [table EXCEPT ![k] = v]
    /\ UNCHANGED ret

Read(t, k) ==
    /\ ret' = [ret EXCEPT ![t] = <<k, table[k]>>]
    /\ UNCHANGED table

Next ==
    \E k \in Keys :
        \/ \E v \in Values \cup {None} : Write(k, v)
        \/ \E t \in Threads : Read(t, k)

Spec == Init /\ [][Next]_<<table, ret>>
================================================================================
