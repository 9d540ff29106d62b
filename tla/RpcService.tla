------------------------------- MODULE RpcService ------------------------------
(***************************************************************************)
(* What a session promises its application: every request is executed once *)
(* by its handler, on exactly the message that was sent, and its           *)
(* continuation sees exactly the handler's response.  A message is the     *)
(* sequence of its packets, which are numbered from 0.                     *)
(***************************************************************************)
EXTENDS Naturals, Sequences

CONSTANTS Slots, MaxReqPkts, MaxRespPkts

VARIABLES
    request,    \* packets in the outstanding request of each slot, 0: none
    issued, executed, answered,     \* the last request so far, per slot
    seen,       \* the request that the running handler sees
    response,   \* packets in the slot's last response
    result      \* the response that the continuation saw

vars == <<request, issued, executed, answered, seen, response, result>>

Message(n) == [i \in 1 .. n |-> i - 1]

Init ==
    /\ request = [s \in Slots |-> 0] /\ response = [s \in Slots |-> 0]
    /\ issued = [s \in Slots |-> 0] /\ executed = [s \in Slots |-> 0]
    /\ answered = [s \in Slots |-> 0]
    /\ seen = [s \in Slots |-> << >>] /\ result = [s \in Slots |-> << >>]

Issue(s, n) ==
    /\ request[s] = 0
    /\ request' = [request EXCEPT ![s] = n]
    /\ issued' = [issued EXCEPT ![s] = @ + 1]
    /\ result' = [result EXCEPT ![s] = << >>]
    /\ UNCHANGED <<executed, answered, seen, response>>

Execute(s) ==
    /\ executed[s] < issued[s]
    /\ executed' = [executed EXCEPT ![s] = issued[s]]
    /\ seen' = [seen EXCEPT ![s] = Message(request[s])]
    /\ UNCHANGED <<request, issued, answered, response, result>>

Answer(s, n) ==
    /\ answered[s] < executed[s]
    /\ answered' = [answered EXCEPT ![s] = executed[s]]
    /\ response' = [response EXCEPT ![s] = n]
    /\ seen' = [seen EXCEPT ![s] = << >>]
    /\ UNCHANGED <<request, issued, executed, result>>

Return(s) ==
    /\ request[s] # 0 /\ answered[s] = issued[s]
    /\ request' = [request EXCEPT ![s] = 0]
    /\ result' = [result EXCEPT ![s] = Message(response[s])]
    /\ UNCHANGED <<issued, executed, answered, seen, response>>

Next ==
    \E s \in Slots :
        \/ \E n \in 1 .. MaxReqPkts : Issue(s, n)
        \/ Execute(s)
        \/ \E n \in 1 .. MaxRespPkts : Answer(s, n)
        \/ Return(s)

(* Every request is executed, answered and returned, if the application    *)
(* issues no more at some time: as long as it does, the requests of one    *)
(* slot may keep that of another from being sent.                          *)
NoMoreRequests == <>[][\A s \in Slots, n \in 1 .. MaxReqPkts : ~ Issue(s, n)]_vars

Served ==
    \A s \in Slots :
        /\ WF_vars(Execute(s))
        /\ WF_vars(\E n \in 1 .. MaxRespPkts : Answer(s, n))
        /\ WF_vars(Return(s))

Spec == Init /\ [][Next]_vars /\ (NoMoreRequests => Served)
================================================================================
