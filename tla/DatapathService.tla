---------------------------- MODULE DatapathService ----------------------------
(***************************************************************************)
(* The datapath of Datapath implements RpcService, as long as all handlers *)
(* run in the dispatch thread (Background = {FALSE}).                      *)
(***************************************************************************)
EXTENDS Datapath

(* A handler has been called for the slot's current request if the server  *)
(* still owes the response or has its response (req_type_, tx_msgbuf_).    *)
Executed(s) ==
    IF sreq[s] # "invalid" \/ stx[s].num = snum[s] THEN snum[s] ELSE snum[s] - 1

Service == INSTANCE RpcService WITH
    request  <- ctx,
    issued   <- cnum,
    executed <- [s \in Slots |-> Executed(s)],
    answered <- [s \in Slots |-> stx[s].num],
    seen     <- [s \in Slots |-> IF sreq[s] = "fg" THEN sbuf[s] ELSE << >>],
    response <- [s \in Slots |-> stx[s].total],
    result   <- [s \in Slots |-> IF ctx[s] = 0 THEN rbuf[s] ELSE << >>]

(* Every request is executed exactly once, by a handler that sees each of  *)
(* its packets once and in order, and the continuation sees the whole      *)
(* response to this request, although process_large_req_one_st and         *)
(* process_resp_one_st append whatever packet arrives; and once the        *)
(* application issues no more, every request is executed, answered and     *)
(* returned, although nothing but the arrival of a packet or the stall     *)
(* queue makes a slot go on.                                               *)
ImplementsRpcService == Service!Spec

-------------------------------------------------------------------------------
(* What the sliding window of IInv leaves out and the refinement needs: a  *)
(* slot's response is that of its last request, except between the first   *)
(* packet of a request and its response; and what either end has put       *)
(* together is a prefix of the message that was sent.                      *)
Serving(s) == ctx[s] # 0 /\ snum[s] = cnum[s] /\ ~ Answered(s)

MessageInv(s) ==
    /\ sreq[s] # "bg"
    /\ ~ Serving(s) => stx[s].num = snum[s]
    /\ Serving(s) => stx[s].num + 1 = snum[s] /\ sbuf[s] = Service!Message(snum_rx[s])
    /\ ctx[s] # 0 /\ num_rx[s] > 0 => rbuf[s] = Service!Message(num_rx[s])
================================================================================
