------------------------------ MODULE IbTransport ------------------------------
(***************************************************************************)
(* The way of packets through one Rpc and its InfiniBand transport: the    *)
(* RECV ring, one iteration of the event loop after the other, the control *)
(* headers, the TX batch, the SEND queue with selective signaling, and the *)
(* NIC, which works on both queues by itself.                              *)
(*                                                                         *)
(* Three flows are followed.  "cr": request packet n arrives, and credit   *)
(* return n leaves; what is sent is the header that enqueue_cr_st filled   *)
(* in from the ring entry it was given.  "rfr": the n-th request for more  *)
(* of a response, which uses the same control headers.  "data": packet n   *)
(* of the application's messages.  The peers together have Credits         *)
(* packets, each of which waits for its credit return.                     *)
(***************************************************************************)
EXTENDS Naturals, FiniteSets, Sequences, Functions

CONSTANTS
    kRQDepth,       \* entries of the RECV queue and of the ring
    kSQDepth,       \* entries of the SEND queue
    kUnsigBatch,    \* one SEND in kUnsigBatch is signaled
    kPostlist,      \* packets in a TX batch, and in a burst of received ones
    kRecvSlack,     \* RECVs that are posted together
    Credits,        \* kSessionCredits of all sessions
    LossScan,       \* is drain_tx_batch_and_dma_queue ever called?
    MaxCr, MaxRfr, MaxData, MaxFlush    \* bounds: packets of each flow, calls of tx_flush

(* the static assertions of IBTransport                                    *)
ASSUME QueueAssumption ==
    /\ kSQDepth >= 2 * kUnsigBatch
    /\ kPostlist <= kUnsigBatch
    /\ {kPostlist, kRecvSlack, Credits, kUnsigBatch, kSQDepth, kRQDepth} \subseteq Nat \ {0}

(* have_ring_entries: the credits of the sessions may fill the ring        *)
ASSUME RingAssumption == Credits <= kRQDepth

Headers == {"cr", "rfr"}    \* the flows whose packets are control headers
Flows == Headers \cup {"data"}
Ring == 0 .. kRQDepth - 1
Ctrl == 0 .. 2 * kUnsigBatch - 1

VARIABLES
    \* the event loop
    pc,             \* where the dispatch thread is
    then,           \* where it goes after tx_burst
    num, todo,      \* packets of the burst received, and those not yet processed
    rx_ring_head,
    \* transmission
    ctrl,           \* ctrl_msgbufs_hdr: the packet each control header was filled in for
    ctrl_head,      \* ctrl_msgbuf_head_
    batch,          \* tx_burst_arr_
    nb_tx,
    sq,             \* SENDs posted and not yet executed
    executed,       \* SENDs executed since the last signaled one
    send_cq,        \* completions: the number of SENDs each one stands for
    \* reception
    ring,           \* the packet in each ring entry
    rq,             \* the ring entries of the RECVs posted
    recv_cq,        \* number of completions
    dropped,        \* packets that arrived when no RECV was posted
    recv_head, recvs_to_post,
    \* the flows, and the calls of tx_flush
    given, left, flushes

loop == <<pc, then, num, todo, rx_ring_head>>
tx == <<ctrl, ctrl_head, batch, nb_tx>>
sendq == <<sq, executed, send_cq>>
rx == <<recv_head, recvs_to_post>>
recvq == <<ring, rq, recv_cq, dropped>>
vars == <<loop, tx, sendq, rx, recvq, given, left, flushes>>

(* init_recvs and init_sends                                               *)
Init ==
    /\ pc = "loop" /\ then = "loop" /\ num = 0 /\ todo = 0 /\ rx_ring_head = 0
    /\ ctrl = [c \in Ctrl |-> 0] /\ ctrl_head = 0 /\ batch = << >> /\ nb_tx = 0
    /\ sq = << >> /\ executed = 0 /\ send_cq = << >>
    /\ ring = [r \in Ring |-> 0] /\ recv_cq = 0 /\ dropped = 0
    /\ rq = [i \in 1 .. kRQDepth |-> i - 1]
    /\ recv_head = 0 /\ recvs_to_post = 0
    /\ given = [f \in Flows |-> 0] /\ left = [f \in Flows |-> 0] /\ flushes = 0

--------------------------------------------------------------------------------
(* enqueue_hdr_tx_burst_st and enqueue_pkt_tx_burst_st: a full batch is    *)
(* sent at once                                                            *)
Enqueue(item, at) ==
    /\ batch' = Append(batch, item)
    /\ pc' = IF Len(batch) + 1 = kPostlist THEN "burst" ELSE at
    /\ then' = at

(* A packet of a message is sent: by the application between two           *)
(* iterations, by a request handler or a continuation while packets are    *)
(* processed, or by the stall queue after them.                            *)
EnqueueData ==
    /\ pc \in {"loop", "rx", "drain"} /\ given["data"] < MaxData
    /\ Enqueue([flow |-> "data", n |-> given["data"] + 1], pc)
    /\ given' = [given EXCEPT !["data"] = @ + 1]
    /\ UNCHANGED <<num, todo, rx_ring_head, ctrl, ctrl_head, nb_tx, sendq, rx, recvq, left, flushes>>

(* rx_burst                                                                *)
RxBurst ==
    /\ pc = "loop"
    /\ LET n == IF recv_cq < kPostlist THEN recv_cq ELSE kPostlist
       IN  /\ num' = n /\ todo' = n
           /\ recv_cq' = recv_cq - n
           /\ pc' = IF n = 0 THEN "drain" ELSE "rx"
    /\ UNCHANGED <<then, rx_ring_head, tx, sendq, rx, ring, rq, dropped, given, left, flushes>>

NextCtrl_Same(c) == c
NextCtrl(c) == IF c + 1 = 2 * kUnsigBatch THEN 0 ELSE c + 1

(* The next control header is filled in for packet n of flow f.            *)
EnqueueHeader(f, n) ==
    /\ ctrl' = [ctrl EXCEPT ![ctrl_head] = n]
    /\ ctrl_head' = NextCtrl(ctrl_head)
    /\ Enqueue([flow |-> f, n |-> ctrl_head], "rx")

enqueue_cr_st(n) == EnqueueHeader("cr", n)

(* enqueue_rfr_st: kick_rfr_st sends some while a response is processed.   *)
enqueue_rfr_st ==
    /\ pc = "rx" /\ given["rfr"] < MaxRfr
    /\ EnqueueHeader("rfr", given["rfr"] + 1)
    /\ given' = [given EXCEPT !["rfr"] = @ + 1]
    /\ UNCHANGED <<num, todo, rx_ring_head, nb_tx, sendq, rx, recvq, left, flushes>>

(* One packet of process_comps_st                                          *)
ProcessPacket ==
    /\ pc = "rx" /\ todo > 0
    /\ todo' = todo - 1
    /\ rx_ring_head' = (rx_ring_head + 1) % kRQDepth
    /\ enqueue_cr_st(ring[rx_ring_head])
    /\ UNCHANGED <<num, nb_tx, sendq, rx, recvq, given, left, flushes>>

(* post_recvs, at the end of process_comps_st                              *)
After_NoWrap(posting) == recv_head + posting
After(posting) == (recv_head + posting) % kRQDepth

LeftToPost_Kept(posting) == posting
LeftToPost(posting) == 0

PostRecvs ==
    /\ pc = "rx" /\ todo = 0
    /\ LET posting == recvs_to_post + num
       IN  IF posting < kRecvSlack
           THEN recvs_to_post' = posting /\ UNCHANGED <<recv_head, rq>>
           ELSE /\ rq' = rq \o [i \in 1 .. posting |-> (recv_head + i - 1) % kRQDepth]
                /\ recv_head' = After(posting)
                /\ recvs_to_post' = LeftToPost(posting)
    /\ pc' = "drain"
    /\ UNCHANGED <<then, num, todo, rx_ring_head, tx, sendq, ring, recv_cq, dropped, given, left,
                   flushes>>

(* The end of the event loop: what is left in the batch is sent.           *)
Drain ==
    /\ pc = "drain"
    /\ pc' = IF batch = << >> THEN "loop" ELSE "burst"
    /\ then' = "loop"
    /\ UNCHANGED <<num, todo, rx_ring_head, tx, sendq, rx, recvq, given, left, flushes>>

--------------------------------------------------------------------------------
(* get_signaled_flag for packet number i since the last flush: is it       *)
(* signaled, and is a completion polled first?                             *)
Signaled(i) == i % kUnsigBatch = 0
Polls_Never(i) == FALSE
Polls(i) == Signaled(i) /\ i # 0

(* What is posted for item: a control header has no body and is sent       *)
(* inline, so it is copied now; a data packet stays in its message, which  *)
(* is not changed before it has been answered.                             *)
Posted(item, i) ==
    [flow |-> item.flow, signaled |-> Signaled(i),
     n |-> IF item.flow \in Headers THEN ctrl[item.n] ELSE item.n]

(* do_tx_burst_st and tx_burst: nothing is posted before all completions   *)
(* have been polled                                                        *)
TxBurst ==
    /\ pc = "burst"
    /\ LET polled == Cardinality({i \in nb_tx .. nb_tx + Len(batch) - 1 : Polls(i)})
       IN  /\ polled <= Len(send_cq)
           /\ send_cq' = SubSeq(send_cq, polled + 1, Len(send_cq))
    /\ sq' = sq \o [i \in 1 .. Len(batch) |-> Posted(batch[i], nb_tx + i - 1)]
    /\ nb_tx' = nb_tx + Len(batch)
    /\ batch' = << >>
    /\ pc' = then
    /\ UNCHANGED <<then, num, todo, rx_ring_head, ctrl, ctrl_head, executed, rx, recvq,
                   given, left, flushes>>

(* drain_tx_batch_and_dma_queue: the batch, then tx_flush with its two     *)
(* completions                                                             *)
DrainTxBatch ==
    /\ LossScan /\ pc = "loop" /\ flushes < MaxFlush
    /\ flushes' = flushes + 1
    /\ pc' = IF batch = << >> THEN "flush" ELSE "burst"
    /\ then' = "flush"
    /\ UNCHANGED <<num, todo, rx_ring_head, tx, sendq, rx, recvq, given, left>>

FlushPost ==
    /\ pc = "flush"
    /\ \/ /\ nb_tx = 0
          /\ pc' = "loop"
          /\ UNCHANGED sendq
       \/ /\ nb_tx # 0 /\ send_cq # << >>
          /\ send_cq' = Tail(send_cq)
          /\ sq' = Append(sq, [flow |-> "flush", signaled |-> TRUE, n |-> 0])
          /\ pc' = "flushed"
          /\ UNCHANGED executed
    /\ UNCHANGED <<then, num, todo, rx_ring_head, tx, rx, recvq, given, left, flushes>>

FlushPoll ==
    /\ pc = "flushed" /\ send_cq # << >>
    /\ send_cq' = Tail(send_cq)
    /\ nb_tx' = 0
    /\ pc' = "loop"
    /\ UNCHANGED <<then, num, todo, rx_ring_head, ctrl, ctrl_head, batch, sq, executed, rx,
                   recvq, given, left, flushes>>

--------------------------------------------------------------------------------
(* The NIC executes the oldest SEND.  A completion releases the entries of *)
(* all SENDs up to its own.                                                *)
NicSend ==
    /\ sq # << >>
    /\ LET e == Head(sq)
       IN  /\ left' = IF e.flow \in Flows THEN [left EXCEPT ![e.flow] = e.n] ELSE left
           /\ send_cq' = IF e.signaled THEN Append(send_cq, executed + 1) ELSE send_cq
           /\ executed' = IF e.signaled THEN 0 ELSE executed + 1
    /\ sq' = Tail(sq)
    /\ UNCHANGED <<loop, tx, rx, recvq, given, flushes>>

(* A packet of a peer that has a credit arrives.  If no RECV is posted it  *)
(* is dropped, and its credit never returns.                               *)
CreditsOut == Credits - (given["cr"] - left["cr"]) - dropped

NicRecv ==
    /\ CreditsOut > 0 /\ given["cr"] < MaxCr /\ rq # << >>
    /\ given' = [given EXCEPT !["cr"] = @ + 1]
    /\ ring' = [ring EXCEPT ![Head(rq)] = given["cr"] + 1]
    /\ rq' = Tail(rq)
    /\ recv_cq' = recv_cq + 1
    /\ UNCHANGED <<loop, tx, sendq, rx, dropped, left, flushes>>

NicDrop ==
    /\ CreditsOut > 0 /\ rq = << >>
    /\ dropped' = dropped + 1
    /\ UNCHANGED <<loop, tx, sendq, rx, ring, rq, recv_cq, given, left, flushes>>

--------------------------------------------------------------------------------
Thread ==
    \/ RxBurst \/ ProcessPacket \/ PostRecvs \/ Drain \/ TxBurst \/ FlushPost \/ FlushPoll

Next ==
    \/ Thread \/ EnqueueData \/ enqueue_rfr_st \/ DrainTxBatch
    \/ NicSend \/ NicRecv \/ NicDrop

Spec == Init /\ [][Next]_vars

(* The event loop runs, and the NIC executes what is posted.               *)
FairSpec == Spec /\ WF_vars(Thread) /\ WF_vars(NicSend)

--------------------------------------------------------------------------------
(* The type invariant.                                                     *)
TypeOK ==
    /\ pc \in {"loop", "rx", "drain", "burst", "flush", "flushed"}
    /\ num \in 0 .. kPostlist /\ todo \in 0 .. num
    /\ Len(batch) <= kPostlist /\ nb_tx \in Nat
    /\ ctrl_head \in Ctrl /\ rx_ring_head \in Ring /\ recv_head \in Ring
    /\ recvs_to_post \in 0 .. kRecvSlack - 1
    /\ \A r \in Range(rq) : r \in Ring

(* Selective signaling works: once a packet has been sent there is exactly *)
(* one signaled SEND or completion, as the comment in tx_flush says, and   *)
(* the SENDs whose entries have not been released by a polled completion   *)
(* fit in the SEND queue.                                                  *)
SelectiveSignaling ==
    /\ Cardinality({i \in 1 .. Len(sq) : sq[i].signaled}) + Len(send_cq) =
          (IF nb_tx = 0 THEN 0 ELSE 1)
    /\ Len(sq) + executed + (IF send_cq = << >> THEN 0 ELSE Head(send_cq)) <= kSQDepth

(* The RECV ring keeps up with the credits.  Although post_recvs holds     *)
(* RECVs back, at most kPostlist + kRecvSlack - 1 of those the credits out *)
(* and the entries have_ring_entries has not given away call for are not   *)
(* posted: so many entries must stay free if no packet is to be dropped.   *)
(* And no posted RECV is for an entry whose packet has not been processed. *)
ring_entries_available == kRQDepth - Credits
HeldBack == kPostlist + kRecvSlack - 1
Unprocessed == {(rx_ring_head + j) % kRQDepth : j \in 0 .. recv_cq + todo - 1}

ReceiveRing ==
    /\ CreditsOut + ring_entries_available <= Len(rq) + HeldBack
    /\ Range(rq) \cap Unprocessed = {} /\ Cardinality(Range(rq)) = Len(rq)

(* Every packet leaves, in order and as it was handed over: no control     *)
(* header is filled in again before it has been sent, no ring entry is     *)
(* read for another packet than the next, and the dispatch thread never    *)
(* waits for a completion that does not come.                              *)
Flow == INSTANCE PacketFlow
ImplementsFlow == Flow!Spec
================================================================================
