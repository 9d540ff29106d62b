------------------------------- MODULE Datapath -------------------------------
(***************************************************************************)
(* The RPC datapath of one connected session: the client and server halves *)
(* of Rpc<TTr> (rpc_req.cc, rpc_resp.cc, rpc_kick.cc, rpc_cr.cc,           *)
(* rpc_rfr.cc, rpc_queues.cc) and the network between them.                *)
(*                                                                         *)
(* Request numbers.  The code numbers the requests of session slot s       *)
(* s + W, s + 2W, ... (W = kSessionReqWindow) and recovers the slot as     *)
(* req_num % W; numbers are compared only within a slot.  Here a request   *)
(* number is the pair (slot, num) with req_num = slot + num * W.           *)
(*                                                                         *)
(* Messages.  A message is its number of packets (pkthdr.total_pkt): the   *)
(* headers of a message differ only in pkt_num, so packet i of a message   *)
(* is determined by i.  A message of one packet is a "small" one.  What a  *)
(* receiver has put together is the sequence of packet numbers in the      *)
(* order in which their bodies were appended.                              *)
(*                                                                         *)
(* Assertions are those of a build without NDEBUG; the model is of the     *)
(* NDEBUG build, in which they do nothing, and the assertions are stated   *)
(* as properties.  A null pointer dereference kills the process: it is     *)
(* then in "dead", takes no more steps, and what its memory held no longer *)
(* matters (the other variables keep their values).                        *)
(***************************************************************************)
EXTENDS Integers, Sequences, FiniteSets, Functions

CONSTANTS
    kSessionCredits,    \* sm_types.h: packets a session may have in flight
    kSessionReqWindow,  \* sm_types.h: slots (outstanding requests) per session
    MaxReqPkts,         \* bound: packets in a request
    MaxRespPkts,        \* bound: packets in a response
    MaxNum,             \* bound: requests issued in one slot
    MaxBacklog,         \* bound: requests waiting for a slot or for the dispatch thread
    Background,         \* subset of BOOLEAN: may a request type run in the background?
    InOrder             \* does the network keep the packets of one slot in order?

kIovCapacity == 2300    \* iovector.h: IOVector = IOVectorEntity<2300, 8>

ASSUME SizeAssumption ==
    /\ kSessionCredits \in Nat \ {0}
    /\ kSessionReqWindow \in Nat \ {0}
    /\ MaxReqPkts \in Nat \ {0}
    /\ MaxRespPkts \in Nat \ {0}
    /\ MaxReqPkts <= kIovCapacity   \* push_back of a packet body cannot fail
ASSUME BoundAssumption == MaxNum \in Nat /\ MaxBacklog \in Nat
ASSUME ModeAssumption == Background \in SUBSET BOOLEAN /\ InOrder \in BOOLEAN

Slots == 0 .. (kSessionReqWindow - 1)

VARIABLES
    \* client session and client slots
    credits,    \* client_info_.credits_
    free,       \* client_info_.sslot_free_vec_
    backlog,    \* size of client_info_.enq_req_backlog_
    ctx,        \* tx_msgbuf_: packets in the slot's request, 0 for nullptr
    cnum,       \* cur_req_num_
    num_tx,     \* client_info_.num_tx_
    num_rx,     \* client_info_.num_rx_
    rbuf,       \* dyn_resp_msgbuf_: the response packets copied so far
    active,     \* the active RPC list
    \* the client's Rpc object
    stallq,     \* stallq_: slots that wait for credits
    in_stallq,  \* the event loop is inside process_credit_stall_queue_st
    bgreqs,     \* size of bg_queues_.enqueue_request_
    \* server slots
    snum,       \* cur_req_num_
    snum_rx,    \* server_info_.num_rx_
    sreq,       \* req_type_ and req_func_type_: "invalid", or the handler's type
    stx,        \* tx_msgbuf_: the slot's last response
    sbuf,       \* dyn_resp_msgbuf_: the request packets appended so far
    \* the server's background threads
    bgwork,     \* slots submitted to a background thread
    bgresp,     \* bg_queues_.enqueue_response_
    \* the network, and the processes killed by a null dereference
    c2s, s2c, dead

cslot == <<ctx, cnum, num_tx, num_rx, rbuf, active>>
crpc  == <<stallq, in_stallq, bgreqs>>
csess == <<credits, free, backlog>>
sslot == <<snum, snum_rx, sreq, stx, sbuf>>
sbg   == <<bgwork, bgresp>>
client == <<cslot, crpc, csess>>
server == <<sslot, sbg>>
vars  == <<client, server, c2s, s2c, dead>>

NoMsg == [num |-> 0, total |-> 0]    \* a null tx_msgbuf_ of a server slot

Packet == [type : {"req", "rfr", "cr", "resp"}, slot : Slots, num : Nat,
           pkt : Int, total : Nat]

Pkt(t, s, n, i, m) == [type |-> t, slot |-> s, num |-> n, pkt |-> i, total |-> m]

(* std::min of the credits in hand and the packets still to send           *)
Lesser_NoCreditLimit(a, b) == b
Lesser(a, b) == IF a <= b THEN a ELSE b

(* req_pkts_pending                                                        *)
ReqPktsPending_MissesLast(s) == num_tx[s] + 1 < ctx[s]
ReqPktsPending(s) == num_tx[s] < ctx[s]

(* wire_pkts: the packets a client sends for a request and its response    *)
WirePkts_OneTooMany(req, resp) == req + resp
WirePkts(req, resp) == req + resp - 1

(* The response packet that the next RFR asks for (enqueue_rfr_st)         *)
NextRfr_OffByOne(s) == num_tx[s] - ctx[s]
NextRfr(s) == num_tx[s] - ctx[s] + 1

(* Appending the body of packet p to what has been received: packet 0      *)
(* starts a new message                                                    *)
Assemble_NoClear(buf, p) == Append(buf, p.pkt)
Assemble(buf, p) == IF p.pkt = 0 THEN <<0>> ELSE Append(buf, p.pkt)

(* Every request packet but the last is answered by a credit return        *)
NeedsCr_Last(p) == TRUE
NeedsCr(p) == p.pkt # p.total - 1

(* The request handler runs once all packets of the request are there      *)
HaveAll_FirstOnly(rx, total) == rx >= 1
HaveAll(rx, total) == rx = total

Init ==
    /\ credits = kSessionCredits
    /\ free = [i \in 1 .. kSessionReqWindow |-> kSessionReqWindow - i]
    /\ backlog = 0
    /\ ctx = [s \in Slots |-> 0]
    /\ cnum = [s \in Slots |-> 0]
    /\ num_tx = [s \in Slots |-> 0]
    /\ num_rx = [s \in Slots |-> 0]
    /\ rbuf = [s \in Slots |-> << >>]
    /\ active = {}
    /\ stallq = << >> /\ in_stallq = FALSE /\ bgreqs = 0
    /\ snum = [s \in Slots |-> 0]
    /\ snum_rx = [s \in Slots |-> 0]
    /\ sreq = [s \in Slots |-> "invalid"]
    /\ stx = [s \in Slots |-> NoMsg]
    /\ sbuf = [s \in Slots |-> << >>]
    /\ bgwork = {} /\ bgresp = << >>
    /\ c2s = {} /\ s2c = {} /\ dead = {}

-------------------------------------------------------------------------------
(* The network: a set of packets in each direction, since no two packets   *)
(* in flight are equal.  With InOrder the packets of one slot arrive in    *)
(* the order they were sent, which (num, kind, pkt) gives: REQs precede    *)
(* RFRs and CRs precede responses within a request.                        *)

Before(q, p) ==
    \/ q.num < p.num
    \/ /\ q.num = p.num
       /\ \/ q.type \in {"req", "cr"} /\ p.type \in {"rfr", "resp"}
          \/ q.type = p.type /\ q.pkt < p.pkt

Deliverable(net) ==
    IF InOrder
    THEN {p \in net : \A q \in net : q.slot = p.slot => ~ Before(q, p)}
    ELSE net

-------------------------------------------------------------------------------
(* The client.                                                             *)

ClientRuns == "client" \notin dead /\ ~ in_stallq

Kill(proc) == dead' = dead \cup {proc} /\ UNCHANGED <<client, server, c2s, s2c>>

(* kick_req_st: request packets num_tx, num_tx + 1, ... while credits last *)
ReqBurst(s, n, total, tx, sending) ==
    {Pkt("req", s, n, i, total) : i \in tx .. (tx + sending - 1)}

kick_req_st(s, n, total, tx, cr, net) ==
    LET sending == Lesser(cr, total - tx)
    IN  /\ credits' = cr - sending
        /\ num_tx' = [num_tx EXCEPT ![s] = tx + sending]
        /\ c2s' = net \cup ReqBurst(s, n, total, tx, sending)

(* kick_rfr_st: requests for response packets 1, 2, ...  num_tx counts the *)
(* request packets too, so the next one is num_tx - ctx + 1.  The          *)
(* unsigned difference wraps to a huge number if num_tx passed wire_pkts.  *)
RfrBurst(s, n, from, sending) ==
    {Pkt("rfr", s, n, i, 0) : i \in from .. (from + sending - 1)}

kick_rfr_st(s, n, wire_pkts, cr) ==
    LET sending == IF num_tx[s] <= wire_pkts
                   THEN Lesser(cr, wire_pkts - num_tx[s]) ELSE cr
    IN  /\ credits' = cr - sending
        /\ num_tx' = [num_tx EXCEPT ![s] = num_tx[s] + sending]
        /\ c2s' = c2s \cup RfrBurst(s, n, NextRfr(s), sending)

(* enqueue_request from the dispatch thread, for a request of total packets *)
EnqueueBacklog ==
    /\ ClientRuns
    /\ free = << >>
    /\ backlog + bgreqs < MaxBacklog
    /\ backlog' = backlog + 1
    /\ UNCHANGED <<cslot, crpc, credits, free, server, c2s, s2c, dead>>

EnqueueRequest(total) ==
    /\ ClientRuns
    /\ free # << >>
    /\ LET s == free[Len(free)] IN
       /\ cnum[s] < MaxNum
       /\ free' = SubSeq(free, 1, Len(free) - 1)
       /\ ctx' = [ctx EXCEPT ![s] = total]
       /\ cnum' = [cnum EXCEPT ![s] = @ + 1]
       /\ num_rx' = [num_rx EXCEPT ![s] = 0]
       /\ active' = active \cup {s}
       /\ \/ /\ credits > 0
             /\ kick_req_st(s, cnum[s] + 1, total, 0, credits, c2s)
             /\ stallq' = stallq
          \/ /\ credits = 0
             /\ stallq' = Append(stallq, s)
             /\ num_tx' = [num_tx EXCEPT ![s] = 0]
             /\ UNCHANGED <<credits, c2s>>
    /\ UNCHANGED <<rbuf, in_stallq, bgreqs, backlog, server, s2c, dead>>

(* enqueue_request from a background thread: left to the dispatch thread   *)
EnqueueRequestInBackground ==
    /\ "client" \notin dead
    /\ backlog + bgreqs < MaxBacklog
    /\ bgreqs' = bgreqs + 1
    /\ UNCHANGED <<cslot, stallq, in_stallq, csess, server, c2s, s2c, dead>>

(* process_bg_queues_enqueue_request_st: the queue entries carry no packet *)
(* header, so the first one that finds a free slot dereferences null       *)
ProcessBgEnqueueRequest ==
    /\ ClientRuns
    /\ bgreqs > 0
    /\ \/ /\ free = << >>
          /\ backlog' = backlog + bgreqs
          /\ bgreqs' = 0
          /\ UNCHANGED <<cslot, stallq, in_stallq, credits, free, server, c2s, s2c, dead>>
       \/ free # << >> /\ Kill("client")

(* process_credit_stall_queue_st: one iteration of its loop.  A slot that  *)
(* finds no credits stays where it is, and so do all the slots behind it,  *)
(* since credits do not grow inside the loop; in_stallq keeps the client's *)
(* other steps out until the loop ends.  For a slot with no request        *)
(* packets left kick_rfr_st dereferences its null header.                  *)
ProcessCreditStallQueue ==
    /\ "client" \notin dead
    /\ stallq # << >>
    /\ credits > 0
    /\ LET s == Head(stallq) IN
       \/ /\ ReqPktsPending(s)
          /\ kick_req_st(s, cnum[s], ctx[s], num_tx[s], credits, c2s)
          /\ stallq' = Tail(stallq)
          /\ in_stallq' = (credits' > 0 /\ stallq' # << >>)
          /\ UNCHANGED <<ctx, cnum, num_rx, rbuf, active, bgreqs, free, backlog,
                         server, s2c, dead>>
       \/ ~ ReqPktsPending(s) /\ Kill("client")

(* process_expl_cr_st: a credit return for a request packet                *)
ProcessExplCr(p) ==
    /\ ClientRuns
    /\ p.type = "cr"
    /\ LET s == p.slot IN
       \/ ctx[s] = 0 /\ Kill("client")     \* req_pkts_pending reads tx_msgbuf_
       \/ /\ ctx[s] # 0
          /\ s2c' = s2c \ {p}
          /\ \/ /\ ReqPktsPending(s)
                /\ kick_req_st(s, cnum[s], ctx[s], num_tx[s], credits + 1, c2s)
             \/ /\ ~ ReqPktsPending(s)
                /\ credits' = credits + 1
                /\ UNCHANGED <<num_tx, c2s>>
          /\ UNCHANGED <<ctx, cnum, num_rx, rbuf, active, crpc, free, backlog,
                         server, dead>>

(* The end of process_resp_one_st, once the response is complete: the slot *)
(* is freed, one backlogged request is issued (without a packet header:    *)
(* the client dies), and the continuation is called.                       *)
CompleteRequest_StaysActive(s) ==
    /\ backlog = 0
    /\ num_rx' = [num_rx EXCEPT ![s] = 0]
    /\ ctx' = [ctx EXCEPT ![s] = 0]
    /\ free' = Append(free, s)
    /\ UNCHANGED <<cnum, active, crpc, backlog, server, dead>>

CompleteRequest(s) ==
    /\ backlog = 0
    /\ num_rx' = [num_rx EXCEPT ![s] = 0]
    /\ ctx' = [ctx EXCEPT ![s] = 0]
    /\ active' = active \ {s}
    /\ free' = Append(free, s)
    /\ UNCHANGED <<cnum, crpc, backlog, server, dead>>

ProcessSmallResp(p) ==
    /\ ClientRuns
    /\ p.type = "resp" /\ p.total = 1
    /\ \/ backlog > 0 /\ Kill("client")
       \/ /\ CompleteRequest(p.slot)
          /\ credits' = credits + 1
          /\ rbuf' = [rbuf EXCEPT ![p.slot] = <<p.pkt>>]
          /\ s2c' = s2c \ {p}
          /\ UNCHANGED <<num_tx, c2s>>

ProcessLargeResp(p) ==
    /\ ClientRuns
    /\ p.type = "resp" /\ p.total > 1
    /\ LET s == p.slot
           wire_pkts == WirePkts(ctx[s], p.total)
           last == num_rx[s] + 1 = p.total
       IN
       \/ ctx[s] = 0 /\ Kill("client")     \* the header of tx_msgbuf_ is read
       \/ ctx[s] # 0 /\ last /\ backlog > 0 /\ Kill("client")
       \/ /\ ctx[s] # 0
          /\ rbuf' = [rbuf EXCEPT ![s] = Assemble(@, p)]
          /\ s2c' = s2c \ {p}
          /\ \/ /\ num_tx[s] # wire_pkts
                /\ kick_rfr_st(s, p.num, wire_pkts, credits + 1)
             \/ /\ num_tx[s] = wire_pkts
                /\ credits' = credits + 1
                /\ UNCHANGED <<num_tx, c2s>>
          /\ \/ last /\ CompleteRequest(s)
             \/ /\ ~ last
                /\ num_rx' = [num_rx EXCEPT ![s] = @ + 1]
                /\ UNCHANGED <<ctx, cnum, active, crpc, free, backlog, server, dead>>

-------------------------------------------------------------------------------
(* The server.                                                             *)

ServerRuns == "server" \notin dead

(* process_small_req_st: a background handler is never run                 *)
ProcessSmallReq(p, bg) ==
    /\ ServerRuns
    /\ p.type = "req" /\ p.total = 1
    /\ LET s == p.slot IN
       /\ snum' = [snum EXCEPT ![s] = p.num]
       /\ snum_rx' = [snum_rx EXCEPT ![s] = 1]
       /\ sreq' = [sreq EXCEPT ![s] = IF bg THEN "bg" ELSE "fg"]
       /\ sbuf' = IF bg THEN sbuf ELSE [sbuf EXCEPT ![s] = <<p.pkt>>]
       /\ c2s' = c2s \ {p}
       /\ UNCHANGED <<stx, sbg, client, s2c, dead>>

(* process_large_req_one_st, with enqueue_cr_st and submit_bg_req_st       *)
ProcessLargeReq(p, bg) ==
    /\ ServerRuns
    /\ p.type = "req" /\ p.total > 1
    /\ LET s == p.slot
           rx == IF p.pkt = 0 THEN 1 ELSE snum_rx[s] + 1
           all == HaveAll(rx, p.total)
       IN
       /\ snum' = IF p.pkt = 0 THEN [snum EXCEPT ![s] = p.num] ELSE snum
       /\ snum_rx' = [snum_rx EXCEPT ![s] = rx]
       /\ sbuf' = [sbuf EXCEPT ![s] = Assemble(@, p)]
       /\ s2c' = IF NeedsCr(p)
                 THEN s2c \cup {Pkt("cr", s, p.num, p.pkt, 0)} ELSE s2c
       /\ sreq' = IF all THEN [sreq EXCEPT ![s] = IF bg THEN "bg" ELSE "fg"] ELSE sreq
       /\ bgwork' = IF all /\ bg THEN bgwork \cup {s} ELSE bgwork
       /\ c2s' = c2s \ {p}
       /\ UNCHANGED <<stx, bgresp, client, dead>>

(* enqueue_response from the dispatch thread, with a response of total packets *)
EnqueueResponse(s, total) ==
    /\ ServerRuns
    /\ sreq[s] = "fg"
    /\ stx' = [stx EXCEPT ![s] = [num |-> snum[s], total |-> total]]
    /\ sreq' = [sreq EXCEPT ![s] = "invalid"]
    /\ s2c' = s2c \cup {Pkt("resp", s, snum[s], 0, total)}
    /\ UNCHANGED <<snum, snum_rx, sbuf, sbg, client, c2s, dead>>

(* A background thread runs the handler, whose enqueue_response is left to *)
(* the dispatch thread                                                     *)
RunBackgroundHandler(s) ==
    /\ ServerRuns
    /\ s \in bgwork
    /\ bgwork' = bgwork \ {s}
    /\ bgresp' = Append(bgresp, s)
    /\ UNCHANGED <<sslot, client, c2s, s2c, dead>>

(* process_bg_queues_enqueue_response_st: the queue entries carry no       *)
(* packet header, so enqueue_response dereferences null                    *)
ProcessBgEnqueueResponse ==
    /\ ServerRuns
    /\ bgresp # << >>
    /\ Kill("server")

(* process_rfr_st: send the response packet asked for                      *)
ProcessRfr(p) ==
    /\ ServerRuns
    /\ p.type = "rfr"
    /\ LET s == p.slot IN
       /\ snum_rx' = [snum_rx EXCEPT ![s] = @ + 1]
       /\ s2c' = s2c \cup {Pkt("resp", s, stx[s].num, p.pkt, stx[s].total)}
    /\ c2s' = c2s \ {p}
    /\ UNCHANGED <<snum, sreq, stx, sbuf, sbg, client, dead>>

-------------------------------------------------------------------------------
ClientRx(p) == ProcessExplCr(p) \/ ProcessSmallResp(p) \/ ProcessLargeResp(p)

ServerRx(p) ==
    \/ \E bg \in Background : ProcessSmallReq(p, bg) \/ ProcessLargeReq(p, bg)
    \/ ProcessRfr(p)

Next ==
    \/ EnqueueBacklog
    \/ \E total \in 1 .. MaxReqPkts : EnqueueRequest(total)
    \/ EnqueueRequestInBackground
    \/ ProcessBgEnqueueRequest
    \/ ProcessCreditStallQueue
    \/ \E p \in Deliverable(s2c) : ClientRx(p)
    \/ \E p \in Deliverable(c2s) : ServerRx(p)
    \/ \E s \in Slots, total \in 1 .. MaxRespPkts : EnqueueResponse(s, total)
    \/ \E s \in Slots : RunBackgroundHandler(s)
    \/ ProcessBgEnqueueResponse

Spec == Init /\ [][Next]_vars

(* Fairness: every packet that has arrived is eventually processed, since  *)
(* both event loops poll forever; the stall queue is looked at in every    *)
(* iteration of the loop; and a request handler eventually responds.       *)
Fairness ==
    /\ \A s \in Slots :
          /\ WF_vars(\E p \in Deliverable(s2c) : p.slot = s /\ ClientRx(p))
          /\ WF_vars(\E p \in Deliverable(c2s) : p.slot = s /\ ServerRx(p))
          /\ WF_vars(\E total \in 1 .. MaxRespPkts : EnqueueResponse(s, total))
          /\ WF_vars(RunBackgroundHandler(s))
    /\ WF_vars(ProcessCreditStallQueue)
    /\ WF_vars(ProcessBgEnqueueRequest)
    /\ WF_vars(ProcessBgEnqueueResponse)

FairSpec == Spec /\ Fairness

-------------------------------------------------------------------------------
(* Properties.                                                             *)

ClientTypeOK ==
    /\ credits \in Nat
    /\ free \in Seq(Slots)
    /\ backlog \in Nat /\ bgreqs \in Nat
    /\ ctx \in [Slots -> Nat] /\ cnum \in [Slots -> Nat]
    /\ num_tx \in [Slots -> Nat] /\ num_rx \in [Slots -> Nat]
    /\ rbuf \in [Slots -> Seq(Int)]
    /\ active \subseteq Slots
    /\ stallq \in Seq(Slots) /\ in_stallq \in BOOLEAN

ServerTypeOK ==
    /\ snum \in [Slots -> Nat] /\ snum_rx \in [Slots -> Nat]
    /\ sreq \in [Slots -> {"invalid", "fg", "bg"}]
    /\ stx \in [Slots -> [num : Nat, total : Nat]]
    /\ sbuf \in [Slots -> Seq(Int)]
    /\ bgwork \subseteq Slots /\ bgresp \in Seq(Slots)

NetTypeOK ==
    /\ c2s \subseteq Packet /\ s2c \subseteq Packet
    /\ IsFiniteSet(c2s) /\ IsFiniteSet(s2c)
    /\ dead \subseteq {"client", "server"}

(* The counters of both ends stay natural numbers: in the code they are    *)
(* unsigned, and credits_ -= sending or rfr_pndng = wire_pkts - num_tx_    *)
(* wrapping below zero would let a client send without bound               *)
(* (rpc_kick.cc).                                                          *)
TypeOK == ClientTypeOK /\ ServerTypeOK /\ NetTypeOK

(* Slots whose request has been received completely and not yet answered:  *)
(* the credit of its last packet is with the server.                       *)
Pending == {s \in Slots : sreq[s] # "invalid"}

(* A credit is never lost or made up: each one is in hand at the client,   *)
(* with a packet in the network, or with a request the server has not      *)
(* answered (kick_req_st and kick_rfr_st take one per packet, bump_credits *)
(* returns one per credit return or response packet).                      *)
CreditConservation ==
    credits + Cardinality(c2s) + Cardinality(s2c) + Cardinality(Pending) = kSessionCredits

(* A slot is either free, once in sslot_free_vec_ and with no tx_msgbuf_,  *)
(* or on the active RPC list; a slot waits for credits at most once, and   *)
(* only a request of which nothing has been sent waits (enqueue_request    *)
(* and the end of process_resp_one_st).                                    *)
SlotDiscipline ==
    /\ IsInjective(free) /\ Range(free) = {s \in Slots : ctx[s] = 0}
    /\ active = Slots \ Range(free)
    /\ IsInjective(stallq) /\ Range(stallq) \subseteq active
    /\ \A s \in Range(stallq) : num_tx[s] = 0

InFlight(s) == {p \in c2s \cup s2c : p.slot = s}

(* An unfinished request always has something on the way that will let it  *)
(* go on: its slot waits in the stall queue, or a packet of it is in the   *)
(* network, or the server still owes the response. Nothing but the arrival *)
(* of a packet or the stall queue restarts a slot.                         *)
NoLostWakeup ==
    \A s \in active : s \in Range(stallq) \/ InFlight(s) # {} \/ s \in Pending

(* Neither process follows a null pointer: no CR or response finds the     *)
(* slot's tx_msgbuf_ null (process_expl_cr_st, process_resp_one_st), and   *)
(* no slot of the stall queue needs an RFR (process_credit_stall_queue_st  *)
(* passes a null header to kick_rfr_st).                                   *)
NoNullDereference == dead = {}

ServerInOrder ==
    \A p \in Deliverable(c2s) : LET s == p.slot IN
        /\ p.type = "req" /\ p.pkt = 0 => p.num = snum[s] + 1 /\ s \notin Pending
        /\ p.type = "req" /\ p.pkt > 0 => p.num = snum[s] /\ p.pkt = snum_rx[s]
        /\ p.type = "rfr" => p.num = stx[s].num /\ p.pkt \in 1 .. (stx[s].total - 1)

ClientInOrder ==
    \A p \in Deliverable(s2c) : LET s == p.slot IN
        /\ s \in active /\ p.num = cnum[s]
        /\ p.type = "resp" => p.pkt = num_rx[s]

(* Neither end needs a reordering check.  A packet the server is about to  *)
(* process is the first packet of the next request of an answered slot, or *)
(* the next packet of the current request, or an RFR for a packet of the   *)
(* current response (the checks commented out of rpc_req.cc and            *)
(* process_rfr_st).  A packet the client is about to process belongs to    *)
(* the slot's current request, and a response packet is the next one (the  *)
(* in_order_client calls commented out of process_expl_cr_st and           *)
(* process_resp_one_st).                                                   *)
PacketsInOrder == ServerInOrder /\ ClientInOrder

-------------------------------------------------------------------------------
(* Properties that the comments and tests of the code state and the code   *)
(* does not have.                                                          *)

(* session.h:168: requests that spill over kSessionReqWindow are queued in *)
(* enq_req_backlog_, to be issued as slots become free.                    *)
BacklogServed == backlog > 0 ~> backlog = 0

-------------------------------------------------------------------------------
(* The inductive invariant of the in-order network.  Number the packets a  *)
(* client sends for the current request of slot s: request packet i is     *)
(* number i, the RFR for response packet j is number ctx - 1 + j, and the  *)
(* server's reply to a packet (credit return or response packet) has the   *)
(* number of that packet.  Then a slot is a sliding window: the client has *)
(* received the replies below lo, the server has received the packets      *)
(* below Rcvd, the client has sent those below num_tx.                     *)

Rcvd(s) == IF snum[s] = cnum[s] THEN snum_rx[s] ELSE 0
Replied(s) == IF sreq[s] # "invalid" THEN Rcvd(s) - 1 ELSE Rcvd(s)

Sent(s, i) ==
    IF i < ctx[s] THEN Pkt("req", s, cnum[s], i, ctx[s])
    ELSE Pkt("rfr", s, cnum[s], i - ctx[s] + 1, 0)

Reply(s, i) ==
    IF i < ctx[s] - 1 THEN Pkt("cr", s, cnum[s], i, 0)
    ELSE Pkt("resp", s, cnum[s], i - ctx[s] + 1, stx[s].total)

OfSlot(net, s) == {p \in net : p.slot = s}

Window(s, lo) ==
    /\ lo <= Replied(s) /\ Rcvd(s) <= num_tx[s]
    /\ OfSlot(c2s, s) = {Sent(s, i) : i \in Rcvd(s) .. (num_tx[s] - 1)}
    /\ OfSlot(s2c, s) = {Reply(s, i) : i \in lo .. (Replied(s) - 1)}
    /\ num_rx[s] = 0 => lo < ctx[s]
    /\ num_rx[s] > 0 => lo = ctx[s] - 1 + num_rx[s]
    /\ s \notin Range(stallq) => lo < num_tx[s]

Answered(s) == Rcvd(s) >= ctx[s] /\ sreq[s] = "invalid"

Phase(s) ==
    /\ sreq[s] # "invalid" => Rcvd(s) = ctx[s]
    /\ num_tx[s] > ctx[s] => Answered(s)
    /\ Answered(s) => /\ stx[s].num = cnum[s]
                      /\ num_tx[s] < ctx[s] + stx[s].total
                      /\ num_rx[s] < stx[s].total

Idle(s) ==
    /\ OfSlot(c2s, s) = {} /\ OfSlot(s2c, s) = {}
    /\ sreq[s] = "invalid" /\ snum[s] = cnum[s]

Busy(s) ==
    /\ snum[s] = cnum[s] \/ (snum[s] + 1 = cnum[s] /\ sreq[s] = "invalid")
    /\ snum[s] = cnum[s] => snum_rx[s] > 0
    /\ Phase(s)
    /\ \E lo \in 0 .. num_tx[s] : Window(s, lo)

SlotInv(s) == (ctx[s] = 0 => Idle(s)) /\ (ctx[s] # 0 => Busy(s))

(* The inductive invariant: every slot is idle, with no trace of its last  *)
(* request anywhere, or its request is a sliding window over the numbered  *)
(* packets with one credit per number between lo and num_tx.               *)
IInv ==
    /\ TypeOK
    /\ SlotDiscipline
    /\ \A s \in Slots : SlotInv(s)
    /\ CreditConservation

===============================================================================
