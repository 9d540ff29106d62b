---------------------------- MODULE DatapathLemmas ----------------------------
(***************************************************************************)
(* Type correctness of Datapath, for every network and every size; lemmas  *)
(* about the sliding window of a slot, the core of the inductive invariant *)
(* IInv; and the proof that every action of the client preserves IInv when *)
(* the network keeps the packets of a slot in order.                       *)
(***************************************************************************)
EXTENDS Datapath, FiniteSetTheorems, SequenceTheorems, TLAPS

-------------------------------------------------------------------------------
(* Bursts of packets.                                                      *)

(* A burst of n consecutive packets has n elements.                        *)
LEMMA ReqBurstSize ==
    ASSUME NEW s \in Slots, NEW n \in Nat, NEW total \in Nat, NEW tx \in Nat,
           NEW sending \in Nat
    PROVE  /\ ReqBurst(s, n, total, tx, sending) \subseteq Packet
           /\ IsFiniteSet(ReqBurst(s, n, total, tx, sending))
           /\ Cardinality(ReqBurst(s, n, total, tx, sending)) = sending
<1> DEFINE I == tx .. (tx + sending - 1)
           B == ReqBurst(s, n, total, tx, sending)
           f == [i \in I |-> Pkt("req", s, n, i, total)]
<1>1. IsFiniteSet(I) /\ Cardinality(I) = sending
  BY FS_Interval
<1>2. f \in Surjection(I, B) /\ f \in Injection(I, B)
  BY Zenon DEF Surjection, Injection, IsInjective, ReqBurst, Pkt
<1>3. B \subseteq Packet
  BY DEF ReqBurst, Packet, Pkt
<1> HIDE DEF f, B, I
<1> QED
  BY Zenon, <1>1, <1>2, <1>3, FS_Surjection DEF B

\* A burst of RFRs (enqueue_rfr_st) has as many packets as it was asked for.
LEMMA RfrBurstSize ==
    ASSUME NEW s \in Slots, NEW n \in Nat, NEW from \in Int, NEW sending \in Nat
    PROVE  /\ RfrBurst(s, n, from, sending) \subseteq Packet
           /\ IsFiniteSet(RfrBurst(s, n, from, sending))
           /\ Cardinality(RfrBurst(s, n, from, sending)) = sending
<1> DEFINE I == from .. (from + sending - 1)
           B == RfrBurst(s, n, from, sending)
           f == [i \in I |-> Pkt("rfr", s, n, i, 0)]
<1>1. IsFiniteSet(I) /\ Cardinality(I) = sending
  BY FS_Interval
<1>2. f \in Surjection(I, B) /\ f \in Injection(I, B)
  BY Zenon DEF Surjection, Injection, IsInjective, RfrBurst, Pkt
<1>3. B \subseteq Packet
  BY DEF RfrBurst, Packet, Pkt
<1> HIDE DEF f, B, I
<1> QED
  BY Zenon, <1>1, <1>2, <1>3, FS_Surjection DEF B

(* What kick_req_st and kick_rfr_st do to the client's counters and to the *)
(* network, for cr credits in hand.                                        *)
LEMMA KickReqType ==
    ASSUME NEW s \in Slots, NEW n \in Nat, NEW total \in Nat, NEW tx \in Nat,
           tx <= total, NEW cr \in Nat, kick_req_st(s, n, total, tx, cr, c2s),
           NetTypeOK, num_tx \in [Slots -> Nat]
    PROVE  /\ credits' \in Nat
           /\ num_tx' \in [Slots -> Nat]
           /\ c2s' \subseteq Packet /\ IsFiniteSet(c2s')
<1> DEFINE sending == Lesser(cr, total - tx)
<1>1. sending \in Nat /\ sending <= cr
  BY DEF Lesser
<1>2. /\ credits' = cr - sending
      /\ num_tx' = [num_tx EXCEPT ![s] = tx + sending]
      /\ c2s' = c2s \cup ReqBurst(s, n, total, tx, sending)
  BY Zenon DEF kick_req_st
<1> HIDE DEF sending
<1>3. c2s' \subseteq Packet /\ IsFiniteSet(c2s')
  BY Zenon, <1>1, <1>2, ReqBurstSize, FS_Union DEF NetTypeOK
<1> QED
  BY <1>1, <1>2, <1>3

\* kick_rfr_st keeps the types of the credits, of num_tx_ and of the network.
LEMMA KickRfrType ==
    ASSUME NEW s \in Slots, NEW n \in Nat, NEW wire_pkts \in Int, NEW cr \in Nat,
           kick_rfr_st(s, n, wire_pkts, cr),
           NetTypeOK, num_tx \in [Slots -> Nat], ctx \in [Slots -> Nat]
    PROVE  /\ credits' \in Nat
           /\ num_tx' \in [Slots -> Nat]
           /\ c2s' \subseteq Packet /\ IsFiniteSet(c2s')
<1> DEFINE sending == IF num_tx[s] <= wire_pkts
                      THEN Lesser(cr, wire_pkts - num_tx[s]) ELSE cr
<1>0. num_tx[s] \in Nat /\ ctx[s] \in Nat
  BY Zenon
<1>1. sending \in Nat /\ sending <= cr
  BY <1>0 DEF Lesser
<1>2. /\ credits' = cr - sending
      /\ num_tx' = [num_tx EXCEPT ![s] = num_tx[s] + sending]
      /\ c2s' = c2s \cup RfrBurst(s, n, num_tx[s] - ctx[s] + 1, sending)
  BY Zenon DEF kick_rfr_st, NextRfr
<1> HIDE DEF sending
<1>3. c2s' \subseteq Packet /\ IsFiniteSet(c2s')
  <2>1. num_tx[s] - ctx[s] + 1 \in Int
    BY <1>0
  <2> QED
    BY Zenon, <1>1, <1>2, <2>1, RfrBurstSize, FS_Union DEF NetTypeOK
<1> QED
  BY <1>0, <1>1, <1>2, <1>3

-------------------------------------------------------------------------------
(* Sequences.                                                              *)

\* A function on 1 .. n is a sequence of length n.
LEMMA FunctionIsSeq ==
    ASSUME NEW S, NEW n \in Nat, NEW f \in [1 .. n -> S]
    PROVE  f \in Seq(S) /\ Len(f) = n
OBVIOUS

-------------------------------------------------------------------------------
(* Type correctness.                                                       *)

\* The initial state (Session's constructor) is well typed.
LEMMA TypeInit == Init => TypeOK
<1> SUFFICES ASSUME Init PROVE TypeOK
  BY Zenon
<1>1. free \in Seq(Slots)
  <2>1. free \in [1 .. kSessionReqWindow -> Slots]
    BY SizeAssumption DEF Init, Slots
  <2> QED
    BY Zenon, <2>1, FunctionIsSeq, SizeAssumption
<1>2. ClientTypeOK
  BY <1>1, SizeAssumption, SMTT(60) DEF Init, ClientTypeOK
<1>3. ServerTypeOK
  BY DEF Init, ServerTypeOK, NoMsg
<1>4. NetTypeOK
  BY Zenon, FS_EmptySet DEF Init, NetTypeOK
<1> QED
  BY Zenon, <1>2, <1>3, <1>4 DEF TypeOK

\* A null pointer dereference leaves every other variable as it was.
LEMMA TypeKill ==
    ASSUME TypeOK, NEW proc \in {"client", "server"}, Kill(proc) PROVE TypeOK'
BY Zenon DEF Kill, TypeOK, ClientTypeOK, ServerTypeOK, NetTypeOK, client, server,
       cslot, crpc, csess, sslot, sbg

\* A step of the client alone keeps the types of the server's variables.
LEMMA ServerTypeFrame ==
    ASSUME ServerTypeOK, UNCHANGED server PROVE ServerTypeOK'
BY Zenon DEF ServerTypeOK, server, sslot, sbg

\* A step of the server alone keeps the types of the client's variables.
LEMMA ClientTypeFrame ==
    ASSUME ClientTypeOK, UNCHANGED client PROVE ClientTypeOK'
BY Zenon DEF ClientTypeOK, client, cslot, crpc, csess

\* enqueue_request keeps the types.
LEMMA TypeEnqueueRequest ==
    ASSUME TypeOK, NEW total \in 1 .. MaxReqPkts, EnqueueRequest(total) PROVE TypeOK'
<1>0. PICK s : s = free[Len(free)]
  BY Zenon
<1>1. free # << >> /\ free \in Seq(Slots)
  BY Zenon DEF EnqueueRequest, TypeOK, ClientTypeOK
<1>2. Len(free) \in Nat \ {0} /\ s \in Slots
  BY <1>0, <1>1
<1>3. free' \in Seq(Slots)
  <2>1. free' = SubSeq(free, 1, Len(free) - 1)
    BY Zenon DEF EnqueueRequest
  <2> QED
    BY <1>1, <1>2, <2>1, SubSeqProperties
<1>4. /\ ctx' = [ctx EXCEPT ![s] = total]
      /\ cnum' = [cnum EXCEPT ![s] = @ + 1]
      /\ num_rx' = [num_rx EXCEPT ![s] = 0]
      /\ active' = active \cup {s}
      /\ UNCHANGED <<rbuf, in_stallq, bgreqs, backlog, server, s2c, dead>>
  BY Zenon, <1>0 DEF EnqueueRequest
<1>5. /\ credits' \in Nat /\ num_tx' \in [Slots -> Nat]
      /\ c2s' \subseteq Packet /\ IsFiniteSet(c2s')
      /\ stallq' \in Seq(Slots)
  <2>0. /\ cnum[s] + 1 \in Nat /\ total \in Nat /\ 0 <= total /\ credits \in Nat
        /\ NetTypeOK /\ num_tx \in [Slots -> Nat] /\ stallq \in Seq(Slots)
    BY <1>2, SizeAssumption, SMTT(60) DEF TypeOK, ClientTypeOK
  <2>1. CASE /\ kick_req_st(s, cnum[s] + 1, total, 0, credits, c2s)
             /\ stallq' = stallq
    <3>1. kick_req_st(s, cnum[s] + 1, total, 0, credits, c2s)
      BY Zenon, <2>1
    <3> QED
      BY Zenon, <1>2, <2>0, <2>1, <3>1, KickReqType
  <2>2. CASE /\ stallq' = Append(stallq, s)
             /\ num_tx' = [num_tx EXCEPT ![s] = 0]
             /\ UNCHANGED <<credits, c2s>>
    BY <1>2, <2>0, <2>2 DEF NetTypeOK
  <2>3. \/ /\ kick_req_st(s, cnum[s] + 1, total, 0, credits, c2s)
           /\ stallq' = stallq
        \/ /\ stallq' = Append(stallq, s)
           /\ num_tx' = [num_tx EXCEPT ![s] = 0]
           /\ UNCHANGED <<credits, c2s>>
    BY Zenon, <1>0, Zenon DEF EnqueueRequest
  <2> QED
    BY Zenon, <2>1, <2>2, <2>3
<1>6. ClientTypeOK'
  <2>1. ClientTypeOK /\ total \in Nat
    BY SizeAssumption DEF TypeOK
  <2>2. ctx' \in [Slots -> Nat] /\ cnum' \in [Slots -> Nat] /\ num_rx' \in [Slots -> Nat]
    BY <1>2, <1>4, <2>1, SMTT(60) DEF ClientTypeOK
  <2> QED
    BY Zenon, <1>2, <1>3, <1>4, <1>5, <2>1, <2>2 DEF ClientTypeOK
<1> QED
  BY Zenon, <1>4, <1>5, <1>6, ServerTypeFrame DEF TypeOK, NetTypeOK

\* process_credit_stall_queue_st keeps the types.
LEMMA TypeStallQueue ==
    ASSUME TypeOK, ProcessCreditStallQueue PROVE TypeOK'
<1>0. PICK s : s = Head(stallq)
  BY Zenon
<1>1. s \in Slots /\ Tail(stallq) \in Seq(Slots)
  BY <1>0 DEF ProcessCreditStallQueue, TypeOK, ClientTypeOK
<1>2. CASE Kill("client")
  BY Zenon, <1>2, TypeKill
<1>3. CASE ~ Kill("client")
  <2>1. /\ num_tx[s] < ctx[s]
        /\ kick_req_st(s, cnum[s], ctx[s], num_tx[s], credits, c2s)
        /\ stallq' = Tail(stallq)
        /\ UNCHANGED <<ctx, cnum, num_rx, rbuf, active, bgreqs, free, backlog,
                       server, s2c, dead>>
    BY Zenon, <1>0, <1>3 DEF ProcessCreditStallQueue, ReqPktsPending
  <2>2. in_stallq' \in BOOLEAN
    BY Zenon, <1>3 DEF ProcessCreditStallQueue
  <2>3. /\ cnum[s] \in Nat /\ ctx[s] \in Nat /\ num_tx[s] \in Nat /\ credits \in Nat
        /\ NetTypeOK /\ num_tx \in [Slots -> Nat]
    BY Zenon, <1>1 DEF TypeOK, ClientTypeOK
  <2>4. kick_req_st(s, cnum[s], ctx[s], num_tx[s], credits, c2s) /\ num_tx[s] <= ctx[s]
    BY <2>1, <2>3
  <2>5. /\ credits' \in Nat /\ num_tx' \in [Slots -> Nat]
        /\ c2s' \subseteq Packet /\ IsFiniteSet(c2s')
    BY Zenon, <1>1, <2>3, <2>4, KickReqType
  <2>6. ClientTypeOK'
    BY Zenon, <1>1, <2>1, <2>2, <2>5 DEF TypeOK, ClientTypeOK
  <2> QED
    BY Zenon, <2>1, <2>5, <2>6, ServerTypeFrame DEF TypeOK, NetTypeOK
<1> QED
  BY Zenon, <1>2, <1>3

\* process_expl_cr_st keeps the types.
LEMMA TypeExplCr ==
    ASSUME TypeOK, NEW p \in s2c, ProcessExplCr(p) PROVE TypeOK'
<1>0. PICK s : s = p.slot
  BY Zenon
<1>1. s \in Slots
  BY Zenon, <1>0 DEF TypeOK, NetTypeOK, Packet
<1>2. CASE Kill("client")
  BY Zenon, <1>2, TypeKill
<1>3. CASE ~ Kill("client")
  <2>1. /\ s2c' = s2c \ {p}
        /\ UNCHANGED <<ctx, cnum, num_rx, rbuf, active, crpc, free, backlog, server, dead>>
    BY Zenon, <1>0, <1>3, Zenon DEF ProcessExplCr, ReqPktsPending
  <2>2. \/ /\ num_tx[s] < ctx[s]
           /\ kick_req_st(s, cnum[s], ctx[s], num_tx[s], credits + 1, c2s)
        \/ credits' = credits + 1 /\ UNCHANGED <<num_tx, c2s>>
    BY Zenon, <1>0, <1>3, Zenon DEF ProcessExplCr, ReqPktsPending
  <2>3. /\ cnum[s] \in Nat /\ ctx[s] \in Nat /\ num_tx[s] \in Nat /\ credits + 1 \in Nat
        /\ NetTypeOK /\ num_tx \in [Slots -> Nat]
    BY <1>1 DEF TypeOK, ClientTypeOK
  <2>4. /\ credits' \in Nat /\ num_tx' \in [Slots -> Nat]
        /\ c2s' \subseteq Packet /\ IsFiniteSet(c2s')
    <3>1. CASE /\ num_tx[s] < ctx[s]
               /\ kick_req_st(s, cnum[s], ctx[s], num_tx[s], credits + 1, c2s)
      <4>1. /\ kick_req_st(s, cnum[s], ctx[s], num_tx[s], credits + 1, c2s)
            /\ num_tx[s] <= ctx[s]
        BY <2>3, <3>1
      <4> QED
        BY Zenon, <1>1, <2>3, <4>1, KickReqType
    <3>2. CASE credits' = credits + 1 /\ UNCHANGED <<num_tx, c2s>>
      BY Zenon, <2>3, <3>2 DEF NetTypeOK
    <3> QED
      BY Zenon, <2>2, <3>1, <3>2
  <2>5. s2c' \subseteq Packet /\ IsFiniteSet(s2c')
    BY Zenon, <2>1, <2>3, FS_RemoveElement DEF NetTypeOK
  <2>6. ClientTypeOK'
    BY Zenon, <2>1, <2>4 DEF TypeOK, ClientTypeOK, crpc
  <2> QED
    BY Zenon, <2>1, <2>4, <2>5, <2>6, ServerTypeFrame DEF TypeOK, NetTypeOK
<1> QED
  BY Zenon, <1>2, <1>3

\* The completion path of process_resp_one_st keeps the types of the client's variables.
LEMMA TypeComplete ==
    ASSUME ClientTypeOK, NEW s \in Slots, CompleteRequest(s),
           credits' \in Nat, num_tx' \in [Slots -> Nat], rbuf' \in [Slots -> Seq(Int)]
    PROVE  ClientTypeOK'
<1>1. /\ num_rx' = [num_rx EXCEPT ![s] = 0]
      /\ ctx' = [ctx EXCEPT ![s] = 0]
      /\ active' = active \ {s}
      /\ free' = Append(free, s)
      /\ UNCHANGED <<cnum, stallq, in_stallq, bgreqs, backlog>>
  BY Zenon DEF CompleteRequest, crpc
<1>2. ctx' \in [Slots -> Nat] /\ num_rx' \in [Slots -> Nat]
  BY Zenon, <1>1 DEF ClientTypeOK
<1>3. active' \subseteq Slots /\ free' \in Seq(Slots)
  BY <1>1 DEF ClientTypeOK
<1> QED
  BY Zenon, <1>1, <1>2, <1>3, SMTT(30) DEF ClientTypeOK

\* process_resp_one_st on a response of one packet keeps the types.
LEMMA TypeSmallResp ==
    ASSUME TypeOK, NEW p \in s2c, ProcessSmallResp(p) PROVE TypeOK'
<1>1. p.slot \in Slots /\ p.pkt \in Int
  BY Zenon DEF TypeOK, NetTypeOK, Packet
<1>2. CASE Kill("client")
  BY <1>2, TypeKill
<1>3. CASE ~ Kill("client")
  <2>1. /\ CompleteRequest(p.slot)
        /\ credits' = credits + 1
        /\ rbuf' = [rbuf EXCEPT ![p.slot] = <<p.pkt>>]
        /\ s2c' = s2c \ {p}
        /\ UNCHANGED <<num_tx, c2s>>
    BY Zenon, <1>3, Zenon DEF ProcessSmallResp
  <2>2. credits' \in Nat /\ num_tx' \in [Slots -> Nat] /\ rbuf' \in [Slots -> Seq(Int)]
    BY <1>1, <2>1 DEF TypeOK, ClientTypeOK
  <2>3. ClientTypeOK'
    BY Zenon, <1>1, <2>1, <2>2, TypeComplete DEF TypeOK
  <2>4. UNCHANGED <<server, dead>>
    BY Zenon, <2>1 DEF CompleteRequest
  <2>5. s2c' \subseteq Packet /\ IsFiniteSet(s2c')
    BY Zenon, <2>1, FS_RemoveElement DEF TypeOK, NetTypeOK
  <2> QED
    BY Zenon, <2>1, <2>3, <2>4, <2>5, ServerTypeFrame DEF TypeOK, NetTypeOK
<1> QED
  BY <1>2, <1>3

\* process_resp_one_st on a packet of a larger response keeps the types.
LEMMA TypeLargeResp ==
    ASSUME TypeOK, NEW p \in s2c, ProcessLargeResp(p) PROVE TypeOK'
<1>0. PICK s, wire_pkts : s = p.slot /\ wire_pkts = ctx[s] + p.total - 1
  BY Zenon
<1>1. /\ s \in Slots /\ p.pkt \in Int /\ p.num \in Nat /\ p.total \in Nat
      /\ ctx[s] \in Nat /\ num_rx[s] \in Nat /\ wire_pkts \in Int
  BY <1>0 DEF TypeOK, ClientTypeOK, NetTypeOK, Packet
<1>2. CASE Kill("client")
  BY <1>2, TypeKill
<1>3. CASE ~ Kill("client")
  <2>1. /\ rbuf' = [rbuf EXCEPT ![s] = IF p.pkt = 0 THEN <<0>> ELSE Append(@, p.pkt)]
        /\ s2c' = s2c \ {p}
    BY Zenon, <1>0, <1>3, Zenon DEF ProcessLargeResp, Assemble, WirePkts
  <2>2. \/ kick_rfr_st(s, p.num, wire_pkts, credits + 1)
        \/ credits' = credits + 1 /\ UNCHANGED <<num_tx, c2s>>
    BY Zenon, <1>0, <1>3, Zenon DEF ProcessLargeResp, Assemble, WirePkts
  <2>3. \/ CompleteRequest(s)
        \/ /\ num_rx' = [num_rx EXCEPT ![s] = @ + 1]
           /\ UNCHANGED <<ctx, cnum, active, crpc, free, backlog, server, dead>>
    BY Zenon, <1>0, <1>3, Zenon DEF ProcessLargeResp, Assemble, WirePkts
  <2>4. /\ NetTypeOK /\ credits + 1 \in Nat
        /\ num_tx \in [Slots -> Nat] /\ ctx \in [Slots -> Nat]
    BY DEF TypeOK, ClientTypeOK
  <2>5. /\ credits' \in Nat /\ num_tx' \in [Slots -> Nat]
        /\ c2s' \subseteq Packet /\ IsFiniteSet(c2s')
    <3>1. CASE kick_rfr_st(s, p.num, wire_pkts, credits + 1)
      BY Zenon, <1>1, <2>4, <3>1, KickRfrType
    <3>2. CASE credits' = credits + 1 /\ UNCHANGED <<num_tx, c2s>>
      BY Zenon, <2>4, <3>2 DEF NetTypeOK
    <3> QED
      BY Zenon, <2>2, <3>1, <3>2
  <2>6. rbuf' \in [Slots -> Seq(Int)]
    BY <1>1, <2>1 DEF TypeOK, ClientTypeOK
  <2>7. ClientTypeOK' /\ UNCHANGED <<server, dead>>
    <3>1. CASE CompleteRequest(s)
      <4>1. UNCHANGED <<server, dead>>
        BY Zenon, <3>1 DEF CompleteRequest
      <4> QED
        BY Zenon, <1>1, <2>5, <2>6, <3>1, <4>1, TypeComplete DEF TypeOK
    <3>2. CASE /\ num_rx' = [num_rx EXCEPT ![s] = @ + 1]
               /\ UNCHANGED <<ctx, cnum, active, crpc, free, backlog, server, dead>>
      <4>1. ClientTypeOK
        BY Zenon DEF TypeOK
      <4> QED
        BY <1>1, <2>5, <2>6, <3>2, <4>1, SMTT(60) DEF ClientTypeOK, crpc
    <3> QED
      BY Zenon, <2>3, <3>1, <3>2
  <2>8. s2c' \subseteq Packet /\ IsFiniteSet(s2c')
    BY Zenon, <2>1, <2>4, FS_RemoveElement DEF NetTypeOK
  <2> QED
    BY Zenon, <2>5, <2>7, <2>8, ServerTypeFrame DEF TypeOK, NetTypeOK
<1> QED
  BY <1>2, <1>3

\* process_small_req_st keeps the types.
LEMMA TypeSmallReq ==
    ASSUME TypeOK, NEW p \in c2s, NEW bg \in BOOLEAN, ProcessSmallReq(p, bg) PROVE TypeOK'
<1>1. p.slot \in Slots /\ p.pkt \in Int /\ p.num \in Nat
  BY Zenon DEF TypeOK, NetTypeOK, Packet
<1>2. ServerTypeOK'
  BY <1>1 DEF ProcessSmallReq, TypeOK, ServerTypeOK, sbg
<1>3. NetTypeOK'
  BY Zenon, FS_RemoveElement DEF ProcessSmallReq, TypeOK, NetTypeOK
<1>4. UNCHANGED client
  BY Zenon DEF ProcessSmallReq
<1> QED
  BY Zenon, <1>2, <1>3, <1>4, ClientTypeFrame DEF TypeOK

\* process_large_req_one_st keeps the types.
LEMMA TypeLargeReq ==
    ASSUME TypeOK, NEW p \in c2s, NEW bg \in BOOLEAN, ProcessLargeReq(p, bg) PROVE TypeOK'
<1>0. PICK s, rx : s = p.slot /\ rx = (IF p.pkt = 0 THEN 1 ELSE snum_rx[s] + 1)
  BY Zenon
<1>1. s \in Slots /\ p.pkt \in Int /\ p.num \in Nat
  BY Zenon, <1>0 DEF TypeOK, NetTypeOK, Packet
<1>2. rx \in Nat
  BY <1>0, <1>1 DEF TypeOK, ServerTypeOK
<1>3. /\ snum' = IF p.pkt = 0 THEN [snum EXCEPT ![s] = p.num] ELSE snum
      /\ snum_rx' = [snum_rx EXCEPT ![s] = rx]
      /\ sbuf' = [sbuf EXCEPT ![s] = IF p.pkt = 0 THEN <<0>> ELSE Append(@, p.pkt)]
      /\ c2s' = c2s \ {p}
      /\ UNCHANGED <<stx, bgresp, client, dead>>
  BY Zenon, <1>0 DEF ProcessLargeReq, Assemble, HaveAll, NeedsCr
<1>4. /\ sreq' = sreq \/ sreq' = [sreq EXCEPT ![s] = "bg"] \/ sreq' = [sreq EXCEPT ![s] = "fg"]
      /\ bgwork' = bgwork \/ bgwork' = bgwork \cup {s}
      /\ s2c' = s2c \/ s2c' = s2c \cup {Pkt("cr", s, p.num, p.pkt, 0)}
  BY Zenon, <1>0 DEF ProcessLargeReq, Assemble, HaveAll, NeedsCr
<1>5. ServerTypeOK'
  <2>1. ServerTypeOK
    BY Zenon DEF TypeOK
  <2>2. snum' \in [Slots -> Nat] /\ snum_rx' \in [Slots -> Nat]
    BY Zenon, <1>1, <1>2, <1>3, <2>1 DEF ServerTypeOK
  <2>3. sbuf' \in [Slots -> Seq(Int)]
    BY <1>1, <1>3, <2>1 DEF ServerTypeOK
  <2>4. sreq' \in [Slots -> {"invalid", "fg", "bg"}] /\ bgwork' \subseteq Slots
    BY Zenon, <1>1, <1>4, <2>1 DEF ServerTypeOK
  <2> QED
    BY Zenon, <1>3, <2>1, <2>2, <2>3, <2>4 DEF ServerTypeOK
<1>6. NetTypeOK'
  <2>1. Pkt("cr", s, p.num, p.pkt, 0) \in Packet
    BY Zenon, <1>1 DEF Pkt, Packet
  <2>2. NetTypeOK
    BY Zenon DEF TypeOK
  <2> QED
    BY <1>3, <1>4, <2>1, <2>2, FS_RemoveElement, FS_AddElement DEF NetTypeOK
<1> QED
  BY Zenon, <1>3, <1>5, <1>6, ClientTypeFrame DEF TypeOK

\* enqueue_response keeps the types.
LEMMA TypeEnqueueResponse ==
    ASSUME TypeOK, NEW s \in Slots, NEW total \in 1 .. MaxRespPkts, EnqueueResponse(s, total)
    PROVE  TypeOK'
<1>1. snum[s] \in Nat /\ total \in Nat
  BY SizeAssumption DEF TypeOK, ServerTypeOK
<1>2. ServerTypeOK'
  BY Zenon, <1>1 DEF EnqueueResponse, TypeOK, ServerTypeOK, sbg
<1>3. NetTypeOK'
  <2>1. Pkt("resp", s, snum[s], 0, total) \in Packet
    BY <1>1 DEF Pkt, Packet
  <2> QED
    BY Zenon, <2>1, FS_AddElement DEF EnqueueResponse, TypeOK, NetTypeOK
<1>4. UNCHANGED client
  BY Zenon DEF EnqueueResponse
<1> QED
  BY Zenon, <1>2, <1>3, <1>4, ClientTypeFrame DEF TypeOK

\* process_rfr_st keeps the types.
LEMMA TypeRfr ==
    ASSUME TypeOK, NEW p \in c2s, ProcessRfr(p) PROVE TypeOK'
<1>1. p.slot \in Slots /\ p.pkt \in Int /\ p.num \in Nat
  BY Zenon DEF TypeOK, NetTypeOK, Packet
<1>2. ServerTypeOK'
  BY <1>1, SMTT(60) DEF ProcessRfr, TypeOK, ServerTypeOK, sbg
<1>3. NetTypeOK'
  <2>1. Pkt("resp", p.slot, stx[p.slot].num, p.pkt, stx[p.slot].total) \in Packet
    BY Zenon, <1>1 DEF Pkt, Packet, TypeOK, ServerTypeOK
  <2> QED
    BY Zenon, <2>1, FS_AddElement, FS_RemoveElement DEF ProcessRfr, TypeOK, NetTypeOK
<1>4. UNCHANGED client
  BY Zenon DEF ProcessRfr
<1> QED
  BY Zenon, <1>2, <1>3, <1>4, ClientTypeFrame DEF TypeOK

\* The backlog, the background queues and background handlers keep the types.
LEMMA TypeRest ==
    ASSUME TypeOK,
           \/ EnqueueBacklog \/ EnqueueRequestInBackground \/ ProcessBgEnqueueRequest
           \/ \E s \in Slots : RunBackgroundHandler(s)
           \/ ProcessBgEnqueueResponse
           \/ UNCHANGED vars
    PROVE  TypeOK'
<1> USE DEF TypeOK
<1>1. CASE EnqueueBacklog
  <2>1. UNCHANGED <<cslot, crpc, credits, free, server, c2s, s2c, dead>> /\ backlog' \in Nat
    BY <1>1 DEF EnqueueBacklog, ClientTypeOK
  <2>2. ClientTypeOK'
    BY Zenon, <2>1 DEF ClientTypeOK, cslot, crpc
  <2> QED
    BY Zenon, <2>1, <2>2, ServerTypeFrame DEF NetTypeOK
<1>2. CASE EnqueueRequestInBackground
  <2>1. UNCHANGED <<cslot, stallq, in_stallq, csess, server, c2s, s2c, dead>> /\ bgreqs' \in Nat
    BY <1>2 DEF EnqueueRequestInBackground, ClientTypeOK
  <2>2. ClientTypeOK'
    BY Zenon, <2>1 DEF ClientTypeOK, cslot, csess
  <2> QED
    BY Zenon, <2>1, <2>2, ServerTypeFrame DEF NetTypeOK
<1>3. CASE ProcessBgEnqueueRequest
  <2>1. CASE Kill("client")
    BY Zenon, <2>1, TypeKill
  <2>2. CASE ~ Kill("client")
    <3>1. /\ UNCHANGED <<cslot, stallq, in_stallq, credits, free, server, c2s, s2c, dead>>
          /\ backlog' = backlog + bgreqs /\ bgreqs' = 0
      BY Zenon, <1>3, <2>2, Zenon DEF ProcessBgEnqueueRequest
    <3>2. ClientTypeOK'
      <4>1. backlog' \in Nat /\ bgreqs' \in Nat
        BY <3>1 DEF ClientTypeOK
      <4> QED
        BY Zenon, <3>1, <4>1 DEF ClientTypeOK, cslot
    <3> QED
      BY Zenon, <3>1, <3>2, ServerTypeFrame DEF NetTypeOK
  <2> QED
    BY Zenon, <2>1, <2>2
<1>4. CASE \E s \in Slots : RunBackgroundHandler(s)
  <2>1. PICK s \in Slots : RunBackgroundHandler(s)
    BY Zenon, <1>4
  <2>2. UNCHANGED <<sslot, client, c2s, s2c, dead>> /\ bgwork' = bgwork \ {s}
        /\ bgresp' = Append(bgresp, s)
    BY Zenon, <2>1 DEF RunBackgroundHandler
  <2>3. ServerTypeOK'
    BY <2>2, SMTT(30) DEF ServerTypeOK, sslot
  <2> QED
    BY Zenon, <2>2, <2>3, ClientTypeFrame DEF NetTypeOK
<1>5. CASE ProcessBgEnqueueResponse
  BY Zenon, <1>5, TypeKill DEF ProcessBgEnqueueResponse
<1>6. CASE UNCHANGED vars
  BY Zenon, <1>6 DEF vars, TypeOK, ClientTypeOK, ServerTypeOK, NetTypeOK, client, server,
              cslot, crpc, csess, sslot, sbg
<1> QED
  BY Zenon, <1>1, <1>2, <1>3, <1>4, <1>5, <1>6

\* Only packets in flight are delivered.
LEMMA DeliverableSubset ==
    ASSUME NEW net PROVE Deliverable(net) \subseteq net
BY Zenon, ModeAssumption DEF Deliverable

\* Every step of the event loops keeps the types.
LEMMA TypeNext == TypeOK /\ [Next]_vars => TypeOK'
<1> SUFFICES ASSUME TypeOK, [Next]_vars PROVE TypeOK'
  BY Zenon
<1>1. CASE \E total \in 1 .. MaxReqPkts : EnqueueRequest(total)
  BY Zenon, <1>1, TypeEnqueueRequest
<1>2. CASE ProcessCreditStallQueue
  BY Zenon, <1>2, TypeStallQueue
<1>3. CASE \E p \in Deliverable(s2c) : ClientRx(p)
  <2>1. PICK p \in s2c : ClientRx(p)
    BY Zenon, <1>3, DeliverableSubset
  <2> QED
    BY Zenon, <2>1, TypeExplCr, TypeSmallResp, TypeLargeResp DEF ClientRx
<1>4. CASE \E p \in Deliverable(c2s) : ServerRx(p)
  <2>1. PICK p \in c2s : ServerRx(p)
    BY <1>4, DeliverableSubset
  <2>2. CASE ProcessRfr(p)
    BY Zenon, <2>2, TypeRfr
  <2>3. CASE ~ ProcessRfr(p)
    <3>1. PICK bg \in BOOLEAN : ProcessSmallReq(p, bg) \/ ProcessLargeReq(p, bg)
      BY Zenon, <2>1, <2>3, ModeAssumption DEF ServerRx
    <3> QED
      BY Zenon, <3>1, TypeSmallReq, TypeLargeReq
  <2> QED
    BY Zenon, <2>2, <2>3
<1>5. CASE \E s \in Slots, total \in 1 .. MaxRespPkts : EnqueueResponse(s, total)
  BY Zenon, <1>5, TypeEnqueueResponse
<1> QED
  BY Zenon, <1>1, <1>2, <1>3, <1>4, <1>5, TypeRest DEF Next

(* Every reachable state is well typed, whatever order packets arrive in.  *)
(* In particular credits_ never wraps below zero: kick_req_st and          *)
(* kick_rfr_st never send more packets than the session has credits.       *)
THEOREM TypeCorrect == Spec => []TypeOK
BY TypeInit, TypeNext, PTL DEF Spec

-------------------------------------------------------------------------------
(* The inductive invariant.                                                *)

\* push_back of a new element on a list without repetitions.
LEMMA AppendRange ==
    ASSUME NEW S, NEW q \in Seq(S), NEW e \in S, IsInjective(q), e \notin Range(q)
    PROVE  IsInjective(Append(q, e)) /\ Range(Append(q, e)) = Range(q) \cup {e}
<1>1. /\ DOMAIN q = 1 .. Len(q) /\ Len(q) \in Nat
      /\ DOMAIN Append(q, e) = 1 .. (Len(q) + 1)
      /\ \A i \in 1 .. Len(q) : Append(q, e)[i] = q[i]
      /\ Append(q, e)[Len(q) + 1] = e
  OBVIOUS
<1>2. IsInjective(Append(q, e))
  BY <1>1 DEF IsInjective, Range
<1>3. Range(Append(q, e)) = Range(q) \cup {e}
  BY <1>1 DEF Range
<1> QED
  BY Zenon, <1>2, <1>3

\* pop_back of a list without repetitions (sslot_free_vec_).
LEMMA FrontRange ==
    ASSUME NEW S, NEW q \in Seq(S), q # << >>, IsInjective(q)
    PROVE  LET e == q[Len(q)]
               f == SubSeq(q, 1, Len(q) - 1)
           IN  e \in Range(q) /\ IsInjective(f) /\ Range(f) = Range(q) \ {e}
<1> DEFINE e == q[Len(q)]
           f == SubSeq(q, 1, Len(q) - 1)
<1>1. DOMAIN q = 1 .. Len(q) /\ Len(q) \in Nat \ {0}
  OBVIOUS
<1>2. /\ DOMAIN f = 1 .. (Len(q) - 1)
      /\ \A i \in 1 .. (Len(q) - 1) : f[i] = q[i]
  BY <1>1, SubSeqProperties
<1> HIDE DEF f
<1>3. e \in Range(q)
  BY <1>1 DEF Range
<1>4. IsInjective(f)
  BY <1>1, <1>2 DEF IsInjective
<1>5. Range(f) = Range(q) \ {e}
  <2>1. ASSUME NEW i \in 1 .. (Len(q) - 1) PROVE q[i] # e
    BY <1>1 DEF IsInjective
  <2> QED
    BY <1>1, <1>2, <2>1 DEF Range
<1> QED
  BY Zenon, <1>3, <1>4, <1>5 DEF f

\* pop_front of a list without repetitions (stallq_).
LEMMA TailRange ==
    ASSUME NEW S, NEW q \in Seq(S), q # << >>, IsInjective(q)
    PROVE  /\ Head(q) \in Range(q) /\ IsInjective(Tail(q))
           /\ Range(Tail(q)) = Range(q) \ {Head(q)}
<1>1. DOMAIN q = 1 .. Len(q) /\ Len(q) \in Nat \ {0} /\ Head(q) = q[1]
  OBVIOUS
<1>2. /\ DOMAIN Tail(q) = 1 .. (Len(q) - 1)
      /\ \A i \in 1 .. (Len(q) - 1) : Tail(q)[i] = q[i + 1]
  BY <1>1
<1>3. Head(q) \in Range(q)
  BY <1>1 DEF Range
<1>4. IsInjective(Tail(q))
  BY <1>1, <1>2 DEF IsInjective
<1>5. Range(Tail(q)) = Range(q) \ {Head(q)}
  <2>1. ASSUME NEW i \in 1 .. (Len(q) - 1) PROVE q[i + 1] # q[1]
    BY <1>1 DEF IsInjective
  <2>2. ASSUME NEW x \in Range(q), x # q[1] PROVE x \in Range(Tail(q))
    <3>1. PICK k \in 1 .. Len(q) : q[k] = x
      BY Zenon, <1>1 DEF Range
    <3>2. k - 1 \in 1 .. (Len(q) - 1) /\ Tail(q)[k - 1] = x
      BY <1>1, <1>2, <2>2, <3>1
    <3> QED
      BY Zenon, <1>2, <3>2 DEF Range
  <2>3. ASSUME NEW x \in Range(Tail(q)) PROVE x \in Range(q) /\ x # q[1]
    <3>1. PICK k \in 1 .. (Len(q) - 1) : Tail(q)[k] = x
      BY Zenon, <1>2 DEF Range
    <3> QED
      BY <1>1, <1>2, <2>1, <3>1 DEF Range
  <2> QED
    BY Zenon, <1>1, <2>2, <2>3
<1> QED
  BY Zenon, <1>3, <1>4, <1>5

(* Packets of the same window with different numbers are different.        *)
LEMMA SentDistinct ==
    ASSUME NEW s, NEW i \in Nat, NEW j \in Nat, ctx[s] \in Nat, Sent(s, i) = Sent(s, j)
    PROVE  i = j
BY DEF Sent, Pkt

\* The answers the server gives in one slot are pairwise different packets.
LEMMA ReplyDistinct ==
    ASSUME NEW s, NEW i \in Nat, NEW j \in Nat, ctx[s] \in Nat, Reply(s, i) = Reply(s, j)
    PROVE  i = j
BY DEF Reply, Pkt

(* A step that leaves everything about slot s alone keeps its invariant.   *)
LEMMA SlotFrame ==
    ASSUME NEW s \in Slots, SlotInv(s),
           ctx'[s] = ctx[s], cnum'[s] = cnum[s], num_tx'[s] = num_tx[s],
           num_rx'[s] = num_rx[s], snum'[s] = snum[s], snum_rx'[s] = snum_rx[s],
           sreq'[s] = sreq[s], stx'[s] = stx[s],
           OfSlot(c2s', s) = OfSlot(c2s, s), OfSlot(s2c', s) = OfSlot(s2c, s),
           s \in Range(stallq') <=> s \in Range(stallq)
    PROVE  SlotInv(s)'
<1>1. Rcvd(s)' = Rcvd(s)
  BY Zenon DEF Rcvd
<1>2. Replied(s)' = Replied(s)
  BY Zenon, <1>1 DEF Replied
<1>3. \A i : Sent(s, i)' = Sent(s, i)
  BY Zenon DEF Sent, Pkt
<1>4. \A i : Reply(s, i)' = Reply(s, i)
  BY Zenon DEF Reply, Pkt
<1>5. OfSlot(c2s, s)' = OfSlot(c2s, s) /\ OfSlot(s2c, s)' = OfSlot(s2c, s)
  BY Zenon DEF OfSlot
<1>6. ASSUME NEW lo, Window(s, lo) PROVE Window(s, lo)'
  BY Zenon, <1>1, <1>2, <1>3, <1>4, <1>5, <1>6 DEF Window
<1>7. Phase(s) => Phase(s)'
  BY Zenon, <1>1 DEF Phase, Answered
<1>8. CASE ctx[s] = 0
  BY Zenon, <1>5, <1>8 DEF SlotInv, Idle
<1>9. CASE ctx[s] # 0
  BY Zenon, <1>6, <1>7, <1>9 DEF SlotInv, Busy
<1> QED
  BY Zenon, <1>8, <1>9

\* The types of one slot's counters.
LEMMA SlotTypes ==
    ASSUME TypeOK, NEW s \in Slots
    PROVE  /\ ctx[s] \in Nat /\ cnum[s] \in Nat /\ num_tx[s] \in Nat /\ num_rx[s] \in Nat
           /\ snum[s] \in Nat /\ snum_rx[s] \in Nat /\ Rcvd(s) \in Nat /\ Replied(s) \in Int
           /\ stx[s].num \in Nat /\ stx[s].total \in Nat
<1>1. /\ ctx[s] \in Nat /\ cnum[s] \in Nat /\ num_tx[s] \in Nat /\ num_rx[s] \in Nat
      /\ snum[s] \in Nat /\ snum_rx[s] \in Nat
      /\ stx[s].num \in Nat /\ stx[s].total \in Nat
  BY Zenon DEF TypeOK, ClientTypeOK, ServerTypeOK
<1>2. Rcvd(s) \in Nat
  BY Zenon, <1>1 DEF Rcvd
<1> QED
  BY <1>1, <1>2 DEF Replied

(* With an in-order network the packet that is delivered is the first one  *)
(* of the slot's window.                                                   *)
LEMMA FirstSent ==
    ASSUME TypeOK, InOrder, NEW p \in Deliverable(c2s), NEW lo, Window(p.slot, lo)
    PROVE  Rcvd(p.slot) < num_tx[p.slot] /\ p = Sent(p.slot, Rcvd(p.slot))
<1>0. PICK s : s = p.slot
  BY Zenon
<1>1. p \in c2s /\ s \in Slots
  BY Zenon, <1>0, DeliverableSubset DEF TypeOK, NetTypeOK, Packet
<1>2. ctx[s] \in Nat /\ Rcvd(s) \in Nat /\ num_tx[s] \in Nat
  BY Zenon, <1>1, SlotTypes
<1>3. OfSlot(c2s, s) = {Sent(s, i) : i \in Rcvd(s) .. (num_tx[s] - 1)}
  BY Zenon, <1>0 DEF Window
<1>4. PICK j \in Rcvd(s) .. (num_tx[s] - 1) : p = Sent(s, j)
  BY Zenon, <1>0, <1>1, <1>3 DEF OfSlot
<1>5. CASE j = Rcvd(s)
  BY <1>0, <1>2, <1>4, <1>5
<1>6. CASE j # Rcvd(s)
  <2>1. Sent(s, Rcvd(s)) \in c2s /\ Sent(s, Rcvd(s)).slot = s
    BY <1>2, <1>3, <1>4 DEF OfSlot
  <2>2. Before(Sent(s, Rcvd(s)), p)
    BY <1>2, <1>4, <1>6, SMTT(30) DEF Before, Sent, Pkt
  <2> QED
    BY Zenon, <1>0, <2>1, <2>2 DEF Deliverable
<1> QED
  BY Zenon, <1>5, <1>6

\* On an in-order network the next packet the client gets is the oldest outstanding answer.
LEMMA FirstReply ==
    ASSUME TypeOK, InOrder, NEW p \in Deliverable(s2c), NEW lo \in Nat, Window(p.slot, lo)
    PROVE  lo < Replied(p.slot) /\ p = Reply(p.slot, lo)
<1>0. PICK s : s = p.slot
  BY Zenon
<1>1. p \in s2c /\ s \in Slots
  BY Zenon, <1>0, DeliverableSubset DEF TypeOK, NetTypeOK, Packet
<1>2. ctx[s] \in Nat /\ Replied(s) \in Int
  BY Zenon, <1>1, SlotTypes
<1>3. OfSlot(s2c, s) = {Reply(s, i) : i \in lo .. (Replied(s) - 1)}
  BY Zenon, <1>0 DEF Window
<1>4. PICK j \in lo .. (Replied(s) - 1) : p = Reply(s, j)
  BY Zenon, <1>0, <1>1, <1>3 DEF OfSlot
<1>5. CASE j = lo
  BY <1>0, <1>2, <1>4, <1>5
<1>6. CASE j # lo
  <2>1. Reply(s, lo) \in s2c /\ Reply(s, lo).slot = s
    BY <1>2, <1>3, <1>4 DEF OfSlot
  <2>2. Before(Reply(s, lo), p)
    BY <1>2, <1>4, <1>6 DEF Before, Reply, Pkt
  <2> QED
    BY Zenon, <1>0, <2>1, <2>2 DEF Deliverable
<1> QED
  BY Zenon, <1>5, <1>6

\* Receiving the oldest answer leaves the answers after it.
LEMMA DropReply ==
    ASSUME NEW s, ctx[s] \in Nat, NEW a \in Nat, NEW b \in Int, NEW net,
           OfSlot(net, s) = {Reply(s, i) : i \in a .. b}
    PROVE  OfSlot(net \ {Reply(s, a)}, s) = {Reply(s, i) : i \in (a + 1) .. b}
<1>1. OfSlot(net \ {Reply(s, a)}, s) = {Reply(s, i) : i \in a .. b} \ {Reply(s, a)}
  BY Zenon DEF OfSlot
<1>2. ASSUME NEW i \in (a + 1) .. b PROVE Reply(s, i) # Reply(s, a)
  BY ReplyDistinct
<1> QED
  BY <1>1, <1>2

(* No request packet tx, tx + 1, ... of request n of slot s is in flight.  *)
NotSent(s, n, tx) == \A q \in OfSlot(c2s, s) : q.num = n => q.pkt < tx

(* A burst of packets that are not in the network yet adds all of them.    *)
LEMMA ReqBurstAdds ==
    ASSUME TypeOK, NEW s \in Slots, NEW n \in Nat, NEW total \in Nat, NEW tx \in Nat,
           NEW k \in Nat, NotSent(s, n, tx)
    PROVE  /\ Cardinality(c2s) \in Nat
           /\ Cardinality(c2s \cup ReqBurst(s, n, total, tx, k)) = Cardinality(c2s) + k
<1>1. c2s \cap ReqBurst(s, n, total, tx, k) = {}
  BY DEF NotSent, OfSlot, ReqBurst, Pkt
<1>2. IsFiniteSet(c2s) /\ Cardinality(c2s) \in Nat
  BY Zenon, FS_CardinalityType DEF TypeOK, NetTypeOK
<1>3. /\ IsFiniteSet(ReqBurst(s, n, total, tx, k))
      /\ Cardinality(ReqBurst(s, n, total, tx, k)) = k
  BY ReqBurstSize
<1>4. Cardinality(c2s \cup ReqBurst(s, n, total, tx, k))
        = Cardinality(c2s) + k - Cardinality({})
  BY Zenon, <1>1, <1>2, <1>3, FS_Union
<1> QED
  BY <1>2, <1>4, FS_EmptySet

(* kick_req_st and kick_rfr_st turn credits into packets one for one.      *)
LEMMA KickReqEffect ==
    ASSUME TypeOK, NEW s \in Slots, NEW n \in Nat, NEW total \in Nat, NEW tx \in Nat,
           tx <= total, NEW cr \in Nat, kick_req_st(s, n, total, tx, cr, c2s),
           NotSent(s, n, tx)
    PROVE  \E k \in Nat :
             /\ k <= total - tx /\ (tx < total /\ cr > 0 => k > 0)
             /\ num_tx' = [num_tx EXCEPT ![s] = tx + k]
             /\ c2s' = c2s \cup ReqBurst(s, n, total, tx, k)
             /\ credits' + Cardinality(c2s') = cr + Cardinality(c2s)
<1> DEFINE k == Lesser(cr, total - tx)
<1>1. k \in Nat /\ k <= cr /\ k <= total - tx /\ (tx < total /\ cr > 0 => k > 0)
  BY DEF Lesser
<1>2. /\ credits' = cr - k
      /\ num_tx' = [num_tx EXCEPT ![s] = tx + k]
      /\ c2s' = c2s \cup ReqBurst(s, n, total, tx, k)
  BY Zenon DEF kick_req_st
<1> HIDE DEF k
<1>4. Cardinality(c2s') = Cardinality(c2s) + k /\ Cardinality(c2s) \in Nat
  BY <1>1, <1>2, ReqBurstAdds
<1>5. credits' + Cardinality(c2s') = cr + Cardinality(c2s)
  BY <1>1, <1>2, <1>4
<1> QED
  BY Zenon, <1>1, <1>2, <1>5, Zenon

\* kick_rfr_st sends k new RFRs for some k, for k credits; at least one if it may.
LEMMA KickRfrEffect ==
    ASSUME TypeOK, NEW s \in Slots, NEW n \in Nat, NEW wire_pkts \in Int, NEW cr \in Nat,
           kick_rfr_st(s, n, wire_pkts, cr), num_tx[s] <= wire_pkts,
           \A q \in OfSlot(c2s, s) : q.num = n /\ q.type = "rfr" => q.pkt < NextRfr(s)
    PROVE  \E k \in Nat :
             /\ k <= wire_pkts - num_tx[s] /\ (num_tx[s] < wire_pkts /\ cr > 0 => k > 0)
             /\ num_tx' = [num_tx EXCEPT ![s] = num_tx[s] + k]
             /\ c2s' = c2s \cup RfrBurst(s, n, NextRfr(s), k)
             /\ credits' + Cardinality(c2s') = cr + Cardinality(c2s)
<1> DEFINE k == Lesser(cr, wire_pkts - num_tx[s])
<1>0. num_tx[s] \in Nat /\ ctx[s] \in Nat /\ NextRfr(s) \in Int
  BY SlotTypes DEF NextRfr
<1>1. k \in Nat /\ k <= cr /\ k <= wire_pkts - num_tx[s]
      /\ (num_tx[s] < wire_pkts /\ cr > 0 => k > 0)
  BY <1>0 DEF Lesser
<1>2. /\ credits' = cr - k
      /\ num_tx' = [num_tx EXCEPT ![s] = num_tx[s] + k]
      /\ c2s' = c2s \cup RfrBurst(s, n, NextRfr(s), k)
  BY Zenon DEF kick_rfr_st
<1> HIDE DEF k
<1>3. c2s \cap RfrBurst(s, n, NextRfr(s), k) = {}
  BY <1>0, <1>1 DEF OfSlot, RfrBurst, Pkt
<1>4. Cardinality(c2s') = Cardinality(c2s) + k /\ Cardinality(c2s) \in Nat
  <2>1. IsFiniteSet(c2s) /\ Cardinality(c2s) \in Nat
    BY Zenon, FS_CardinalityType DEF TypeOK, NetTypeOK
  <2>2. /\ IsFiniteSet(RfrBurst(s, n, NextRfr(s), k))
        /\ Cardinality(RfrBurst(s, n, NextRfr(s), k)) = k
    BY Zenon, <1>0, <1>1, RfrBurstSize
  <2>3. Cardinality(c2s') = Cardinality(c2s) + k - Cardinality({})
    BY <1>2, <1>3, <2>1, <2>2, FS_Union
  <2> QED
    BY <1>1, <2>1, <2>3, FS_EmptySet
<1>5. credits' + Cardinality(c2s') = cr + Cardinality(c2s)
  BY <1>1, <1>2, <1>4
<1> QED
  BY Zenon, <1>1, <1>2, <1>5, Zenon

\* Which slots wait for enqueue_response depends on req_type_ only.
LEMMA PendingFrame ==
    ASSUME sreq' = sreq PROVE Pending' = Pending
BY Zenon DEF Pending

\* The quantities that CreditConservation adds up are natural numbers.
LEMMA CreditTypes ==
    ASSUME TypeOK
    PROVE  /\ Cardinality(c2s) \in Nat /\ Cardinality(s2c) \in Nat
           /\ IsFiniteSet(Pending) /\ Cardinality(Pending) \in Nat
<1>1. IsFiniteSet(Slots)
  BY FS_Interval, SizeAssumption DEF Slots
<1>2. IsFiniteSet(Pending)
  BY Zenon, <1>1, FS_Subset DEF Pending
<1> QED
  BY Zenon, <1>2, FS_CardinalityType DEF TypeOK, NetTypeOK

(* A step that changes none of the variables that the invariant is about.  *)
LEMMA InvFrame ==
    ASSUME IInv, TypeOK',
           UNCHANGED <<credits, free, ctx, cnum, num_tx, num_rx, active, stallq,
                       snum, snum_rx, sreq, stx, c2s, s2c>>
    PROVE  IInv'
<1>1. SlotDiscipline'
  BY Zenon DEF IInv, SlotDiscipline
<1>2. \A s \in Slots : SlotInv(s)'
  BY Zenon, SlotFrame DEF IInv
<1>3. CreditConservation'
  BY Zenon, PendingFrame DEF IInv, CreditConservation
<1> QED
  BY Zenon, <1>1, <1>2, <1>3 DEF IInv

\* The invariant survives the death of a process.
LEMMA InvKill ==
    ASSUME IInv, NEW proc \in {"client", "server"}, Kill(proc) PROVE IInv'
<1>1. TypeOK'
  BY Zenon, TypeKill DEF IInv
<1> QED
  BY Zenon, <1>1, InvFrame DEF Kill, client, cslot, crpc, csess, server, sslot

(* The packets that a burst adds are the next ones of the slot's window.   *)
LEMMA GrowReq ==
    ASSUME NEW s, ctx[s] \in Nat, num_tx[s] \in Nat, NEW a \in Nat, NEW k \in Nat,
           a <= num_tx[s], num_tx[s] + k <= ctx[s],
           OfSlot(c2s, s) = {Sent(s, i) : i \in a .. (num_tx[s] - 1)}
    PROVE  /\ \A q \in OfSlot(c2s, s) : q.pkt < num_tx[s]
           /\ OfSlot(c2s \cup ReqBurst(s, cnum[s], ctx[s], num_tx[s], k), s)
                = {Sent(s, i) : i \in a .. (num_tx[s] + k - 1)}
<1>1. ASSUME NEW i \in a .. (num_tx[s] - 1) PROVE Sent(s, i).pkt < num_tx[s]
  BY DEF Sent, Pkt
<1>2. ReqBurst(s, cnum[s], ctx[s], num_tx[s], k)
        = {Sent(s, i) : i \in num_tx[s] .. (num_tx[s] + k - 1)}
  <2>1. ASSUME NEW i \in num_tx[s] .. (num_tx[s] + k - 1)
        PROVE  Pkt("req", s, cnum[s], i, ctx[s]) = Sent(s, i)
    BY DEF Sent
  <2> QED
    BY Zenon, <2>1 DEF ReqBurst
<1>3. \A q \in ReqBurst(s, cnum[s], ctx[s], num_tx[s], k) : q.slot = s
  BY DEF ReqBurst, Pkt
<1>4. OfSlot(c2s \cup ReqBurst(s, cnum[s], ctx[s], num_tx[s], k), s)
        = OfSlot(c2s, s) \cup ReqBurst(s, cnum[s], ctx[s], num_tx[s], k)
  BY Zenon, <1>3 DEF OfSlot
<1> QED
  BY <1>1, <1>2, <1>4

\* RFRs sent by kick_rfr_st extend the window of packets sent.
LEMMA GrowRfr ==
    ASSUME NEW s, ctx[s] \in Nat, num_tx[s] \in Nat, NEW a \in Nat, NEW k \in Nat,
           a <= num_tx[s], ctx[s] <= num_tx[s],
           OfSlot(c2s, s) = {Sent(s, i) : i \in a .. (num_tx[s] - 1)}
    PROVE  /\ \A q \in OfSlot(c2s, s) : q.type = "rfr" => q.pkt < NextRfr(s)
           /\ OfSlot(c2s \cup RfrBurst(s, cnum[s], NextRfr(s), k), s)
                = {Sent(s, i) : i \in a .. (num_tx[s] + k - 1)}
<1>1. ASSUME NEW i \in a .. (num_tx[s] - 1), Sent(s, i).type = "rfr"
      PROVE  Sent(s, i).pkt < NextRfr(s)
  BY <1>1 DEF Sent, Pkt, NextRfr
<1>2. RfrBurst(s, cnum[s], NextRfr(s), k)
        = {Sent(s, i) : i \in num_tx[s] .. (num_tx[s] + k - 1)}
  <2>1. ASSUME NEW i \in num_tx[s] .. (num_tx[s] + k - 1)
        PROVE  /\ i - ctx[s] + 1 \in NextRfr(s) .. (NextRfr(s) + k - 1)
               /\ Pkt("rfr", s, cnum[s], i - ctx[s] + 1, 0) = Sent(s, i)
    BY SMTT(30) DEF Sent, NextRfr
  <2>2. ASSUME NEW j \in NextRfr(s) .. (NextRfr(s) + k - 1)
        PROVE  /\ j + ctx[s] - 1 \in num_tx[s] .. (num_tx[s] + k - 1)
               /\ Pkt("rfr", s, cnum[s], j, 0) = Sent(s, j + ctx[s] - 1)
    BY SMTT(30) DEF Sent, NextRfr
  <2>3. ASSUME NEW q \in RfrBurst(s, cnum[s], NextRfr(s), k)
        PROVE  q \in {Sent(s, i) : i \in num_tx[s] .. (num_tx[s] + k - 1)}
    BY Zenon, <2>2 DEF RfrBurst
  <2>4. ASSUME NEW i \in num_tx[s] .. (num_tx[s] + k - 1)
        PROVE  Sent(s, i) \in RfrBurst(s, cnum[s], NextRfr(s), k)
    BY Zenon, <2>1 DEF RfrBurst
  <2> QED
    BY Zenon, <2>3, <2>4
<1>3. \A q \in RfrBurst(s, cnum[s], NextRfr(s), k) : q.slot = s
  BY SMTT(30) DEF RfrBurst, Pkt
<1>4. OfSlot(c2s \cup RfrBurst(s, cnum[s], NextRfr(s), k), s)
        = OfSlot(c2s, s) \cup RfrBurst(s, cnum[s], NextRfr(s), k)
  BY Zenon, <1>3 DEF OfSlot
<1> QED
  BY <1>1, <1>2, <1>4

(* The two kicks in terms of the slot's window.                            *)
LEMMA KickReqSlot ==
    ASSUME TypeOK, NEW s \in Slots, NEW cr \in Nat,
           kick_req_st(s, cnum[s], ctx[s], num_tx[s], cr, c2s),
           num_tx[s] <= ctx[s], Rcvd(s) <= num_tx[s],
           OfSlot(c2s, s) = {Sent(s, i) : i \in Rcvd(s) .. (num_tx[s] - 1)}
    PROVE  \E k \in Nat :
             /\ k <= ctx[s] - num_tx[s] /\ (num_tx[s] < ctx[s] /\ cr > 0 => k > 0)
             /\ num_tx' = [num_tx EXCEPT ![s] = num_tx[s] + k]
             /\ OfSlot(c2s', s) = {Sent(s, i) : i \in Rcvd(s) .. (num_tx[s] + k - 1)}
             /\ \A t \in Slots \ {s} : OfSlot(c2s', t) = OfSlot(c2s, t)
             /\ credits' + Cardinality(c2s') = cr + Cardinality(c2s)
<1>1. PICK n, total, tx, a : n = cnum[s] /\ total = ctx[s] /\ tx = num_tx[s] /\ a = Rcvd(s)
  BY Zenon
<1>2. n \in Nat /\ total \in Nat /\ tx \in Nat /\ a \in Nat
  BY Zenon, <1>1, SlotTypes
<1>3. NotSent(s, n, tx)
  <2>1. PICK z : z = 0
    BY Zenon
  <2>2. z \in Nat /\ num_tx[s] + z <= ctx[s]
    BY <1>1, <1>2, <2>1
  <2> QED
    BY Zenon, <1>1, <1>2, <2>2, GrowReq DEF NotSent
<1>k. PICK k : k = Lesser(cr, total - tx)
  BY Zenon
<1>4. /\ k \in Nat /\ k <= cr /\ k <= total - tx /\ (tx < total /\ cr > 0 => k > 0)
      /\ credits' = cr - k
      /\ num_tx' = [num_tx EXCEPT ![s] = tx + k]
      /\ c2s' = c2s \cup ReqBurst(s, n, total, tx, k)
      /\ credits' + Cardinality(c2s') = cr + Cardinality(c2s)
  <2>1. k \in Nat /\ k <= cr /\ k <= total - tx /\ (tx < total /\ cr > 0 => k > 0)
    BY <1>1, <1>2, <1>k, SMTT(30) DEF Lesser
  <2>2. /\ credits' = cr - k
        /\ num_tx' = [num_tx EXCEPT ![s] = tx + k]
        /\ c2s' = c2s \cup ReqBurst(s, n, total, tx, k)
    BY Zenon, <1>1, <1>k DEF kick_req_st
  <2>3. Cardinality(c2s') = Cardinality(c2s) + k /\ Cardinality(c2s) \in Nat
    <3>1. /\ Cardinality(c2s) \in Nat
          /\ Cardinality(c2s \cup ReqBurst(s, n, total, tx, k)) = Cardinality(c2s) + k
      BY <1>2, <1>3, <2>1, ReqBurstAdds, SMTT(30)
    <3> QED
      BY Zenon, <2>2, <3>1
  <2> QED
    BY <2>1, <2>2, <2>3
<1>5. OfSlot(c2s', s) = {Sent(s, i) : i \in Rcvd(s) .. (num_tx[s] + k - 1)}
  <2>1. num_tx[s] + k <= ctx[s] /\ k \in Nat
    <3>1. k \in Nat /\ k <= total - tx
      BY Zenon, <1>4
    <3>2. total = ctx[s] /\ tx = num_tx[s] /\ ctx[s] \in Nat /\ num_tx[s] \in Nat
      BY Zenon, <1>1, <1>2
    <3> QED
      BY <3>1, <3>2
  <2>2. OfSlot(c2s \cup ReqBurst(s, cnum[s], ctx[s], num_tx[s], k), s)
          = {Sent(s, i) : i \in Rcvd(s) .. (num_tx[s] + k - 1)}
    BY Zenon, <1>1, <1>2, <2>1, GrowReq
  <2> QED
    BY Zenon, <1>1, <1>4, <2>2
<1>6. ASSUME NEW t \in Slots \ {s} PROVE OfSlot(c2s', t) = OfSlot(c2s, t)
  <2>1. OfSlot(c2s \cup ReqBurst(s, n, total, tx, k), t) = OfSlot(c2s, t)
    BY SMTT(30) DEF OfSlot, ReqBurst, Pkt
  <2> QED
    BY Zenon, <1>4, <2>1
<1> QED
  BY Zenon, <1>1, <1>4, <1>5, <1>6, Zenon

\* kick_rfr_st extends the window of its slot and leaves the other slots alone.
LEMMA KickRfrSlot ==
    ASSUME TypeOK, NEW s \in Slots, NEW wire_pkts \in Int, NEW cr \in Nat,
           kick_rfr_st(s, cnum[s], wire_pkts, cr),
           ctx[s] <= num_tx[s], num_tx[s] <= wire_pkts, Rcvd(s) <= num_tx[s],
           OfSlot(c2s, s) = {Sent(s, i) : i \in Rcvd(s) .. (num_tx[s] - 1)}
    PROVE  \E k \in Nat :
             /\ k <= wire_pkts - num_tx[s] /\ (num_tx[s] < wire_pkts /\ cr > 0 => k > 0)
             /\ num_tx' = [num_tx EXCEPT ![s] = num_tx[s] + k]
             /\ OfSlot(c2s', s) = {Sent(s, i) : i \in Rcvd(s) .. (num_tx[s] + k - 1)}
             /\ \A t \in Slots \ {s} : OfSlot(c2s', t) = OfSlot(c2s, t)
             /\ credits' + Cardinality(c2s') = cr + Cardinality(c2s)
<1>1. PICK n, a : n = cnum[s] /\ a = Rcvd(s)
  BY Zenon
<1>2. n \in Nat /\ a \in Nat /\ ctx[s] \in Nat /\ num_tx[s] \in Nat
  BY Zenon, <1>1, SlotTypes
<1>3. \A q \in OfSlot(c2s, s) : q.num = n /\ q.type = "rfr" => q.pkt < NextRfr(s)
  <2>1. PICK z \in Nat : z = 0
    BY Zenon
  <2> QED
    BY Zenon, <1>1, <1>2, <2>1, GrowRfr
<1>4. PICK k \in Nat :
        /\ k <= wire_pkts - num_tx[s] /\ (num_tx[s] < wire_pkts /\ cr > 0 => k > 0)
        /\ num_tx' = [num_tx EXCEPT ![s] = num_tx[s] + k]
        /\ c2s' = c2s \cup RfrBurst(s, n, NextRfr(s), k)
        /\ credits' + Cardinality(c2s') = cr + Cardinality(c2s)
  <2>1. kick_rfr_st(s, n, wire_pkts, cr)
    BY Zenon, <1>1
  <2> QED
    BY Zenon, <1>2, <1>3, <2>1, KickRfrEffect
<1>5. OfSlot(c2s', s) = {Sent(s, i) : i \in Rcvd(s) .. (num_tx[s] + k - 1)}
  <2>1. OfSlot(c2s \cup RfrBurst(s, cnum[s], NextRfr(s), k), s)
          = {Sent(s, i) : i \in Rcvd(s) .. (num_tx[s] + k - 1)}
    BY Zenon, <1>1, <1>2, GrowRfr
  <2> QED
    BY Zenon, <1>1, <1>4, <2>1
<1>6. ASSUME NEW t \in Slots \ {s} PROVE OfSlot(c2s', t) = OfSlot(c2s, t)
  <2>1. OfSlot(c2s \cup RfrBurst(s, n, NextRfr(s), k), t) = OfSlot(c2s, t)
    BY DEF OfSlot, RfrBurst, Pkt
  <2> QED
    BY Zenon, <1>4, <2>1
<1> QED
  BY Zenon, <1>4, <1>5, <1>6, Zenon

(* What a client that processes a reply knows: the reply is the first one  *)
(* of its slot's window, and the slot does not wait for credits.           *)
LEMMA ReplyFacts ==
    ASSUME IInv, InOrder, NEW p \in Deliverable(s2c), NEW s, s = p.slot
    PROVE  /\ s \in Slots /\ p \in s2c /\ ctx[s] # 0 /\ Busy(s)
           /\ s \notin Range(stallq)
           /\ \E lo \in Nat : /\ lo < Replied(s) /\ lo < num_tx[s] /\ Window(s, lo)
                              /\ p = Reply(s, lo)
<1>1. TypeOK /\ SlotDiscipline
  BY Zenon DEF IInv
<1>2. s \in Slots /\ p \in s2c
  BY Zenon, <1>1, DeliverableSubset DEF TypeOK, NetTypeOK, Packet
<1>3. ctx[s] # 0 /\ Busy(s)
  <2>1. OfSlot(s2c, s) # {}
    BY Zenon, <1>2 DEF OfSlot
  <2> QED
    BY Zenon, <1>2, <2>1 DEF IInv, SlotInv, Idle
<1>4. PICK lo \in 0 .. num_tx[s] : Window(s, lo)
  BY Zenon, <1>3 DEF Busy
<1>5. num_tx[s] \in Nat /\ Rcvd(s) \in Nat /\ Replied(s) \in Int /\ lo \in Nat
  BY <1>1, <1>2, <1>4, SlotTypes
<1>6. lo < Replied(s) /\ p = Reply(s, lo)
  BY Zenon, <1>1, <1>4, <1>5, FirstReply
<1>7. lo < num_tx[s]
  BY <1>4, <1>5, <1>6, SMTT(30) DEF Window, Replied
<1>8. s \notin Range(stallq)
  BY <1>1, <1>5, <1>7 DEF SlotDiscipline
<1> QED
  BY Zenon, <1>2, <1>3, <1>4, <1>5, <1>6, <1>7, <1>8

(* Receiving a reply turns a packet back into a credit.                    *)
LEMMA CreditReply ==
    ASSUME IInv, NEW p \in s2c, s2c' = s2c \ {p}, sreq' = sreq, TypeOK',
           credits' + Cardinality(c2s') = credits + 1 + Cardinality(c2s)
    PROVE  CreditConservation'
<1>1. Pending' = Pending
  BY Zenon, PendingFrame
<1>2. Cardinality(s2c') = Cardinality(s2c) - 1
  BY Zenon, FS_RemoveElement DEF IInv, TypeOK, NetTypeOK
<1>3. /\ Cardinality(c2s) \in Nat /\ Cardinality(s2c) \in Nat /\ Cardinality(Pending) \in Nat
      /\ Cardinality(c2s') \in Nat /\ credits \in Nat /\ credits' \in Nat
  <2>1. /\ Cardinality(c2s) \in Nat /\ Cardinality(s2c) \in Nat
        /\ Cardinality(Pending) \in Nat /\ credits \in Nat
    BY Zenon, CreditTypes DEF IInv, TypeOK, ClientTypeOK
  <2>2. Cardinality(c2s') \in Nat /\ credits' \in Nat
    BY Zenon, FS_CardinalityType DEF TypeOK, NetTypeOK, ClientTypeOK
  <2> QED
    BY Zenon, <2>1, <2>2
<1>4. CreditConservation
  BY Zenon DEF IInv
<1> QED
  BY <1>1, <1>2, <1>3, <1>4 DEF CreditConservation

(* A reply numbered ctx - 1 or more is a packet of the response: the server *)
(* has answered the request.                                               *)
LEMMA AnsweredByReply ==
    ASSUME NEW s, NEW lo \in Nat, ctx[s] \in Nat, Rcvd(s) \in Nat, Replied(s) \in Int,
           lo < Replied(s), lo >= ctx[s] - 1, Phase(s)
    PROVE  Answered(s)
<1>1. CASE sreq[s] = "invalid"
  <2>1. Replied(s) = Rcvd(s)
    BY Zenon, <1>1 DEF Replied
  <2>2. Rcvd(s) >= ctx[s]
    BY <2>1
  <2> QED
    BY Zenon, <1>1, <2>2 DEF Answered
<1>2. CASE sreq[s] # "invalid"
  <2>1. Replied(s) = Rcvd(s) - 1 /\ Rcvd(s) = ctx[s]
    BY Zenon, <1>2 DEF Replied, Phase
  <2> QED
    BY <2>1
<1> QED
  BY Zenon, <1>1, <1>2

(* The last part of the invariant of a busy slot, from its pieces.         *)
LEMMA BusyAgain ==
    ASSUME NEW s, NEW lo, ctx'[s] # 0, snum'[s] = cnum'[s], snum_rx'[s] > 0,
           Phase(s)', lo \in 0 .. num_tx'[s], Window(s, lo)'
    PROVE  SlotInv(s)'
<1>1. Busy(s)'
  BY Zenon DEF Busy
<1> QED
  BY Zenon, <1>1 DEF SlotInv

(* A packet of another slot does not change a slot's part of the network.  *)
LEMMA OtherPacket ==
    ASSUME NEW net, NEW q, NEW t, q.slot # t PROVE OfSlot(net \cup {q}, t) = OfSlot(net, t)
BY Zenon DEF OfSlot

-------------------------------------------------------------------------------
\* The invariant holds when the session has just been connected.
LEMMA InvInit == Init => IInv
<1> SUFFICES ASSUME Init PROVE IInv
  BY Zenon
<1>1. TypeOK
  BY Zenon, TypeInit
<1>2. SlotDiscipline
  <2>1. IsInjective(free) /\ Range(free) = Slots
    <3>1. DOMAIN free = 1 .. kSessionReqWindow
      BY Zenon DEF Init
    <3>2. IsInjective(free)
      BY <3>1, SizeAssumption DEF Init, IsInjective
    <3>3. ASSUME NEW t \in Slots PROVE t \in Range(free)
      <4>1. kSessionReqWindow - t \in 1 .. kSessionReqWindow
            /\ free[kSessionReqWindow - t] = t
        BY SizeAssumption DEF Slots, Init
      <4> QED
        BY Zenon, <3>1, <4>1 DEF Range
    <3>4. Range(free) \subseteq Slots
      BY <3>1, SizeAssumption DEF Init, Range, Slots
    <3> QED
      BY Zenon, <3>2, <3>3, <3>4
  <2>2. IsInjective(stallq) /\ Range(stallq) = {}
    BY DEF Init, IsInjective, Range
  <2> QED
    BY Zenon, <2>1, <2>2 DEF Init, SlotDiscipline
<1>3. \A s \in Slots : SlotInv(s)
  BY Zenon DEF Init, SlotInv, Idle, OfSlot
<1>4. CreditConservation
  <2>1. Pending = {}
    BY Zenon DEF Init, Pending
  <2> QED
    BY <2>1, FS_EmptySet, SizeAssumption DEF Init, CreditConservation
<1> QED
  BY Zenon, <1>1, <1>2, <1>3, <1>4 DEF IInv

(* In SlotDiscipline, the slots that wait for credits hold no packets.     *)
LEMMA InvEnqueueRequest ==
    ASSUME IInv, NEW total \in 1 .. MaxReqPkts, EnqueueRequest(total) PROVE IInv'
<1>0. PICK s : s = free[Len(free)]
  BY Zenon
<1>1. TypeOK /\ TypeOK' /\ SlotDiscipline /\ CreditConservation
  BY Zenon, TypeEnqueueRequest DEF IInv
<1>2. /\ s \in Slots /\ s \in Range(free) /\ ctx[s] = 0
      /\ IsInjective(free') /\ Range(free') = Range(free) \ {s}
  <2>1. free \in Seq(Slots) /\ free # << >> /\ free' = SubSeq(free, 1, Len(free) - 1)
    BY Zenon, <1>1 DEF TypeOK, ClientTypeOK, EnqueueRequest
  <2>2. /\ s \in Range(free) /\ IsInjective(free') /\ Range(free') = Range(free) \ {s}
    BY Zenon, <1>0, <1>1, <2>1, FrontRange DEF SlotDiscipline
  <2> QED
    BY Zenon, <1>1, <2>2 DEF SlotDiscipline
<1>3. Idle(s)
  BY Zenon, <1>2 DEF IInv, SlotInv
<1>4. /\ ctx' = [ctx EXCEPT ![s] = total]
      /\ cnum' = [cnum EXCEPT ![s] = @ + 1]
      /\ num_rx' = [num_rx EXCEPT ![s] = 0]
      /\ active' = active \cup {s}
      /\ UNCHANGED <<snum, snum_rx, sreq, stx, s2c>>
  BY Zenon, <1>0 DEF EnqueueRequest, server, sslot
<1>5. /\ ctx \in [Slots -> Nat] /\ cnum \in [Slots -> Nat] /\ num_tx \in [Slots -> Nat]
      /\ num_rx \in [Slots -> Nat] /\ total \in Nat /\ total > 0 /\ credits \in Nat
      /\ stallq \in Seq(Slots) /\ cnum[s] \in Nat /\ snum[s] \in Nat
  <2>1. cnum[s] \in Nat /\ snum[s] \in Nat
    BY Zenon, <1>1, <1>2, SlotTypes
  <2>2. total \in Nat /\ total > 0
    BY SizeAssumption
  <2> QED
    BY Zenon, <1>1, <2>1, <2>2 DEF TypeOK, ClientTypeOK
<1>6. PICK k \in Nat :
        /\ k <= total
        /\ num_tx' = [num_tx EXCEPT ![s] = k]
        /\ c2s' = c2s \cup ReqBurst(s, cnum[s] + 1, total, 0, k)
        /\ credits' + Cardinality(c2s') = credits + Cardinality(c2s)
        /\ \/ k > 0 /\ stallq' = stallq
           \/ k = 0 /\ stallq' = Append(stallq, s)
  <2>1. CASE credits > 0 /\ kick_req_st(s, cnum[s] + 1, total, 0, credits, c2s)
             /\ stallq' = stallq
    <3>1. \A q \in OfSlot(c2s, s) : q.num = cnum[s] + 1 => q.pkt < 0
      BY Zenon, <1>3 DEF Idle
    <3>2. PICK k \in Nat :
             /\ k <= total - 0 /\ (0 < total /\ credits > 0 => k > 0)
             /\ num_tx' = [num_tx EXCEPT ![s] = 0 + k]
             /\ c2s' = c2s \cup ReqBurst(s, cnum[s] + 1, total, 0, k)
             /\ credits' + Cardinality(c2s') = credits + Cardinality(c2s)
      <4>1. PICK n, z : n = cnum[s] + 1 /\ z = 0
        BY Zenon
      <4>2. /\ TypeOK /\ s \in Slots /\ n \in Nat /\ total \in Nat /\ z \in Nat
            /\ z <= total /\ credits \in Nat
            /\ NotSent(s, n, z)
        BY <1>1, <1>2, <1>5, <3>1, <4>1 DEF NotSent
      <4>3. kick_req_st(s, n, total, z, credits, c2s)
        BY Zenon, <2>1, <4>1, Zenon
      <4>4. \E k \in Nat :
             /\ k <= total - z /\ (z < total /\ credits > 0 => k > 0)
             /\ num_tx' = [num_tx EXCEPT ![s] = z + k]
             /\ c2s' = c2s \cup ReqBurst(s, n, total, z, k)
             /\ credits' + Cardinality(c2s') = credits + Cardinality(c2s)
        BY Zenon, <4>2, <4>3, KickReqEffect
      <4> QED
        BY Zenon, <4>1, <4>4, Zenon
    <3>3. k <= total /\ k > 0 /\ 0 + k = k
      BY <1>5, <2>1, <3>2
    <3> QED
      BY Zenon, <2>1, <3>2, <3>3, Zenon
  <2>2. CASE /\ stallq' = Append(stallq, s)
             /\ num_tx' = [num_tx EXCEPT ![s] = 0]
             /\ UNCHANGED <<credits, c2s>>
    <3>1. ReqBurst(s, cnum[s] + 1, total, 0, 0) = {}
      BY DEF ReqBurst
    <3>2. 0 <= total /\ 0 \in Nat /\ c2s \cup {} = c2s
      BY <1>5
    <3> QED
      BY Zenon, <2>2, <3>1, <3>2, Zenon
  <2>3. \/ /\ credits > 0 /\ kick_req_st(s, cnum[s] + 1, total, 0, credits, c2s)
           /\ stallq' = stallq
        \/ /\ stallq' = Append(stallq, s)
           /\ num_tx' = [num_tx EXCEPT ![s] = 0]
           /\ UNCHANGED <<credits, c2s>>
    BY Zenon, <1>0, Zenon DEF EnqueueRequest
  <2> QED
    BY Zenon, <2>1, <2>2, <2>3
<1>7. /\ IsInjective(stallq') /\ s \notin Range(stallq)
      /\ Range(stallq') = IF k > 0 THEN Range(stallq) ELSE Range(stallq) \cup {s}
  <2>1. IsInjective(stallq) /\ s \notin Range(stallq)
    BY Zenon, <1>1, <1>2 DEF SlotDiscipline
  <2>2. CASE k > 0
    BY <1>6, <2>1, <2>2
  <2>3. CASE ~ (k > 0)
    <3>1. stallq' = Append(stallq, s)
      BY Zenon, <1>6, <2>3
    <3> QED
      BY <1>2, <1>5, <2>1, <2>3, <3>1, AppendRange
  <2> QED
    BY Zenon, <2>2, <2>3
<1>8. SlotDiscipline'
  <2>1. ctx'[s] # 0 /\ num_tx'[s] = k
        /\ \A t \in Slots \ {s} : ctx'[t] = ctx[t] /\ num_tx'[t] = num_tx[t]
    BY <1>2, <1>4, <1>5, <1>6
  <2>2. Range(free') = {t \in Slots : ctx'[t] = 0}
    BY Zenon, <1>1, <1>2, <2>1 DEF SlotDiscipline
  <2>3. active' = Slots \ Range(free')
    BY Zenon, <1>1, <1>2, <1>4 DEF SlotDiscipline
  <2>4. Range(stallq') \subseteq active' /\ \A t \in Range(stallq') : num_tx'[t] = 0
    <3>1. Range(stallq) \subseteq active /\ \A t \in Range(stallq) : num_tx[t] = 0
      BY Zenon, <1>1 DEF SlotDiscipline
    <3>2. active \subseteq Slots
      BY Zenon, <1>1 DEF TypeOK, ClientTypeOK
    <3> QED
      BY Zenon, <1>4, <1>6, <1>7, <2>1, <3>1, <3>2
  <2> QED
    BY Zenon, <1>2, <1>7, <2>2, <2>3, <2>4 DEF SlotDiscipline
<1>9. SlotInv(s)'
  <2>1. /\ ctx'[s] = total /\ cnum'[s] = cnum[s] + 1 /\ num_tx'[s] = k /\ num_rx'[s] = 0
        /\ snum'[s] = cnum[s] /\ sreq'[s] = "invalid"
    BY Zenon, <1>2, <1>3, <1>4, <1>5, <1>6 DEF Idle
  <2>2. Rcvd(s)' = 0 /\ Replied(s)' = 0
    BY <1>5, <2>1 DEF Rcvd, Replied
  <2>3. OfSlot(c2s, s)' = {Sent(s, i)' : i \in 0 .. (k - 1)}
    <3>1. OfSlot(c2s, s)' = ReqBurst(s, cnum[s] + 1, total, 0, k)
      BY <1>3, <1>6 DEF Idle, OfSlot, ReqBurst, Pkt
    <3>2. \A i \in 0 .. (k - 1) : Sent(s, i)' = Pkt("req", s, cnum[s] + 1, i, total)
      BY <1>5, <1>6, <2>1 DEF Sent
    <3> QED
      BY <3>1, <3>2 DEF ReqBurst
  <2>4. OfSlot(s2c, s)' = {Reply(s, i)' : i \in 0 .. (0 - 1)}
    BY <1>3, <1>4 DEF Idle, OfSlot
  <2>5. Window(s, 0)'
    <3>1. s \notin Range(stallq') => 0 < k
      BY Zenon, <1>6, <1>7
    <3>2. k \in Nat /\ total \in Nat /\ total > 0
      BY Zenon, <1>5, <1>6
    <3> QED
      BY <2>1, <2>2, <2>3, <2>4, <3>1, <3>2 DEF Window
  <2>6. Phase(s)'
    BY <1>5, <1>6, <2>1, <2>2 DEF Phase, Answered
  <2> QED
    BY <1>5, <1>6, <2>1, <2>5, <2>6 DEF SlotInv, Busy
<1>10. ASSUME NEW t \in Slots, t # s PROVE SlotInv(t)'
  <2>1. OfSlot(c2s', t) = OfSlot(c2s, t)
    <3>1. c2s' = c2s \cup ReqBurst(s, cnum[s] + 1, total, 0, k)
      BY Zenon, <1>6
    <3>2. OfSlot(c2s \cup ReqBurst(s, cnum[s] + 1, total, 0, k), t) = OfSlot(c2s, t)
      BY <1>10 DEF OfSlot, ReqBurst, Pkt
    <3> QED
      BY Zenon, <3>1, <3>2
  <2>2. /\ ctx'[t] = ctx[t] /\ cnum'[t] = cnum[t] /\ num_tx'[t] = num_tx[t]
        /\ num_rx'[t] = num_rx[t] /\ (t \in Range(stallq') <=> t \in Range(stallq))
    BY Zenon, <1>2, <1>4, <1>5, <1>6, <1>7, <1>10
  <2> QED
    BY Zenon, <1>4, <1>10, <2>1, <2>2, SlotFrame DEF IInv
<1>11. CreditConservation'
  <2>1. Pending' = Pending /\ s2c' = s2c
    BY Zenon, <1>4, PendingFrame
  <2> QED
    BY Zenon, <1>1, <1>6, <2>1, CreditTypes DEF CreditConservation, TypeOK, ClientTypeOK
<1> QED
  BY Zenon, <1>1, <1>8, <1>9, <1>10, <1>11 DEF IInv

\* process_credit_stall_queue_st preserves the invariant.
LEMMA InvStallQueue ==
    ASSUME IInv, ProcessCreditStallQueue PROVE IInv'
<1>0. PICK s : s = Head(stallq)
  BY Zenon
<1>1. TypeOK /\ TypeOK' /\ SlotDiscipline /\ CreditConservation
  BY Zenon, TypeStallQueue DEF IInv
<1>2. /\ s \in Slots /\ s \in Range(stallq) /\ s \in active /\ num_tx[s] = 0
      /\ IsInjective(Tail(stallq)) /\ Range(Tail(stallq)) = Range(stallq) \ {s}
  <2>1. stallq \in Seq(Slots) /\ stallq # << >>
    BY Zenon, <1>1 DEF TypeOK, ClientTypeOK, ProcessCreditStallQueue
  <2>2. /\ s \in Range(stallq) /\ IsInjective(Tail(stallq))
        /\ Range(Tail(stallq)) = Range(stallq) \ {s}
    BY Zenon, <1>0, <1>1, <2>1, TailRange DEF SlotDiscipline
  <2> QED
    BY Zenon, <1>1, <2>2 DEF SlotDiscipline, TypeOK, ClientTypeOK
<1>3. ctx[s] # 0 /\ Busy(s)
  <2>1. ctx[s] # 0
    BY Zenon, <1>1, <1>2 DEF SlotDiscipline
  <2> QED
    BY Zenon, <1>2, <2>1 DEF IInv, SlotInv
<1>4. /\ ctx[s] \in Nat /\ cnum[s] \in Nat /\ num_tx[s] \in Nat /\ Rcvd(s) \in Nat
      /\ Replied(s) \in Int /\ num_rx[s] \in Nat /\ credits \in Nat
      /\ num_tx \in [Slots -> Nat]
  BY Zenon, <1>1, <1>2, SlotTypes DEF TypeOK, ClientTypeOK
<1>5. /\ kick_req_st(s, cnum[s], ctx[s], num_tx[s], credits, c2s) /\ credits > 0
      /\ stallq' = Tail(stallq)
      /\ UNCHANGED <<ctx, cnum, num_rx, rbuf, active, bgreqs, free, backlog, server, s2c, dead>>
  <2>1. ReqPktsPending(s)
    BY <1>2, <1>3, <1>4 DEF ReqPktsPending
  <2> QED
    BY Zenon, <1>0, <2>1, Zenon DEF ProcessCreditStallQueue
<1>6. UNCHANGED <<snum, snum_rx, sreq, stx>>
  BY Zenon, <1>5 DEF server, sslot
<1>7. PICK lo \in 0 .. num_tx[s] : Window(s, lo)
  BY Zenon, <1>3 DEF Busy
<1>8. lo = 0 /\ Rcvd(s) = 0 /\ Replied(s) = 0
  BY <1>2, <1>4, <1>7 DEF Window, Replied
<1>9. OfSlot(c2s, s) = {Sent(s, i) : i \in Rcvd(s) .. (num_tx[s] - 1)}
  BY Zenon, <1>7 DEF Window
<1>11. PICK k \in Nat :
         /\ k <= ctx[s] - num_tx[s] /\ (num_tx[s] < ctx[s] /\ credits > 0 => k > 0)
         /\ num_tx' = [num_tx EXCEPT ![s] = num_tx[s] + k]
         /\ OfSlot(c2s', s) = {Sent(s, i) : i \in Rcvd(s) .. (num_tx[s] + k - 1)}
         /\ \A t \in Slots \ {s} : OfSlot(c2s', t) = OfSlot(c2s, t)
         /\ credits' + Cardinality(c2s') = credits + Cardinality(c2s)
  <2>1. /\ num_tx[s] <= ctx[s] /\ Rcvd(s) <= num_tx[s]
        /\ kick_req_st(s, cnum[s], ctx[s], num_tx[s], credits, c2s)
    BY <1>2, <1>4, <1>5, <1>8
  <2> QED
    BY Zenon, <1>1, <1>2, <1>4, <1>9, <2>1, KickReqSlot
<1>12. /\ k > 0 /\ num_tx'[s] = k /\ k <= ctx[s]
       /\ OfSlot(c2s', s) = {Sent(s, i) : i \in 0 .. (k - 1)}
  <2>1. k > 0 /\ num_tx'[s] = k /\ k <= ctx[s] /\ num_tx[s] + k = k
    <3>1. num_tx[s] = 0 /\ ctx[s] \in Nat /\ ctx[s] # 0 /\ credits > 0
      BY Zenon, <1>2, <1>3, <1>4, <1>5
    <3>2. k <= ctx[s] - num_tx[s] /\ (num_tx[s] < ctx[s] /\ credits > 0 => k > 0)
      BY Zenon, <1>11
    <3>3. num_tx'[s] = num_tx[s] + k
      BY Zenon, <1>2, <1>4, <1>11
    <3> QED
      BY <3>1, <3>2, <3>3
  <2>2. Rcvd(s) .. (num_tx[s] + k - 1) = 0 .. (k - 1)
    BY <1>2, <1>8, <2>1
  <2> QED
    BY Zenon, <1>11, <2>1, <2>2
<1>13. SlotInv(s)'
  <2>1. Rcvd(s)' = 0 /\ Replied(s)' = 0
    BY Zenon, <1>5, <1>6, <1>8 DEF Rcvd, Replied
  <2>2. \A i : Sent(s, i)' = Sent(s, i) /\ Reply(s, i)' = Reply(s, i)
    BY Zenon, <1>5, <1>6 DEF Sent, Reply, Pkt
  <2>3. OfSlot(s2c, s)' = {Reply(s, i) : i \in 0 .. (0 - 1)}
    BY Zenon, <1>5, <1>7, <1>8 DEF Window, OfSlot
  <2>4. OfSlot(c2s, s)' = {Sent(s, i) : i \in 0 .. (k - 1)}
    BY Zenon, <1>12 DEF OfSlot
  <2>5. Window(s, 0)'
    <3>1. 0 <= Replied(s)' /\ Rcvd(s)' <= num_tx'[s]
      BY <1>12, <2>1
    <3>2. OfSlot(c2s, s)' = {Sent(s, i)' : i \in Rcvd(s)' .. (num_tx'[s] - 1)}
      BY Zenon, <1>12, <2>1, <2>2, <2>4
    <3>3. OfSlot(s2c, s)' = {Reply(s, i)' : i \in 0 .. (Replied(s)' - 1)}
      BY Zenon, <2>1, <2>2, <2>3
    <3>4. num_rx[s] = 0
      <4>1. num_rx[s] > 0 => lo = ctx[s] - 1 + num_rx[s]
        BY Zenon, <1>7, Zenon DEF Window
      <4> QED
        BY <1>3, <1>4, <1>8, <4>1
    <3>5. num_rx'[s] = 0 /\ ~ (num_rx'[s] > 0) /\ 0 < ctx'[s] /\ 0 < num_tx'[s]
      BY <1>3, <1>4, <1>5, <1>12, <3>4
    <3> QED
      BY Zenon, <3>1, <3>2, <3>3, <3>5, Zenon DEF Window
  <2>6. Phase(s)'
    <3>1. sreq'[s] = "invalid"
      <4>1. sreq[s] # "invalid" => Rcvd(s) = ctx[s]
        BY Zenon, <1>3, Zenon DEF Busy, Phase
      <4> QED
        BY Zenon, <1>3, <1>6, <1>8, <4>1
    <3>2. ctx'[s] = ctx[s] /\ ~ (num_tx'[s] > ctx'[s])
      BY <1>4, <1>5, <1>12
    <3>3. ~ (Rcvd(s)' >= ctx'[s])
      BY <1>3, <1>4, <2>1, <3>2
    <3> QED
      BY Zenon, <3>1, <3>2, <3>3, Zenon DEF Phase, Answered
  <2>7. 0 \in 0 .. num_tx'[s]
    BY <1>12
  <2> QED
    BY Zenon, <1>3, <1>5, <1>6, <2>5, <2>6, <2>7 DEF SlotInv, Busy
<1>14. ASSUME NEW t \in Slots, t # s PROVE SlotInv(t)'
  <2>2. OfSlot(c2s', t) = OfSlot(c2s, t)
    BY Zenon, <1>11, <1>14
  <2>3. num_tx'[t] = num_tx[t] /\ (t \in Range(stallq') <=> t \in Range(stallq))
    BY Zenon, <1>2, <1>4, <1>5, <1>11, <1>14
  <2> QED
    BY Zenon, <1>5, <1>6, <1>14, <2>2, <2>3, SlotFrame DEF IInv
<1>15. SlotDiscipline'
  <2>1. Range(stallq') = Range(stallq) \ {s} /\ IsInjective(stallq')
    BY Zenon, <1>2, <1>5
  <2>2. \A t \in Range(stallq') : num_tx'[t] = 0
    BY Zenon, <1>1, <1>4, <1>11, <2>1 DEF SlotDiscipline
  <2> QED
    BY Zenon, <1>1, <1>5, <2>1, <2>2 DEF SlotDiscipline
<1>16. CreditConservation'
  <2>1. Pending' = Pending /\ s2c' = s2c
    BY Zenon, <1>5, <1>6, PendingFrame
  <2> QED
    BY Zenon, <1>1, <1>11, <2>1, CreditTypes DEF CreditConservation, TypeOK, ClientTypeOK
<1> QED
  BY Zenon, <1>1, <1>13, <1>14, <1>15, <1>16 DEF IInv

\* process_expl_cr_st preserves the invariant on an in-order network.
LEMMA InvExplCr ==
    ASSUME IInv, InOrder, NEW p \in Deliverable(s2c), ProcessExplCr(p) PROVE IInv'
<1>0. PICK s : s = p.slot
  BY Zenon
<1>1. TypeOK /\ SlotDiscipline /\ CreditConservation
  BY Zenon DEF IInv
<1>2. /\ s \in Slots /\ p \in s2c /\ ctx[s] # 0 /\ Busy(s) /\ s \notin Range(stallq)
      /\ \E lo \in Nat : /\ lo < Replied(s) /\ lo < num_tx[s] /\ Window(s, lo)
                         /\ p = Reply(s, lo)
  BY Zenon, <1>0, ReplyFacts
<1>3. PICK lo \in Nat : lo < Replied(s) /\ lo < num_tx[s] /\ Window(s, lo) /\ p = Reply(s, lo)
  BY Zenon, <1>2
<1>4. TypeOK'
  BY Zenon, <1>1, <1>2, TypeExplCr
<1>5. /\ ctx[s] \in Nat /\ cnum[s] \in Nat /\ num_tx[s] \in Nat /\ Rcvd(s) \in Nat
      /\ Replied(s) \in Int /\ num_rx[s] \in Nat /\ credits \in Nat
      /\ num_tx \in [Slots -> Nat]
  BY Zenon, <1>1, <1>2, SlotTypes DEF TypeOK, ClientTypeOK
<1>6. /\ s2c' = s2c \ {p}
      /\ UNCHANGED <<ctx, cnum, num_rx, rbuf, active, crpc, free, backlog, server, dead>>
      /\ \/ /\ ReqPktsPending(s)
            /\ kick_req_st(s, cnum[s], ctx[s], num_tx[s], credits + 1, c2s)
         \/ /\ ~ ReqPktsPending(s)
            /\ credits' = credits + 1
            /\ UNCHANGED <<num_tx, c2s>>
  BY Zenon, <1>0, <1>2, Zenon DEF ProcessExplCr
<1>7. UNCHANGED <<snum, snum_rx, sreq, stx, stallq>>
  BY Zenon, <1>6 DEF server, sslot, crpc
<1>8. lo < ctx[s] - 1 /\ num_rx[s] = 0
  <2>1. p.type = "cr"
    BY Zenon DEF ProcessExplCr
  <2>2. lo < ctx[s] - 1
    BY Zenon, <1>3, <1>5, <2>1 DEF Reply, Pkt
  <2> QED
    BY <1>3, <1>5, <2>2 DEF Window
<1>9. /\ Rcvd(s) <= num_tx[s]
      /\ OfSlot(c2s, s) = {Sent(s, i) : i \in Rcvd(s) .. (num_tx[s] - 1)}
      /\ OfSlot(s2c, s) = {Reply(s, i) : i \in lo .. (Replied(s) - 1)}
  BY Zenon, <1>3 DEF Window
<1>10. PICK k \in Nat :
         /\ num_tx' = [num_tx EXCEPT ![s] = num_tx[s] + k]
         /\ OfSlot(c2s', s) = {Sent(s, i) : i \in Rcvd(s) .. (num_tx[s] + k - 1)}
         /\ \A t \in Slots \ {s} : OfSlot(c2s', t) = OfSlot(c2s, t)
         /\ credits' + Cardinality(c2s') = credits + 1 + Cardinality(c2s)
         /\ num_tx[s] < ctx[s] => k > 0 /\ num_tx[s] + k <= ctx[s]
         /\ num_tx[s] >= ctx[s] => k = 0
  <2>1. CASE ReqPktsPending(s) /\ kick_req_st(s, cnum[s], ctx[s], num_tx[s], credits + 1, c2s)
    <3>1. PICK cr : cr = credits + 1
      BY Zenon
    <3>2. kick_req_st(s, cnum[s], ctx[s], num_tx[s], cr, c2s)
      BY Zenon, <2>1, <3>1, Zenon
    <3>3. cr \in Nat /\ cr > 0 /\ num_tx[s] <= ctx[s] /\ num_tx[s] < ctx[s]
      <4>1. num_tx[s] < ctx[s]
        BY Zenon, <2>1 DEF ReqPktsPending
      <4>2. credits \in Nat /\ num_tx[s] \in Nat /\ ctx[s] \in Nat
        BY Zenon, <1>5
      <4> QED
        BY <3>1, <4>1, <4>2
    <3>4. PICK k \in Nat :
            /\ k <= ctx[s] - num_tx[s] /\ (num_tx[s] < ctx[s] /\ cr > 0 => k > 0)
            /\ num_tx' = [num_tx EXCEPT ![s] = num_tx[s] + k]
            /\ OfSlot(c2s', s) = {Sent(s, i) : i \in Rcvd(s) .. (num_tx[s] + k - 1)}
            /\ \A t \in Slots \ {s} : OfSlot(c2s', t) = OfSlot(c2s, t)
            /\ credits' + Cardinality(c2s') = cr + Cardinality(c2s)
      BY Zenon, <1>1, <1>2, <1>9, <3>2, <3>3, KickReqSlot
    <3>5. /\ num_tx[s] < ctx[s] => k > 0 /\ num_tx[s] + k <= ctx[s]
          /\ num_tx[s] >= ctx[s] => k = 0
      BY <1>5, <3>3, <3>4, SMTT(30)
    <3> QED
      BY Zenon, <3>1, <3>4, <3>5, Zenon
  <2>2. CASE ~ ReqPktsPending(s) /\ credits' = credits + 1 /\ UNCHANGED <<num_tx, c2s>>
    <3>1. num_tx[s] + 0 = num_tx[s] /\ num_tx[s] >= ctx[s] /\ ~ (num_tx[s] < ctx[s])
          /\ 0 \in Nat
      BY <1>5, <2>2, SMTT(30) DEF ReqPktsPending
    <3>2. num_tx' = [num_tx EXCEPT ![s] = num_tx[s] + 0]
      BY Zenon, <1>2, <1>5, <2>2, <3>1
    <3>3. credits' + Cardinality(c2s') = credits + 1 + Cardinality(c2s)
      BY Zenon, <2>2
    <3>4. OfSlot(c2s', s) = {Sent(s, i) : i \in Rcvd(s) .. (num_tx[s] + 0 - 1)}
      <4>1. num_tx[s] + 0 - 1 = num_tx[s] - 1
        BY <1>5
      <4> QED
        BY Zenon, <1>9, <2>2, <4>1
    <3>5. \A t \in Slots \ {s} : OfSlot(c2s', t) = OfSlot(c2s, t)
      BY Zenon, <2>2
    <3> QED
      BY Zenon, <3>1, <3>2, <3>3, <3>4, <3>5, Zenon
  <2> QED
    BY Zenon, <1>6, <2>1, <2>2
<1>11. num_tx'[s] = num_tx[s] + k /\ num_tx'[s] \in Nat
  <2>1. num_tx' = [num_tx EXCEPT ![s] = num_tx[s] + k]
    BY Zenon, <1>10
  <2>2. s \in Slots /\ num_tx \in [Slots -> Nat] /\ num_tx[s] \in Nat
    BY Zenon, <1>2, <1>5
  <2> QED
    BY <2>1, <2>2
<1>12. SlotInv(s)'
  <2>1. Rcvd(s)' = Rcvd(s) /\ Replied(s)' = Replied(s)
    BY Zenon, <1>6, <1>7 DEF Rcvd, Replied
  <2>2. \A i : Sent(s, i)' = Sent(s, i) /\ Reply(s, i)' = Reply(s, i)
    BY Zenon, <1>6, <1>7 DEF Sent, Reply, Pkt
  <2>3. OfSlot(c2s, s)' = {Sent(s, i)' : i \in Rcvd(s)' .. (num_tx'[s] - 1)}
    <3>1. Rcvd(s)' .. (num_tx'[s] - 1) = Rcvd(s) .. (num_tx[s] + k - 1)
      BY <1>5, <1>11, <2>1
    <3>2. OfSlot(c2s, s)' = {Sent(s, i) : i \in Rcvd(s) .. (num_tx[s] + k - 1)}
      BY Zenon, <1>10 DEF OfSlot
    <3> QED
      BY Zenon, <2>2, <3>1, <3>2
  <2>4. OfSlot(s2c, s)' = {Reply(s, i)' : i \in (lo + 1) .. (Replied(s)' - 1)}
    <3>1. PICK b : b = Replied(s) - 1
      BY Zenon
    <3>2. b \in Int /\ OfSlot(s2c, s) = {Reply(s, i) : i \in lo .. b}
      BY <1>5, <1>9, <3>1, SMTT(30)
    <3>3. OfSlot(s2c \ {Reply(s, lo)}, s) = {Reply(s, i) : i \in (lo + 1) .. b}
      BY Zenon, <1>5, <3>2, DropReply
    <3> QED
      BY Zenon, <1>3, <1>6, <2>1, <2>2, <3>1, <3>3 DEF OfSlot
  <2>5. Window(s, lo + 1)'
    <3>1. lo + 1 <= Replied(s)' /\ Rcvd(s)' <= num_tx'[s]
      <4>1. lo < Replied(s) /\ Rcvd(s) <= num_tx[s]
        BY Zenon, <1>3, <1>9
      <4>2. num_tx[s] \in Nat /\ Rcvd(s) \in Nat /\ Replied(s) \in Int
        BY Zenon, <1>5
      <4>3. num_tx'[s] = num_tx[s] + k /\ Rcvd(s)' = Rcvd(s) /\ Replied(s)' = Replied(s)
        BY Zenon, <1>11, <2>1
      <4> QED
        BY <4>1, <4>2, <4>3
    <3>a. ctx' = ctx /\ num_rx' = num_rx /\ stallq' = stallq
      BY Zenon, <1>6, <1>7
    <3>2. lo + 1 < ctx'[s] /\ num_rx'[s] = 0
      <4>1. lo + 1 < ctx[s]
        BY <1>5, <1>8, SMTT(30)
      <4> QED
        BY Zenon, <1>8, <3>a, <4>1
    <3>3. lo + 1 < num_tx'[s]
      <4>1. num_tx[s] \in Nat /\ ctx[s] \in Nat /\ lo < num_tx[s] /\ lo < ctx[s] - 1
        BY Zenon, <1>3, <1>5, <1>8
      <4>2. num_tx'[s] = num_tx[s] + k
        BY Zenon, <1>11
      <4>3. (num_tx[s] < ctx[s] => k > 0) /\ (num_tx[s] >= ctx[s] => k = 0)
        BY Zenon, <1>10
      <4>4. CASE num_tx[s] < ctx[s]
        BY <4>1, <4>2, <4>3, <4>4
      <4>5. CASE num_tx[s] >= ctx[s]
        BY <4>1, <4>2, <4>3, <4>5
      <4>6. num_tx[s] < ctx[s] \/ num_tx[s] >= ctx[s]
        BY <4>1
      <4> QED
        BY Zenon, <4>4, <4>5, <4>6, Zenon
    <3>4. ~ (num_rx'[s] > 0)
      BY <3>2
    <3> QED
      BY Zenon, <2>3, <2>4, <3>1, <3>2, <3>3, <3>4, Zenon DEF Window
  <2>6. Phase(s)'
    <3>1. Phase(s) /\ (Answered(s)' <=> Answered(s))
      BY Zenon, <1>2, <1>6, <1>7, <2>1 DEF Busy, Answered
    <3>2. num_tx'[s] > ctx[s] => num_tx'[s] = num_tx[s]
      <4>1. num_tx'[s] = num_tx[s] + k /\ num_tx[s] \in Nat /\ ctx[s] \in Nat
        BY Zenon, <1>5, <1>11
      <4>2. /\ num_tx[s] < ctx[s] => num_tx[s] + k <= ctx[s]
            /\ num_tx[s] >= ctx[s] => k = 0
        BY Zenon, <1>10
      <4> QED
        BY <4>1, <4>2
    <3>3. Answered(s) => num_tx'[s] = num_tx[s]
      <4>1. num_tx'[s] = num_tx[s] + k /\ num_tx[s] \in Nat /\ ctx[s] \in Nat /\ Rcvd(s) \in Nat
        BY Zenon, <1>5, <1>11
      <4>2. Rcvd(s) <= num_tx[s] /\ (num_tx[s] >= ctx[s] => k = 0)
        BY Zenon, <1>9, <1>10
      <4>3. Answered(s) => Rcvd(s) >= ctx[s]
        BY Zenon DEF Answered
      <4> QED
        BY <4>1, <4>2, <4>3
    <3> QED
      BY Zenon, <1>6, <1>7, <2>1, <3>1, <3>2, <3>3 DEF Phase
  <2>7. lo + 1 \in 0 .. num_tx'[s]
    BY <1>3, <1>5, <1>11
  <2> QED
    BY Zenon, <1>2, <1>6, <1>7, <2>5, <2>6, <2>7 DEF SlotInv, Busy
<1>13. ASSUME NEW t \in Slots, t # s PROVE SlotInv(t)'
  <2>1. OfSlot(s2c', t) = OfSlot(s2c, t)
    BY Zenon, <1>0, <1>6, <1>13 DEF OfSlot
  <2>2. OfSlot(c2s', t) = OfSlot(c2s, t) /\ num_tx'[t] = num_tx[t]
    BY Zenon, <1>5, <1>10, <1>13
  <2> QED
    BY Zenon, <1>6, <1>7, <1>13, <2>1, <2>2, SlotFrame DEF IInv
<1>14. SlotDiscipline'
  <2>1. \A t \in Range(stallq') : num_tx'[t] = num_tx[t]
    BY Zenon, <1>1, <1>2, <1>5, <1>7, <1>10 DEF SlotDiscipline, TypeOK, ClientTypeOK
  <2> QED
    BY Zenon, <1>1, <1>6, <1>7, <2>1 DEF SlotDiscipline
<1>15. CreditConservation'
  BY Zenon, <1>2, <1>4, <1>6, <1>7, <1>10, CreditReply
<1> QED
  BY Zenon, <1>4, <1>12, <1>13, <1>14, <1>15 DEF IInv

(* The slot of a completed request is free and idle.                       *)
LEMMA CompleteDiscipline ==
    ASSUME IInv, NEW s \in Slots, ctx[s] # 0, s \notin Range(stallq), CompleteRequest(s),
           \A t \in Slots \ {s} : num_tx'[t] = num_tx[t]
    PROVE  SlotDiscipline'
<1>1. SlotDiscipline /\ free \in Seq(Slots) /\ ctx \in [Slots -> Nat] /\ stallq' = stallq
  BY Zenon DEF IInv, TypeOK, ClientTypeOK, CompleteRequest, crpc
<1>2. /\ free' = Append(free, s) /\ ctx' = [ctx EXCEPT ![s] = 0] /\ active' = active \ {s}
  BY Zenon DEF CompleteRequest
<1>3. s \notin Range(free)
  BY Zenon, <1>1 DEF SlotDiscipline
<1>4. IsInjective(free') /\ Range(free') = Range(free) \cup {s}
  BY <1>1, <1>2, <1>3, AppendRange DEF SlotDiscipline
<1>5. ctx'[s] = 0 /\ \A t \in Slots \ {s} : ctx'[t] = ctx[t]
  BY Zenon, <1>1, <1>2
<1>6. Range(free') = {t \in Slots : ctx'[t] = 0}
  BY Zenon, <1>1, <1>4, <1>5 DEF SlotDiscipline
<1>7. active' = Slots \ Range(free')
  BY Zenon, <1>1, <1>2, <1>4 DEF SlotDiscipline
<1>8. Range(stallq') \subseteq active' /\ \A t \in Range(stallq') : num_tx'[t] = 0
  BY Zenon, <1>1, <1>2 DEF SlotDiscipline
<1> QED
  BY Zenon, <1>1, <1>4, <1>6, <1>7, <1>8 DEF SlotDiscipline

\* A response of one packet preserves the invariant on an in-order network.
LEMMA InvSmallResp ==
    ASSUME IInv, InOrder, NEW p \in Deliverable(s2c), ProcessSmallResp(p) PROVE IInv'
<1>0. PICK s : s = p.slot
  OBVIOUS
<1>1. TypeOK /\ SlotDiscipline /\ CreditConservation
  BY DEF IInv
<1>2. /\ s \in Slots /\ p \in s2c /\ ctx[s] # 0 /\ Busy(s) /\ s \notin Range(stallq)
      /\ \E lo \in Nat : /\ lo < Replied(s) /\ lo < num_tx[s] /\ Window(s, lo)
                         /\ p = Reply(s, lo)
  BY <1>0, ReplyFacts
<1>3. PICK lo \in Nat : lo < Replied(s) /\ lo < num_tx[s] /\ Window(s, lo) /\ p = Reply(s, lo)
  BY <1>2
<1>4. TypeOK'
  BY <1>1, <1>2, TypeSmallResp
<1>5. CASE Kill("client")
  BY Zenon, <1>5, InvKill
<1>6. CASE ~ Kill("client")
  <2>1. /\ ctx[s] \in Nat /\ cnum[s] \in Nat /\ num_tx[s] \in Nat /\ Rcvd(s) \in Nat
        /\ Replied(s) \in Int /\ num_rx[s] \in Nat /\ credits \in Nat
        /\ ctx \in [Slots -> Nat] /\ num_rx \in [Slots -> Nat] /\ snum[s] \in Nat
    BY Zenon, <1>1, <1>2, SlotTypes DEF TypeOK, ClientTypeOK
  <2>2. /\ CompleteRequest(s) /\ credits' = credits + 1 /\ s2c' = s2c \ {p}
        /\ UNCHANGED <<num_tx, c2s>> /\ p.type = "resp" /\ p.total = 1
    BY Zenon, <1>0, <1>6, Zenon DEF ProcessSmallResp
  <2>3. /\ UNCHANGED <<snum, snum_rx, sreq, stx, stallq, cnum>>
        /\ ctx' = [ctx EXCEPT ![s] = 0] /\ num_rx' = [num_rx EXCEPT ![s] = 0]
    BY Zenon, <2>2 DEF CompleteRequest, server, sslot, crpc
  <2>4. Answered(s) /\ Rcvd(s) = ctx[s] /\ num_tx[s] = ctx[s] /\ lo = ctx[s] - 1
        /\ Replied(s) = ctx[s] /\ snum[s] = cnum[s]
    <3>1. lo >= ctx[s] - 1 /\ stx[s].total = 1
      <4>1. p = Reply(s, lo) /\ p.type = "resp" /\ p.total = 1
        BY Zenon, <1>3, <2>2
      <4>2. ~ (lo < ctx[s] - 1)
        BY Zenon, <4>1 DEF Reply, Pkt
      <4>3. stx[s].total = 1
        BY Zenon, <4>1, <4>2 DEF Reply, Pkt
      <4> QED
        BY <2>1, <4>2, <4>3
    <3>2. Phase(s) /\ Rcvd(s) <= num_tx[s]
      BY Zenon, <1>2, <1>3 DEF Busy, Window
    <3>3. Answered(s)
      <4>1. lo < Replied(s)
        BY Zenon, <1>3
      <4> QED
        BY Zenon, <2>1, <3>1, <3>2, <4>1, AnsweredByReply
    <3>4. num_tx[s] < ctx[s] + 1
      BY Zenon, <3>1, <3>2, <3>3 DEF Phase
    <3>5. Rcvd(s) = ctx[s] /\ num_tx[s] = ctx[s] /\ Replied(s) = ctx[s]
      <4>1. Rcvd(s) >= ctx[s] /\ Replied(s) = Rcvd(s)
        BY Zenon, <3>3, Zenon DEF Answered, Replied
      <4>2. Rcvd(s) \in Nat /\ ctx[s] \in Nat /\ num_tx[s] \in Nat /\ Rcvd(s) <= num_tx[s]
        BY Zenon, <2>1, <3>2
      <4> QED
        BY <3>4, <4>1, <4>2
    <3>6. lo = ctx[s] - 1
      <4>1. lo < Replied(s) /\ lo >= ctx[s] - 1 /\ Replied(s) = ctx[s] /\ ctx[s] \in Nat
        BY Zenon, <1>3, <2>1, <3>1, <3>5
      <4> QED
        BY <4>1
    <3>7. snum[s] = cnum[s]
      BY Zenon, <1>2, <2>1, <3>5 DEF Rcvd
    <3> QED
      BY Zenon, <3>3, <3>5, <3>6, <3>7
  <2>5. OfSlot(c2s, s) = {} /\ OfSlot(s2c, s) = {p}
    BY <1>3, <2>1, <2>4 DEF Window
  <2>6. SlotInv(s)'
    <3>1. OfSlot(c2s, s)' = {} /\ OfSlot(s2c, s)' = {}
      BY Zenon, <2>2, <2>5 DEF OfSlot
    <3>2. ctx'[s] = 0 /\ sreq'[s] = "invalid" /\ snum'[s] = cnum'[s]
      BY Zenon, <1>2, <2>1, <2>3, <2>4 DEF Answered
    <3> QED
      BY Zenon, <3>1, <3>2 DEF SlotInv, Idle
  <2>7. ASSUME NEW t \in Slots, t # s PROVE SlotInv(t)'
    <3>1. OfSlot(s2c', t) = OfSlot(s2c, t) /\ OfSlot(c2s', t) = OfSlot(c2s, t)
      BY Zenon, <1>0, <2>2, <2>7 DEF OfSlot
    <3>2. ctx'[t] = ctx[t] /\ num_rx'[t] = num_rx[t] /\ num_tx'[t] = num_tx[t]
      BY Zenon, <2>1, <2>2, <2>3, <2>7
    <3> QED
      BY Zenon, <2>3, <2>7, <3>1, <3>2, SlotFrame DEF IInv
  <2>8. SlotDiscipline'
    BY Zenon, <1>2, <2>2, CompleteDiscipline
  <2>9. CreditConservation'
    BY Zenon, <1>2, <1>4, <2>2, <2>3, CreditReply
  <2> QED
    BY Zenon, <1>4, <2>6, <2>7, <2>8, <2>9 DEF IInv
<1> QED
  BY Zenon, <1>5, <1>6

\* A packet of a larger response preserves the invariant on an in-order network.
LEMMA InvLargeResp ==
    ASSUME IInv, InOrder, NEW p \in Deliverable(s2c), ProcessLargeResp(p) PROVE IInv'
<1>0. PICK s, wire_pkts : s = p.slot /\ wire_pkts = ctx[s] + p.total - 1
  BY Zenon
<1>1. TypeOK /\ SlotDiscipline /\ CreditConservation
  BY DEF IInv
<1>2. /\ s \in Slots /\ p \in s2c /\ ctx[s] # 0 /\ Busy(s) /\ s \notin Range(stallq)
      /\ \E lo \in Nat : /\ lo < Replied(s) /\ lo < num_tx[s] /\ Window(s, lo)
                         /\ p = Reply(s, lo)
  BY Zenon, <1>0, ReplyFacts
<1>3. PICK lo \in Nat : lo < Replied(s) /\ lo < num_tx[s] /\ Window(s, lo) /\ p = Reply(s, lo)
  BY <1>2
<1>4. TypeOK'
  BY <1>1, <1>2, TypeLargeResp
<1>5. CASE Kill("client")
  BY <1>5, InvKill
<1>6. CASE ~ Kill("client")
  <2>1. /\ ctx[s] \in Nat /\ cnum[s] \in Nat /\ num_tx[s] \in Nat /\ Rcvd(s) \in Nat
        /\ Replied(s) \in Int /\ num_rx[s] \in Nat /\ credits \in Nat /\ stx[s].total \in Nat
        /\ ctx \in [Slots -> Nat] /\ num_rx \in [Slots -> Nat] /\ num_tx \in [Slots -> Nat]
        /\ snum[s] \in Nat
    BY Zenon, <1>1, <1>2, SlotTypes DEF TypeOK, ClientTypeOK
  <2>2. p.type = "resp" /\ p.total > 1
    BY Zenon DEF ProcessLargeResp
  <2>3. s2c' = s2c \ {p}
    BY Zenon, <1>0, <1>6, Zenon DEF ProcessLargeResp, WirePkts
  <2>4. \/ num_tx[s] # wire_pkts /\ kick_rfr_st(s, p.num, wire_pkts, credits + 1)
        \/ num_tx[s] = wire_pkts /\ credits' = credits + 1 /\ UNCHANGED <<num_tx, c2s>>
    BY Zenon, <1>0, <1>6, Zenon DEF ProcessLargeResp, WirePkts
  <2>5. \/ num_rx[s] + 1 = p.total /\ CompleteRequest(s)
        \/ /\ num_rx[s] + 1 # p.total
           /\ num_rx' = [num_rx EXCEPT ![s] = @ + 1]
           /\ UNCHANGED <<ctx, cnum, active, crpc, free, backlog, server, dead>>
    BY Zenon, <1>0, <1>6, Zenon DEF ProcessLargeResp, WirePkts
  <2>6. UNCHANGED <<snum, snum_rx, sreq, stx, stallq, cnum>>
    BY Zenon, <2>5 DEF CompleteRequest, server, sslot, crpc
  <2>7. p.num = cnum[s] /\ p.total = stx[s].total /\ lo >= ctx[s] - 1
    <3>1. p = Reply(s, lo) /\ p.type = "resp"
      BY Zenon, <1>3, <2>2
    <3>2. ~ (lo < ctx[s] - 1)
      BY Zenon, <3>1 DEF Reply, Pkt
    <3>3. p.num = cnum[s] /\ p.total = stx[s].total
      BY Zenon, <3>1, <3>2 DEF Reply, Pkt
    <3> QED
      BY <2>1, <3>2, <3>3
  <2>8. /\ Answered(s) /\ Replied(s) = Rcvd(s) /\ lo = ctx[s] - 1 + num_rx[s]
        /\ num_rx[s] < p.total /\ ctx[s] <= num_tx[s] /\ num_tx[s] <= wire_pkts
        /\ Rcvd(s) <= num_tx[s] /\ wire_pkts \in Int /\ snum[s] = cnum[s]
    <3>1. Phase(s) /\ Rcvd(s) <= num_tx[s]
      BY <1>2, <1>3 DEF Busy, Window
    <3>2. Answered(s)
      <4>1. lo < Replied(s)
        BY <1>3
      <4> QED
        BY Zenon, <2>1, <2>7, <3>1, <4>1, AnsweredByReply
    <3>3. Replied(s) = Rcvd(s)
      BY Zenon, <3>2 DEF Answered, Replied
    <3>4. lo = ctx[s] - 1 + num_rx[s]
      <4>1. (num_rx[s] = 0 => lo < ctx[s]) /\ (num_rx[s] > 0 => lo = ctx[s] - 1 + num_rx[s])
        BY Zenon, <1>3 DEF Window
      <4>2. lo >= ctx[s] - 1 /\ ctx[s] \in Nat /\ num_rx[s] \in Nat
        BY Zenon, <2>1, <2>7
      <4>3. CASE num_rx[s] = 0
        BY <4>1, <4>2, <4>3, SMTT(30)
      <4>4. CASE num_rx[s] > 0
        BY Zenon, <4>1, <4>4
      <4>5. num_rx[s] = 0 \/ num_rx[s] > 0
        BY <4>2
      <4> QED
        BY Zenon, <4>3, <4>4, <4>5, Zenon
    <3>5. num_rx[s] < p.total /\ num_tx[s] < ctx[s] + p.total
      BY Zenon, <2>7, <3>1, <3>2 DEF Phase
    <3>6. ctx[s] <= num_tx[s] /\ num_tx[s] <= wire_pkts /\ wire_pkts \in Int
      <4>1. Rcvd(s) >= ctx[s]
        BY Zenon, <3>2, Zenon DEF Answered
      <4>2. /\ Rcvd(s) \in Nat /\ ctx[s] \in Nat /\ num_tx[s] \in Nat /\ p.total \in Nat
            /\ Rcvd(s) <= num_tx[s] /\ num_tx[s] < ctx[s] + p.total
        BY Zenon, <2>1, <2>7, <3>1, <3>5
      <4>3. wire_pkts = ctx[s] + p.total - 1
        BY Zenon, <1>0
      <4> QED
        BY <4>1, <4>2, <4>3
    <3>7. snum[s] = cnum[s]
      <4>1. Rcvd(s) >= ctx[s] /\ Rcvd(s) \in Nat /\ ctx[s] \in Nat /\ ctx[s] # 0
        BY Zenon, <1>2, <2>1, <3>2 DEF Answered
      <4>2. Rcvd(s) # 0
        BY <4>1
      <4> QED
        BY Zenon, <4>2, Zenon DEF Rcvd
    <3> QED
      BY Zenon, <3>1, <3>2, <3>3, <3>4, <3>5, <3>6, <3>7
  <2>9. /\ OfSlot(c2s, s) = {Sent(s, i) : i \in Rcvd(s) .. (num_tx[s] - 1)}
        /\ OfSlot(s2c, s) = {Reply(s, i) : i \in lo .. (Replied(s) - 1)}
    BY Zenon, <1>3 DEF Window
  <2>10. PICK k \in Nat :
           /\ num_tx' = [num_tx EXCEPT ![s] = num_tx[s] + k]
           /\ OfSlot(c2s', s) = {Sent(s, i) : i \in Rcvd(s) .. (num_tx[s] + k - 1)}
           /\ \A t \in Slots \ {s} : OfSlot(c2s', t) = OfSlot(c2s, t)
           /\ credits' + Cardinality(c2s') = credits + 1 + Cardinality(c2s)
           /\ num_tx[s] + k <= wire_pkts /\ (num_tx[s] < wire_pkts => k > 0)
    <3>1. CASE num_tx[s] # wire_pkts /\ kick_rfr_st(s, p.num, wire_pkts, credits + 1)
      <4>1. PICK cr : cr = credits + 1
        OBVIOUS
      <4>2. kick_rfr_st(s, cnum[s], wire_pkts, cr)
        BY Zenon, <2>7, <3>1, <4>1, Zenon
      <4>3. cr \in Nat /\ cr > 0
        <5>1. credits \in Nat
          BY Zenon, <2>1
        <5>2. credits + 1 \in Nat /\ credits + 1 > 0
          BY <5>1
        <5> QED
          BY Zenon, <4>1, <5>2, Zenon
      <4>4. PICK k \in Nat :
              /\ k <= wire_pkts - num_tx[s] /\ (num_tx[s] < wire_pkts /\ cr > 0 => k > 0)
              /\ num_tx' = [num_tx EXCEPT ![s] = num_tx[s] + k]
              /\ OfSlot(c2s', s) = {Sent(s, i) : i \in Rcvd(s) .. (num_tx[s] + k - 1)}
              /\ \A t \in Slots \ {s} : OfSlot(c2s', t) = OfSlot(c2s, t)
              /\ credits' + Cardinality(c2s') = cr + Cardinality(c2s)
        BY Zenon, <1>1, <1>2, <2>8, <2>9, <4>2, <4>3, KickRfrSlot
      <4>5. num_tx[s] + k <= wire_pkts /\ (num_tx[s] < wire_pkts => k > 0)
        <5>1. num_tx[s] \in Nat /\ wire_pkts \in Int /\ cr > 0
          BY Zenon, <2>1, <2>8, <4>3
        <5>2. k <= wire_pkts - num_tx[s] /\ (num_tx[s] < wire_pkts /\ cr > 0 => k > 0)
          BY Zenon, <4>4, Zenon
        <5> QED
          BY <5>1, <5>2
      <4> QED
        BY Zenon, <4>1, <4>4, <4>5, Zenon
    <3>2. CASE num_tx[s] = wire_pkts /\ credits' = credits + 1 /\ UNCHANGED <<num_tx, c2s>>
      <4>1. /\ num_tx[s] + 0 = num_tx[s] /\ num_tx[s] + 0 - 1 = num_tx[s] - 1 /\ 0 \in Nat
            /\ num_tx[s] + 0 <= wire_pkts /\ ~ (num_tx[s] < wire_pkts)
        BY <2>1, <3>2
      <4>2. num_tx' = [num_tx EXCEPT ![s] = num_tx[s] + 0]
        BY Zenon, <1>2, <2>1, <3>2, <4>1
      <4>3. credits' + Cardinality(c2s') = credits + 1 + Cardinality(c2s)
        BY Zenon, <3>2
      <4>4. OfSlot(c2s', s) = {Sent(s, i) : i \in Rcvd(s) .. (num_tx[s] + 0 - 1)}
        BY Zenon, <2>9, <3>2, <4>1
      <4>5. \A t \in Slots \ {s} : OfSlot(c2s', t) = OfSlot(c2s, t)
        BY Zenon, <3>2
      <4> QED
        BY Zenon, <4>1, <4>2, <4>3, <4>4, <4>5, Zenon
    <3> QED
      BY Zenon, <2>4, <3>1, <3>2
  <2>11. \A t \in Slots \ {s} : num_tx'[t] = num_tx[t]
    BY Zenon, <1>2, <2>1, <2>10
  <2>a. num_tx'[s] = num_tx[s] + k /\ num_tx'[s] \in Nat
    <3>1. num_tx' = [num_tx EXCEPT ![s] = num_tx[s] + k] /\ num_tx \in [Slots -> Nat]
      BY Zenon, <2>1, <2>10
    <3>2. num_tx'[s] = num_tx[s] + k /\ num_tx[s] \in Nat
      BY Zenon, <1>2, <3>1
    <3> QED
      BY <3>2
  <2>b. num_tx[s] + k <= wire_pkts /\ (num_tx[s] < wire_pkts => k > 0) /\ p.total \in Nat
    BY Zenon, <2>1, <2>7, <2>10
  <2>c. wire_pkts = ctx[s] + p.total - 1 /\ lo < Rcvd(s) /\ lo < num_tx[s]
    BY Zenon, <1>0, <1>3, <2>8
  <2>12. OfSlot(s2c', s) = {Reply(s, i) : i \in (lo + 1) .. (Rcvd(s) - 1)}
    <3>1. PICK b : b = Rcvd(s) - 1
      OBVIOUS
    <3>2. b \in Int /\ OfSlot(s2c, s) = {Reply(s, i) : i \in lo .. b}
      <4>1. Rcvd(s) \in Nat /\ Replied(s) = Rcvd(s)
        BY Zenon, <2>1, <2>8
      <4>2. OfSlot(s2c, s) = {Reply(s, i) : i \in lo .. (Rcvd(s) - 1)}
        BY Zenon, <2>9, <4>1
      <4> QED
        BY <3>1, <4>1, <4>2
    <3>3. OfSlot(s2c \ {Reply(s, lo)}, s) = {Reply(s, i) : i \in (lo + 1) .. b}
      BY Zenon, <2>1, <3>2, DropReply
    <3> QED
      BY Zenon, <1>3, <2>3, <3>1, <3>3
  <2>13. CreditConservation'
    BY Zenon, <1>2, <1>4, <2>3, <2>6, <2>10, CreditReply
  <2>14. ASSUME NEW t \in Slots, t # s PROVE SlotInv(t)'
    <3>1. OfSlot(s2c', t) = OfSlot(s2c, t) /\ OfSlot(c2s', t) = OfSlot(c2s, t)
      BY Zenon, <1>0, <2>3, <2>10, <2>14 DEF OfSlot
    <3>2. ctx'[t] = ctx[t] /\ num_rx'[t] = num_rx[t] /\ num_tx'[t] = num_tx[t]
      BY Zenon, <2>1, <2>5, <2>11, <2>14 DEF CompleteRequest
    <3> QED
      BY Zenon, <2>6, <2>14, <3>1, <3>2, SlotFrame DEF IInv
  <2>15. CASE num_rx[s] + 1 = p.total /\ CompleteRequest(s)
    <3>1. num_tx[s] = wire_pkts /\ k = 0 /\ Rcvd(s) = num_tx[s] /\ lo + 1 = Rcvd(s)
      <4>1. num_rx[s] + 1 = p.total
        BY Zenon, <2>15
      <4> QED
        <5>1. /\ ctx[s] \in Nat /\ num_tx[s] \in Nat /\ Rcvd(s) \in Nat /\ wire_pkts \in Int
              /\ num_rx[s] \in Nat /\ p.total \in Nat
          BY Zenon, <2>1, <2>8, <2>b
        <5>2. wire_pkts = ctx[s] + p.total - 1 /\ lo = ctx[s] - 1 + num_rx[s]
          BY Zenon, <2>8, <2>c
        <5>3. lo + 1 = wire_pkts
          BY <4>1, <5>1, <5>2
        <5>4. /\ lo < Rcvd(s) /\ Rcvd(s) <= num_tx[s] /\ num_tx[s] <= wire_pkts
              /\ num_tx[s] + k <= wire_pkts
          BY Zenon, <2>8, <2>b, <2>c
        <5> QED
          BY <5>1, <5>3, <5>4
    <3>2. OfSlot(c2s, s)' = {} /\ OfSlot(s2c, s)' = {}
      <4>1. /\ Rcvd(s) .. (num_tx[s] + k - 1) = {} /\ (lo + 1) .. (Rcvd(s) - 1) = {}
        <5>1. num_tx[s] \in Nat /\ Rcvd(s) \in Nat
          BY Zenon, <2>1
        <5> QED
          BY <3>1, <5>1
      <4>2. OfSlot(c2s', s) = {} /\ OfSlot(s2c', s) = {}
        BY Zenon, <2>10, <2>12, <4>1
      <4> QED
        BY Zenon, <4>2 DEF OfSlot
    <3>3. ctx'[s] = 0 /\ sreq'[s] = "invalid" /\ snum'[s] = cnum'[s]
      BY Zenon, <1>2, <2>1, <2>6, <2>8, <2>15 DEF Answered, CompleteRequest
    <3>4. SlotInv(s)'
      BY Zenon, <3>2, <3>3 DEF SlotInv, Idle
    <3>5. SlotDiscipline'
      BY Zenon, <1>2, <2>11, <2>15, CompleteDiscipline
    <3> QED
      BY Zenon, <1>4, <2>13, <2>14, <3>4, <3>5 DEF IInv
  <2>16. CASE /\ num_rx[s] + 1 # p.total
              /\ num_rx' = [num_rx EXCEPT ![s] = @ + 1]
              /\ UNCHANGED <<ctx, cnum, active, crpc, free, backlog, server, dead>>
    <3>1. num_rx'[s] = num_rx[s] + 1 /\ num_rx[s] + 1 < p.total
      <4>1. num_rx[s] + 1 # p.total /\ num_rx' = [num_rx EXCEPT ![s] = @ + 1]
        BY Zenon, <2>16
      <4>2. num_rx'[s] = num_rx[s] + 1
        BY Zenon, <1>2, <2>1, <4>1
      <4>3. num_rx[s] \in Nat /\ p.total \in Nat /\ num_rx[s] < p.total
        BY Zenon, <2>1, <2>7, <2>8
      <4> QED
        BY <4>1, <4>2, <4>3
    <3>2. Rcvd(s)' = Rcvd(s) /\ Replied(s)' = Rcvd(s)
      BY Zenon, <2>6, <2>8, <2>16 DEF Rcvd, Replied
    <3>3. \A i : Sent(s, i)' = Sent(s, i) /\ Reply(s, i)' = Reply(s, i)
      BY Zenon, <2>6, <2>16 DEF Sent, Reply, Pkt
    <3>4. OfSlot(c2s, s)' = {Sent(s, i)' : i \in Rcvd(s)' .. (num_tx'[s] - 1)}
      <4>1. Rcvd(s)' .. (num_tx'[s] - 1) = Rcvd(s) .. (num_tx[s] + k - 1)
        BY <2>1, <2>a, <3>2
      <4>2. OfSlot(c2s, s)' = {Sent(s, i) : i \in Rcvd(s) .. (num_tx[s] + k - 1)}
        BY Zenon, <2>10 DEF OfSlot
      <4> QED
        BY Zenon, <3>3, <4>1, <4>2
    <3>5. OfSlot(s2c, s)' = {Reply(s, i)' : i \in (lo + 1) .. (Replied(s)' - 1)}
      BY Zenon, <2>12, <3>2, <3>3 DEF OfSlot
    <3>6. Window(s, lo + 1)'
      <4>1. lo + 1 <= Replied(s)' /\ Rcvd(s)' <= num_tx'[s]
        <5>1. lo < Replied(s) /\ Replied(s) = Rcvd(s) /\ Rcvd(s) <= num_tx[s]
          BY Zenon, <1>3, <2>8
        <5>2. num_tx'[s] = num_tx[s] + k /\ num_tx[s] \in Nat /\ Rcvd(s) \in Nat
          BY Zenon, <2>1, <2>a
        <5> QED
          BY <3>2, <5>1, <5>2
      <4>2. num_rx'[s] > 0 /\ lo + 1 = ctx'[s] - 1 + num_rx'[s]
        <5>1. lo = ctx[s] - 1 + num_rx[s] /\ ctx[s] \in Nat /\ num_rx[s] \in Nat
          BY Zenon, <2>1, <2>8
        <5>2. ctx' = ctx
          BY Zenon, <2>16
        <5> QED
          BY <3>1, <5>1, <5>2
      <4>3. lo + 1 < num_tx'[s]
        <5>1. /\ num_tx[s] \in Nat /\ ctx[s] \in Nat /\ num_rx[s] \in Nat /\ p.total \in Nat
              /\ num_tx'[s] = num_tx[s] + k /\ lo < num_tx[s]
          BY Zenon, <2>1, <2>a, <2>b, <2>c
        <5>2. lo + 1 < ctx[s] + p.total - 1
          <6>1. lo = ctx[s] - 1 + num_rx[s] /\ num_rx[s] + 1 < p.total
            BY Zenon, <2>8, <3>1
          <6> QED
            BY <5>1, <6>1
        <5>3. (num_tx[s] < wire_pkts => k > 0) /\ wire_pkts = ctx[s] + p.total - 1
          BY Zenon, <2>b, <2>c
        <5>4. k > 0 \/ num_tx[s] >= ctx[s] + p.total - 1
          BY <5>1, <5>3
        <5> QED
          BY <5>1, <5>2, <5>4
      <4> QED
        <5>1. num_rx'[s] # 0
          BY <2>1, <3>1
        <5> QED
          BY Zenon, <3>4, <3>5, <4>1, <4>2, <4>3, <5>1, Zenon DEF Window
    <3>7. Phase(s)'
      <4>1. Phase(s) /\ Answered(s)'
        BY Zenon, <1>2, <2>6, <2>8, <2>16, <3>2 DEF Busy, Answered
      <4>2. num_tx'[s] < ctx[s] + stx[s].total /\ num_rx'[s] < stx[s].total
        <5>1. /\ num_tx'[s] = num_tx[s] + k /\ num_tx[s] \in Nat /\ ctx[s] \in Nat
              /\ num_tx[s] + k <= wire_pkts /\ wire_pkts = ctx[s] + p.total - 1
              /\ p.total \in Nat /\ p.total = stx[s].total
          BY Zenon, <2>1, <2>7, <2>a, <2>b, <2>c
        <5>2. num_tx'[s] <= ctx[s] + p.total - 1
          BY Zenon, <5>1
        <5>3. num_tx'[s] \in Nat
          BY Zenon, <2>a
        <5>4. num_tx'[s] < ctx[s] + p.total
          BY <5>1, <5>2, <5>3
        <5> QED
          BY Zenon, <3>1, <5>1, <5>4
      <4> QED
        BY Zenon, <2>6, <2>8, <2>16, <3>2, <4>1, <4>2 DEF Phase
    <3>8. lo + 1 \in 0 .. num_tx'[s]
      <4>1. lo < num_tx[s] /\ num_tx[s] \in Nat /\ num_tx'[s] = num_tx[s] + k
        BY Zenon, <2>1, <2>a, <2>c
      <4> QED
        BY <4>1
    <3>9. SlotInv(s)'
      BY Zenon, <1>2, <2>6, <2>16, <3>6, <3>7, <3>8 DEF SlotInv, Busy
    <3>10. SlotDiscipline'
      <4>1. \A t \in Range(stallq') : num_tx'[t] = num_tx[t]
        BY Zenon, <1>1, <1>2, <2>6, <2>11 DEF SlotDiscipline, TypeOK, ClientTypeOK
      <4> QED
        BY Zenon, <1>1, <2>6, <2>16, <4>1 DEF SlotDiscipline
    <3> QED
      BY <1>4, <2>13, <2>14, <3>9, <3>10 DEF IInv
  <2> QED
    BY Zenon, <2>5, <2>15, <2>16
<1> QED
  BY <1>5, <1>6
===============================================================================
