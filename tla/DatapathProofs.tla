---------------------------- MODULE DatapathProofs ----------------------------
(***************************************************************************)
(* Every action of the server in Datapath preserves IInv when the network  *)
(* keeps the packets of a slot in order, and what follows from the sliding *)
(* window: the accounting of credits and slots, no packet needs a          *)
(* reordering check, no null pointer is followed as long as neither end    *)
(* queues work for its dispatch thread, and the datapath implements        *)
(* RpcService step by step.                                                *)
(***************************************************************************)
EXTENDS DatapathLemmas, DatapathService

-------------------------------------------------------------------------------
(* The replies that the server adds.                                       *)

(* The window after the server has received a packet, and replied to it.   *)
LEMMA WindowReceive ==
    ASSUME NEW s, ctx[s] \in Nat, num_tx[s] \in Nat, Rcvd(s) \in Nat,
           OfSlot(c2s, s) = {Sent(s, i) : i \in Rcvd(s) .. (num_tx[s] - 1)}
    PROVE  OfSlot(c2s \ {Sent(s, Rcvd(s))}, s)
             = {Sent(s, i) : i \in (Rcvd(s) + 1) .. (num_tx[s] - 1)}
<1>1. OfSlot(c2s \ {Sent(s, Rcvd(s))}, s)
        = {Sent(s, i) : i \in Rcvd(s) .. (num_tx[s] - 1)} \ {Sent(s, Rcvd(s))}
  BY Zenon DEF OfSlot
<1>2. ASSUME NEW i \in (Rcvd(s) + 1) .. (num_tx[s] - 1) PROVE Sent(s, i) # Sent(s, Rcvd(s))
  BY DEF Sent, Pkt
<1> QED
  BY <1>1, <1>2

\* The answer to the packet just received extends the window of answers.
LEMMA WindowReply ==
    ASSUME NEW s, ctx[s] \in Nat, Rcvd(s) \in Nat, NEW lo \in Nat, lo <= Rcvd(s),
           OfSlot(s2c, s) = {Reply(s, i) : i \in lo .. (Rcvd(s) - 1)}
    PROVE  /\ Reply(s, Rcvd(s)) \notin s2c
           /\ OfSlot(s2c \cup {Reply(s, Rcvd(s))}, s) = {Reply(s, i) : i \in lo .. Rcvd(s)}
<1>1. Reply(s, Rcvd(s)).slot = s
  BY Zenon DEF Reply, Pkt
<1>2. ASSUME NEW i \in lo .. (Rcvd(s) - 1) PROVE Reply(s, i) # Reply(s, Rcvd(s))
  BY DEF Reply, Pkt
<1>3. Reply(s, Rcvd(s)) \notin s2c
  BY <1>1, <1>2 DEF OfSlot
<1>4. OfSlot(s2c \cup {Reply(s, Rcvd(s))}, s)
        = {Reply(s, i) : i \in lo .. (Rcvd(s) - 1)} \cup {Reply(s, Rcvd(s))}
  BY Zenon, <1>1 DEF OfSlot
<1>5. lo .. Rcvd(s) = (lo .. (Rcvd(s) - 1)) \cup {Rcvd(s)}
  OBVIOUS
<1> QED
  BY Zenon, <1>3, <1>4, <1>5

(* What a server that processes a packet knows: it is the first one of its *)
(* slot's window.                                                          *)
LEMMA RequestFacts ==
    ASSUME IInv, InOrder, NEW p \in Deliverable(c2s), NEW s, s = p.slot
    PROVE  /\ s \in Slots /\ p \in c2s /\ ctx[s] # 0 /\ Busy(s)
           /\ Rcvd(s) < num_tx[s] /\ p = Sent(s, Rcvd(s))
           /\ \E lo \in 0 .. num_tx[s] : Window(s, lo)
<1>1. TypeOK
  BY Zenon DEF IInv
<1>2. s \in Slots /\ p \in c2s
  BY Zenon, <1>1, DeliverableSubset DEF TypeOK, NetTypeOK, Packet
<1>3. ctx[s] # 0 /\ Busy(s)
  <2>1. OfSlot(c2s, s) # {}
    BY Zenon, <1>2 DEF OfSlot
  <2> QED
    BY Zenon, <1>2, <2>1 DEF IInv, SlotInv, Idle
<1>4. PICK lo \in 0 .. num_tx[s] : Window(s, lo)
  BY Zenon, <1>3 DEF Busy
<1>5. Rcvd(s) < num_tx[s] /\ p = Sent(s, Rcvd(s))
  BY Zenon, <1>1, <1>4, FirstSent
<1> QED
  BY Zenon, <1>2, <1>3, <1>4, <1>5

(* The server answers a packet with one reply, or keeps its credit until   *)
(* the response to the request.                                            *)
LEMMA CreditRequest ==
    ASSUME IInv, TypeOK', NEW p \in c2s, c2s' = c2s \ {p}, credits' = credits,
           Cardinality(s2c') + Cardinality(Pending')
             = Cardinality(s2c) + Cardinality(Pending) + 1
    PROVE  CreditConservation'
<1>1. Cardinality(c2s') = Cardinality(c2s) - 1
  BY Zenon, FS_RemoveElement DEF IInv, TypeOK, NetTypeOK
<1>2. /\ Cardinality(c2s) \in Nat /\ Cardinality(s2c) \in Nat /\ Cardinality(Pending) \in Nat
      /\ credits \in Nat /\ CreditConservation
  BY Zenon, CreditTypes DEF IInv, TypeOK, ClientTypeOK
<1>3. Cardinality(s2c') \in Nat /\ Cardinality(Pending') \in Nat
  <2>1. IsFiniteSet(Slots)
    BY FS_Interval, SizeAssumption DEF Slots
  <2>2. IsFiniteSet(Pending')
    BY Zenon, <2>1, FS_Subset DEF Pending
  <2> QED
    BY Zenon, <2>2, FS_CardinalityType DEF TypeOK, NetTypeOK
<1> QED
  BY <1>1, <1>2, <1>3 DEF CreditConservation

\* Steps of the server leave the client's lists alone.
LEMMA ServerDiscipline ==
    ASSUME IInv, client' = client PROVE SlotDiscipline'
BY Zenon DEF IInv, SlotDiscipline, client, cslot, crpc, csess
-------------------------------------------------------------------------------
(* A request packet: the server counts it, and returns its credit unless   *)
(* the request is now complete.                                            *)
LEMMA InvReqPacket ==
    ASSUME IInv, TypeOK', InOrder, NEW p \in Deliverable(c2s), NEW s, s = p.slot,
           p.type = "req",
           c2s' = c2s \ {p}, client' = client, stx' = stx,
           snum' = [snum EXCEPT ![s] = cnum[s]],
           snum_rx' = [snum_rx EXCEPT ![s] = Rcvd(s) + 1],
           \/ /\ Rcvd(s) + 1 = ctx[s] /\ s2c' = s2c
              /\ \E h \in {"fg", "bg"} : sreq' = [sreq EXCEPT ![s] = h]
           \/ Rcvd(s) + 1 < ctx[s] /\ s2c' = s2c \cup {Reply(s, Rcvd(s))} /\ sreq' = sreq
    PROVE  IInv'
<1>1. /\ s \in Slots /\ p \in c2s /\ ctx[s] # 0 /\ Busy(s)
      /\ Rcvd(s) < num_tx[s] /\ p = Sent(s, Rcvd(s))
      /\ \E lo \in 0 .. num_tx[s] : Window(s, lo)
  BY Zenon, RequestFacts
<1>2. PICK lo \in 0 .. num_tx[s] : Window(s, lo)
  BY Zenon, <1>1
<1>3. /\ ctx[s] \in Nat /\ cnum[s] \in Nat /\ num_tx[s] \in Nat /\ Rcvd(s) \in Nat
      /\ Replied(s) \in Int /\ num_rx[s] \in Nat /\ snum[s] \in Nat /\ lo \in Nat
      /\ snum \in [Slots -> Nat] /\ snum_rx \in [Slots -> Nat]
      /\ sreq \in [Slots -> {"invalid", "fg", "bg"}]
  <2>1. TypeOK
    BY Zenon DEF IInv
  <2>2. /\ ctx[s] \in Nat /\ cnum[s] \in Nat /\ num_tx[s] \in Nat /\ Rcvd(s) \in Nat
        /\ Replied(s) \in Int /\ num_rx[s] \in Nat /\ snum[s] \in Nat
    BY Zenon, <1>1, <2>1, SlotTypes
  <2> QED
    BY <1>2, <2>1, <2>2, SMTT(60) DEF TypeOK, ServerTypeOK
<1>4. Rcvd(s) < ctx[s]
  BY <1>1, <1>3, SMTT(30) DEF Sent, Pkt
<1>5. Phase(s) /\ sreq[s] = "invalid" /\ Replied(s) = Rcvd(s) /\ num_tx[s] <= ctx[s]
  <2>1. Phase(s)
    BY Zenon, <1>1 DEF Busy
  <2>2. sreq[s] = "invalid" /\ num_tx[s] <= ctx[s]
    BY <1>3, <1>4, <2>1 DEF Phase, Answered
  <2> QED
    BY Zenon, <2>1, <2>2 DEF Replied
<1>6. UNCHANGED <<ctx, cnum, num_tx, num_rx, stallq, credits>>
  BY Zenon DEF client, cslot, crpc, csess
<1>7. /\ snum'[s] = cnum'[s] /\ snum_rx'[s] = Rcvd(s) + 1 /\ Rcvd(s)' = Rcvd(s) + 1
  BY Zenon, <1>1, <1>3, <1>6 DEF Rcvd
<1>8. /\ OfSlot(c2s, s) = {Sent(s, i) : i \in Rcvd(s) .. (num_tx[s] - 1)}
      /\ OfSlot(s2c, s) = {Reply(s, i) : i \in lo .. (Rcvd(s) - 1)}
      /\ lo <= Rcvd(s)
  BY Zenon, <1>2, <1>5 DEF Window
<1>9. OfSlot(c2s', s) = {Sent(s, i) : i \in (Rcvd(s) + 1) .. (num_tx[s] - 1)}
  <2>1. OfSlot(c2s \ {Sent(s, Rcvd(s))}, s)
          = {Sent(s, i) : i \in (Rcvd(s) + 1) .. (num_tx[s] - 1)}
    BY <1>3, <1>8, WindowReceive
  <2> QED
    BY Zenon, <1>1, <2>1
<1>10. /\ Reply(s, Rcvd(s)) \notin s2c
       /\ OfSlot(s2c \cup {Reply(s, Rcvd(s))}, s) = {Reply(s, i) : i \in lo .. Rcvd(s)}
  BY <1>3, <1>8, WindowReply
<1>11. /\ Rcvd(s) + 1 = ctx[s] => Replied(s)' = Rcvd(s) /\ sreq'[s] # "invalid"
       /\ Rcvd(s) + 1 < ctx[s] => Replied(s)' = Rcvd(s) + 1 /\ sreq'[s] = "invalid"
  <2>1. ASSUME Rcvd(s) + 1 = ctx[s] PROVE Replied(s)' = Rcvd(s) /\ sreq'[s] # "invalid"
    <3>1. \E h \in {"fg", "bg"} : sreq' = [sreq EXCEPT ![s] = h]
      BY <1>3, <2>1
    <3>2. sreq'[s] # "invalid"
      BY Zenon, <1>1, <1>3, <3>1
    <3>3. Replied(s)' = Rcvd(s)' - 1
      BY Zenon, <3>2, Zenon DEF Replied
    <3> QED
      BY <1>3, <1>7, <3>2, <3>3
  <2>2. ASSUME Rcvd(s) + 1 < ctx[s] PROVE Replied(s)' = Rcvd(s) + 1 /\ sreq'[s] = "invalid"
    <3>1. sreq' = sreq
      BY <1>3, <2>2
    <3>2. sreq'[s] = "invalid"
      BY Zenon, <1>5, <3>1
    <3>3. Replied(s)' = Rcvd(s)'
      BY Zenon, <3>2, Zenon DEF Replied
    <3> QED
      BY Zenon, <1>7, <3>2, <3>3
  <2> QED
    BY Zenon, <2>1, <2>2
<1>12. OfSlot(s2c', s) = {Reply(s, i) : i \in lo .. (Replied(s)' - 1)}
  <2>1. CASE Rcvd(s) + 1 = ctx[s]
    <3>1. s2c' = s2c /\ Replied(s)' = Rcvd(s)
      BY Zenon, <1>3, <1>11, <2>1
    <3> QED
      BY Zenon, <1>8, <3>1
  <2>2. CASE Rcvd(s) + 1 < ctx[s]
    <3>1. s2c' = s2c \cup {Reply(s, Rcvd(s))} /\ Replied(s)' - 1 = Rcvd(s)
      BY <1>3, <1>11, <2>2
    <3> QED
      BY Zenon, <1>10, <3>1
  <2> QED
    BY Zenon, <1>3, <1>4, <2>1, <2>2
<1>13. SlotInv(s)'
  <2>1. \A i : Sent(s, i)' = Sent(s, i) /\ Reply(s, i)' = Reply(s, i)
    BY Zenon, <1>6 DEF Sent, Reply, Pkt
  <2>2. OfSlot(c2s, s)' = {Sent(s, i)' : i \in Rcvd(s)' .. (num_tx'[s] - 1)}
    BY <1>6, <1>7, <1>9, <2>1 DEF OfSlot
  <2>3. OfSlot(s2c, s)' = {Reply(s, i)' : i \in lo .. (Replied(s)' - 1)}
    BY <1>12, <2>1 DEF OfSlot
  <2>4. lo <= Replied(s)' /\ Rcvd(s)' <= num_tx'[s]
    <3>1. lo <= Rcvd(s) /\ Rcvd(s) < num_tx[s]
      BY Zenon, <1>1, <1>8
    <3>2. num_tx'[s] = num_tx[s] /\ Rcvd(s)' = Rcvd(s) + 1
      BY Zenon, <1>6, <1>7
    <3>3. Replied(s)' = Rcvd(s) \/ Replied(s)' = Rcvd(s) + 1
      BY Zenon, <1>3, <1>4, <1>11
    <3>4. lo \in Nat /\ Rcvd(s) \in Nat /\ num_tx[s] \in Nat
      BY Zenon, <1>3
    <3> QED
      BY <3>1, <3>2, <3>3, <3>4
  <2>5. /\ (num_rx[s] = 0 => lo < ctx[s])'
        /\ (num_rx[s] > 0 => lo = ctx[s] - 1 + num_rx[s])'
        /\ (s \notin Range(stallq) => lo < num_tx[s])'
    BY Zenon, <1>2, <1>6 DEF Window
  <2>6. Window(s, lo)'
    BY Zenon, <2>2, <2>3, <2>4, <2>5 DEF Window
  <2>7. Phase(s)'
    <3>1. ctx'[s] = ctx[s] /\ num_tx'[s] = num_tx[s] /\ Rcvd(s)' = Rcvd(s) + 1
      BY Zenon, <1>6, <1>7
    <3>2. ~ (num_tx'[s] > ctx'[s])
      BY <1>3, <1>5, <3>1
    <3>3. /\ sreq'[s] # "invalid" => Rcvd(s)' = ctx'[s]
          /\ ~ (Rcvd(s)' >= ctx'[s] /\ sreq'[s] = "invalid")
      <4>1. CASE Rcvd(s) + 1 = ctx[s]
        BY Zenon, <1>11, <3>1, <4>1
      <4>2. CASE Rcvd(s) + 1 < ctx[s]
        <5>1. ~ (Rcvd(s)' >= ctx'[s])
          BY <1>3, <3>1, <4>2
        <5> QED
          BY Zenon, <1>11, <4>2, <5>1
      <4> QED
        BY Zenon, <1>3, <1>4, <4>1, <4>2
    <3> QED
      BY Zenon, <3>2, <3>3, Zenon DEF Phase, Answered
  <2> QED
    <3>1. ctx'[s] # 0 /\ lo \in 0 .. num_tx'[s] /\ snum'[s] = cnum'[s]
      BY Zenon, <1>1, <1>2, <1>6, <1>7
    <3>2. snum_rx'[s] > 0
      BY <1>3, <1>7
    <3> QED
      BY Zenon, <2>6, <2>7, <3>1, <3>2, BusyAgain
<1>14. ASSUME NEW t \in Slots, t # s PROVE SlotInv(t)'
  <2>1. OfSlot(c2s', t) = OfSlot(c2s, t)
    BY Zenon, <1>14 DEF OfSlot
  <2>2. OfSlot(s2c', t) = OfSlot(s2c, t)
    <3>1. Reply(s, Rcvd(s)).slot = s
      BY Zenon DEF Reply, Pkt
    <3> QED
      BY Zenon, <1>14, <3>1 DEF OfSlot
  <2>3. snum'[t] = snum[t] /\ snum_rx'[t] = snum_rx[t] /\ sreq'[t] = sreq[t]
    BY Zenon, <1>3, <1>14
  <2> QED
    BY Zenon, <1>6, <1>14, <2>1, <2>2, <2>3, SlotFrame DEF IInv
<1>15. CreditConservation'
  <2>1. /\ Cardinality(s2c) \in Nat /\ IsFiniteSet(Pending) /\ Cardinality(Pending) \in Nat
        /\ IsFiniteSet(s2c)
    BY Zenon, CreditTypes DEF IInv, TypeOK, NetTypeOK
  <2>2. CASE Rcvd(s) + 1 = ctx[s]
    <3>1. s2c' = s2c /\ \E h \in {"fg", "bg"} : sreq' = [sreq EXCEPT ![s] = h]
      BY <1>3, <2>2
    <3>2. Pending' = Pending \cup {s} /\ s \notin Pending
      <4>1. sreq'[s] # "invalid" /\ \A t \in Slots \ {s} : sreq'[t] = sreq[t]
        BY Zenon, <1>1, <1>3, <3>1
      <4> QED
        BY Zenon, <1>1, <1>5, <4>1 DEF Pending
    <3>3. Cardinality(Pending') = Cardinality(Pending) + 1
      BY Zenon, <2>1, <3>2, FS_AddElement
    <3>4. Cardinality(s2c') + Cardinality(Pending')
            = Cardinality(s2c) + Cardinality(Pending) + 1
      BY <2>1, <3>1, <3>3
    <3> QED
      BY Zenon, <1>1, <1>6, <3>4, CreditRequest
  <2>3. CASE Rcvd(s) + 1 < ctx[s]
    <3>1. s2c' = s2c \cup {Reply(s, Rcvd(s))} /\ sreq' = sreq
      BY <1>3, <2>3, SMTT(30)
    <3>2. Cardinality(s2c') = Cardinality(s2c) + 1
      BY Zenon, <1>10, <2>1, <3>1, FS_AddElement
    <3>3. Pending' = Pending
      BY Zenon, <3>1, PendingFrame
    <3>4. Cardinality(s2c') + Cardinality(Pending')
            = Cardinality(s2c) + Cardinality(Pending) + 1
      BY <2>1, <3>2, <3>3
    <3> QED
      BY <1>1, <1>6, <3>4, CreditRequest
  <2> QED
    BY Zenon, <1>3, <1>4, <2>2, <2>3
<1> QED
  BY Zenon, <1>13, <1>14, <1>15, ServerDiscipline DEF IInv
\* process_small_req_st preserves the invariant on an in-order network.
LEMMA InvSmallReq ==
    ASSUME IInv, InOrder, NEW p \in Deliverable(c2s), NEW bg \in BOOLEAN,
           ProcessSmallReq(p, bg)
    PROVE  IInv'
<1>0. PICK s : s = p.slot
  BY Zenon
<1>1. /\ s \in Slots /\ p \in c2s /\ ctx[s] # 0 /\ Busy(s)
      /\ Rcvd(s) < num_tx[s] /\ p = Sent(s, Rcvd(s))
  BY Zenon, <1>0, RequestFacts
<1>2. TypeOK /\ TypeOK' /\ ctx[s] \in Nat /\ Rcvd(s) \in Nat
  BY Zenon, <1>1, TypeSmallReq, SlotTypes DEF IInv
<1>3. p.type = "req" /\ p.total = 1
  BY Zenon DEF ProcessSmallReq
<1>4. ctx[s] = 1 /\ Rcvd(s) = 0 /\ p.num = cnum[s]
  BY <1>1, <1>2, <1>3 DEF Sent, Pkt
<1>5. /\ snum' = [snum EXCEPT ![s] = cnum[s]]
      /\ snum_rx' = [snum_rx EXCEPT ![s] = 1]
      /\ sreq' = [sreq EXCEPT ![s] = IF bg THEN "bg" ELSE "fg"]
      /\ c2s' = c2s \ {p} /\ s2c' = s2c /\ client' = client /\ stx' = stx
  BY Zenon, <1>0, <1>4 DEF ProcessSmallReq
<1>6. Rcvd(s) + 1 = ctx[s] /\ snum_rx' = [snum_rx EXCEPT ![s] = Rcvd(s) + 1]
  BY <1>4, <1>5
<1>7. \E h \in {"fg", "bg"} : sreq' = [sreq EXCEPT ![s] = h]
  BY Zenon, <1>5
<1> QED
  BY Zenon, <1>0, <1>2, <1>3, <1>5, <1>6, <1>7, InvReqPacket, Zenon

\* process_large_req_one_st preserves the invariant on an in-order network.
LEMMA InvLargeReq ==
    ASSUME IInv, InOrder, NEW p \in Deliverable(c2s), NEW bg \in BOOLEAN,
           ProcessLargeReq(p, bg)
    PROVE  IInv'
<1>0. PICK s : s = p.slot
  OBVIOUS
<1>1. /\ s \in Slots /\ p \in c2s /\ ctx[s] # 0 /\ Busy(s)
      /\ Rcvd(s) < num_tx[s] /\ p = Sent(s, Rcvd(s))
  BY <1>0, RequestFacts
<1>2. TypeOK /\ TypeOK' /\ ctx[s] \in Nat /\ Rcvd(s) \in Nat /\ snum_rx[s] \in Nat
  BY Zenon, <1>1, TypeLargeReq, SlotTypes DEF IInv
<1>3. p.type = "req" /\ p.total > 1
  BY Zenon DEF ProcessLargeReq
<1>4. p.total = ctx[s] /\ p.pkt = Rcvd(s) /\ p.num = cnum[s] /\ Rcvd(s) < ctx[s]
  BY Zenon, <1>1, <1>2, <1>3 DEF Sent, Pkt
<1>5. PICK rx : rx = IF p.pkt = 0 THEN 1 ELSE snum_rx[s] + 1
  BY Zenon
<1>6. /\ snum' = IF p.pkt = 0 THEN [snum EXCEPT ![s] = p.num] ELSE snum
      /\ snum_rx' = [snum_rx EXCEPT ![s] = rx]
      /\ s2c' = IF NeedsCr(p)
                THEN s2c \cup {Pkt("cr", s, p.num, p.pkt, 0)} ELSE s2c
      /\ sreq' = IF HaveAll(rx, p.total)
                 THEN [sreq EXCEPT ![s] = IF bg THEN "bg" ELSE "fg"] ELSE sreq
      /\ c2s' = c2s \ {p} /\ client' = client /\ stx' = stx
  BY Zenon, <1>0, <1>5, Zenon DEF ProcessLargeReq
<1>7. rx = Rcvd(s) + 1 /\ (Rcvd(s) # 0 => snum[s] = cnum[s])
  BY <1>2, <1>4, <1>5, SMTT(30) DEF Rcvd
<1>8. snum' = [snum EXCEPT ![s] = cnum[s]]
  BY Zenon, <1>1, <1>2, <1>4, <1>6, <1>7 DEF TypeOK, ServerTypeOK
<1>9. snum_rx' = [snum_rx EXCEPT ![s] = Rcvd(s) + 1]
  BY Zenon, <1>6, <1>7
<1>10. CASE Rcvd(s) + 1 = ctx[s]
  <2>1. s2c' = s2c /\ sreq' = [sreq EXCEPT ![s] = IF bg THEN "bg" ELSE "fg"]
    <3>1. ~ NeedsCr(p) /\ HaveAll(rx, p.total)
      BY <1>2, <1>4, <1>7, <1>10, SMTT(30) DEF NeedsCr, HaveAll
    <3> QED
      BY Zenon, <1>6, <3>1, Zenon
  <2>2. \E h \in {"fg", "bg"} : sreq' = [sreq EXCEPT ![s] = h]
    BY Zenon, <2>1
  <2> QED
    BY Zenon, <1>0, <1>2, <1>3, <1>6, <1>8, <1>9, <1>10, <2>1, <2>2, InvReqPacket, Zenon
<1>11. CASE Rcvd(s) + 1 < ctx[s]
  <2>1. s2c' = s2c \cup {Pkt("cr", s, cnum[s], Rcvd(s), 0)} /\ sreq' = sreq
    BY <1>2, <1>4, <1>6, <1>7, <1>11 DEF NeedsCr, HaveAll
  <2>2. Reply(s, Rcvd(s)) = Pkt("cr", s, cnum[s], Rcvd(s), 0)
    BY <1>2, <1>11 DEF Reply
  <2>3. s2c' = s2c \cup {Reply(s, Rcvd(s))}
    BY Zenon, <2>1, <2>2
  <2> QED
    BY Zenon, <1>0, <1>2, <1>3, <1>6, <1>8, <1>9, <1>11, <2>1, <2>3, InvReqPacket, Zenon
<1> QED
  BY <1>2, <1>4, <1>10, <1>11

\* enqueue_response preserves the invariant.
LEMMA InvEnqueueResponse ==
    ASSUME IInv, NEW s \in Slots, NEW total \in 1 .. MaxRespPkts, EnqueueResponse(s, total)
    PROVE  IInv'
<1>1. TypeOK /\ TypeOK' /\ CreditConservation
  BY Zenon, TypeEnqueueResponse DEF IInv
<1>2. /\ ctx[s] \in Nat /\ cnum[s] \in Nat /\ num_tx[s] \in Nat /\ Rcvd(s) \in Nat
      /\ Replied(s) \in Int /\ num_rx[s] \in Nat /\ snum[s] \in Nat /\ snum_rx[s] \in Nat
      /\ total \in Nat /\ total > 0
  BY <1>1, SlotTypes, SizeAssumption
<1>3. stx \in [Slots -> [num : Nat, total : Nat]] /\ sreq \in [Slots -> {"invalid", "fg", "bg"}]
  BY Zenon, <1>1 DEF TypeOK, ServerTypeOK
<1>4. /\ sreq[s] = "fg"
      /\ stx' = [stx EXCEPT ![s] = [num |-> snum[s], total |-> total]]
      /\ sreq' = [sreq EXCEPT ![s] = "invalid"]
      /\ s2c' = s2c \cup {Pkt("resp", s, snum[s], 0, total)}
      /\ UNCHANGED <<snum, snum_rx, client, c2s>>
  BY Zenon DEF EnqueueResponse
<1>5. ctx[s] # 0 /\ Busy(s)
  BY Zenon, <1>4 DEF IInv, SlotInv, Idle
<1>6. PICK lo \in 0 .. num_tx[s] : Window(s, lo)
  BY Zenon, <1>5 DEF Busy
<1>7. /\ Rcvd(s) = ctx[s] /\ num_tx[s] = ctx[s] /\ num_rx[s] = 0 /\ Replied(s) = ctx[s] - 1
      /\ snum[s] = cnum[s] /\ lo \in Nat /\ lo <= ctx[s] - 1
  <2>1. Rcvd(s) = ctx[s] /\ Replied(s) = ctx[s] - 1
    BY Zenon, <1>4, <1>5 DEF Busy, Phase, Replied
  <2>2. num_tx[s] = ctx[s]
    <3>1. Phase(s)
      BY Zenon, <1>5, Zenon DEF Busy
    <3>2. ~ (num_tx[s] > ctx[s])
      BY Zenon, <1>4, <3>1 DEF Phase, Answered
    <3>3. Rcvd(s) <= num_tx[s]
      BY Zenon, <1>6, Zenon DEF Window
    <3> QED
      BY <1>2, <2>1, <3>2, <3>3
  <2>3. num_rx[s] = 0 /\ lo \in Nat /\ lo <= ctx[s] - 1
    BY <1>2, <1>6, <2>1, SMTT(30) DEF Window
  <2>4. snum[s] = cnum[s]
    BY Zenon, <1>5, <2>1 DEF Rcvd
  <2> QED
    BY Zenon, <2>1, <2>2, <2>3, <2>4
<1>8. UNCHANGED <<ctx, cnum, num_tx, num_rx, stallq, credits>>
  BY Zenon, <1>4 DEF client, cslot, crpc, csess
<1>9. stx'[s].num = cnum[s] /\ stx'[s].total = total /\ sreq'[s] = "invalid"
  BY Zenon, <1>3, <1>4, <1>7
<1>10. Rcvd(s)' = ctx[s] /\ Replied(s)' = ctx[s]
  BY Zenon, <1>4, <1>7, <1>8, <1>9 DEF Rcvd, Replied
<1>11. /\ OfSlot(c2s, s) = {Sent(s, i) : i \in Rcvd(s) .. (num_tx[s] - 1)}
       /\ OfSlot(s2c, s) = {Reply(s, i) : i \in lo .. (Replied(s) - 1)}
  BY Zenon, <1>6 DEF Window
<1>12. /\ Pkt("resp", s, snum[s], 0, total) \notin s2c
       /\ OfSlot(s2c', s) = {Reply(s, i)' : i \in lo .. (ctx[s] - 1)}
  <2>1. \A i \in lo .. (ctx[s] - 2) : Reply(s, i) = Pkt("cr", s, cnum[s], i, 0)
                                      /\ Reply(s, i)' = Reply(s, i)
    <3>1. ctx'[s] = ctx[s] /\ cnum'[s] = cnum[s]
      BY Zenon, <1>8
    <3>2. \A i \in lo .. (ctx[s] - 2) : i < ctx[s] - 1
      BY <1>2, <1>7
    <3> QED
      BY Zenon, <3>1, <3>2, Zenon DEF Reply
  <2>0. PICK m \in Int : m = ctx[s] - 1
    BY <1>2
  <2>2. Reply(s, m)' = Pkt("resp", s, snum[s], 0, total)
    <3>1. ctx'[s] = ctx[s] /\ cnum'[s] = snum[s] /\ stx'[s].total = total
      BY Zenon, <1>7, <1>8, <1>9
    <3>2. ~ (m < ctx'[s] - 1) /\ m - ctx'[s] + 1 = 0
      <4>1. m = ctx'[s] - 1 /\ ctx'[s] \in Nat
        BY Zenon, <1>2, <2>0, <3>1
      <4> QED
        BY <4>1
    <3> QED
      BY Zenon, <3>1, <3>2 DEF Reply
  <2>3. OfSlot(s2c, s) = {Reply(s, i) : i \in lo .. (ctx[s] - 2)}
    <3>1. Replied(s) - 1 = ctx[s] - 2
      BY <1>2, <1>7
    <3> QED
      BY Zenon, <1>11, <3>1
  <2>4. Pkt("resp", s, snum[s], 0, total) \notin OfSlot(s2c, s)
    <3>1. \A i : Pkt("resp", s, snum[s], 0, total) # Pkt("cr", s, cnum[s], i, 0)
      BY Zenon DEF Pkt
    <3> QED
      BY Zenon, <2>1, <2>3, <3>1, Zenon
  <2>5. Pkt("resp", s, snum[s], 0, total) \notin s2c
    BY Zenon, <2>4 DEF OfSlot, Pkt
  <2>6. OfSlot(s2c', s) = OfSlot(s2c, s) \cup {Pkt("resp", s, snum[s], 0, total)}
    BY <1>4, SMTT(30) DEF OfSlot, Pkt
  <2>7. lo .. (ctx[s] - 1) = (lo .. (ctx[s] - 2)) \cup {m}
    BY <1>2, <1>7, <2>0
  <2>8. {Reply(s, i)' : i \in lo .. (ctx[s] - 1)}
          = {Reply(s, i)' : i \in lo .. (ctx[s] - 2)} \cup {Reply(s, m)'}
    BY Zenon, <2>7
  <2>9. {Reply(s, i)' : i \in lo .. (ctx[s] - 2)} = OfSlot(s2c, s)
    BY Zenon, <2>1, <2>3
  <2> QED
    BY Zenon, <2>2, <2>5, <2>6, <2>8, <2>9
<1>13. SlotInv(s)'
  <2>1. OfSlot(c2s, s)' = {Sent(s, i)' : i \in Rcvd(s)' .. (num_tx'[s] - 1)}
    <3>1. \A i : Sent(s, i)' = Sent(s, i)
      BY Zenon, <1>8 DEF Sent, Pkt
    <3> QED
      <4>1. Rcvd(s)' = Rcvd(s) /\ num_tx'[s] = num_tx[s]
        BY Zenon, <1>7, <1>8, <1>10
      <4>2. OfSlot(c2s, s)' = OfSlot(c2s, s)
        BY Zenon, <1>4 DEF OfSlot
      <4> QED
        BY Zenon, <1>11, <3>1, <4>1, <4>2
  <2>2. OfSlot(s2c, s)' = {Reply(s, i)' : i \in lo .. (Replied(s)' - 1)}
    BY Zenon, <1>10, <1>12 DEF OfSlot
  <2>3. /\ lo <= Replied(s)' /\ Rcvd(s)' <= num_tx'[s] /\ num_rx'[s] = 0 /\ lo < ctx'[s]
        /\ lo < num_tx'[s]
    <3>1. num_tx'[s] = num_tx[s] /\ num_rx'[s] = num_rx[s] /\ ctx'[s] = ctx[s]
      BY Zenon, <1>8
    <3>2. lo \in Nat /\ ctx[s] \in Nat /\ lo <= ctx[s] - 1 /\ num_tx[s] = ctx[s] /\ num_rx[s] = 0
      BY Zenon, <1>2, <1>7
    <3>3. lo <= ctx[s] /\ lo < ctx[s] /\ ctx[s] <= ctx[s]
      BY <3>2
    <3> QED
      BY Zenon, <1>10, <3>1, <3>2, <3>3, Zenon
  <2>4. Window(s, lo)'
    <3>1. ~ (num_rx'[s] > 0)
      BY <2>3, SMTT(30)
    <3> QED
      BY Zenon, <2>1, <2>2, <2>3, <3>1, Zenon DEF Window
  <2>5. Phase(s)'
    <3>1. /\ num_tx'[s] = num_tx[s] /\ num_rx'[s] = num_rx[s] /\ ctx'[s] = ctx[s]
          /\ cnum'[s] = cnum[s]
      BY Zenon, <1>8
    <3>2. /\ ~ (num_tx'[s] > ctx'[s]) /\ num_tx'[s] < ctx'[s] + stx'[s].total
          /\ num_rx'[s] < stx'[s].total /\ stx'[s].num = cnum'[s]
      BY <1>2, <1>7, <1>9, <3>1
    <3> QED
      BY Zenon, <1>9, <3>2, Zenon DEF Phase
  <2> QED
    <3>1. ctx'[s] # 0 /\ lo \in 0 .. num_tx'[s] /\ snum'[s] = cnum'[s]
      BY Zenon, <1>4, <1>5, <1>6, <1>7, <1>8
    <3>2. snum_rx'[s] > 0
      BY Zenon, <1>4, <1>5, <1>7 DEF Busy
    <3> QED
      BY Zenon, <2>4, <2>5, <3>1, <3>2, BusyAgain
<1>14. ASSUME NEW t \in Slots, t # s PROVE SlotInv(t)'
  <2>1. OfSlot(s2c', t) = OfSlot(s2c, t)
    <3>1. Pkt("resp", s, snum[s], 0, total).slot # t
      BY Zenon, <1>14 DEF Pkt
    <3> QED
      BY Zenon, <1>4, <3>1, OtherPacket
  <2>2. stx'[t] = stx[t] /\ sreq'[t] = sreq[t]
    BY Zenon, <1>3, <1>4, <1>14
  <2> QED
    BY Zenon, <1>4, <1>8, <1>14, <2>1, <2>2, SlotFrame DEF IInv
<1>15. CreditConservation'
  <2>1. /\ Cardinality(s2c) \in Nat /\ IsFiniteSet(Pending) /\ Cardinality(Pending) \in Nat
        /\ Cardinality(c2s) \in Nat /\ IsFiniteSet(s2c) /\ credits \in Nat
    BY Zenon, <1>1, CreditTypes DEF TypeOK, NetTypeOK, ClientTypeOK
  <2>2. Pending' = Pending \ {s} /\ s \in Pending
    BY Zenon, <1>3, <1>4 DEF Pending
  <2>3. Cardinality(Pending') = Cardinality(Pending) - 1
    BY Zenon, <2>1, <2>2, FS_RemoveElement
  <2>4. Cardinality(s2c') = Cardinality(s2c) + 1
    BY Zenon, <1>4, <1>12, <2>1, FS_AddElement
  <2> QED
    <3>1. credits + Cardinality(c2s) + Cardinality(s2c) + Cardinality(Pending) = kSessionCredits
      BY Zenon, <1>1, Zenon DEF CreditConservation
    <3>2. credits' = credits /\ Cardinality(c2s') = Cardinality(c2s)
      BY Zenon, <1>4, <1>8
    <3>3. Cardinality(s2c') + Cardinality(Pending') = Cardinality(s2c) + Cardinality(Pending)
      BY <2>1, <2>3, <2>4
    <3>4. Cardinality(s2c') \in Nat /\ Cardinality(Pending') \in Int
      BY <2>1, <2>3, <2>4
    <3> QED
      BY <2>1, <3>1, <3>2, <3>3, <3>4 DEF CreditConservation
<1> QED
  BY Zenon, <1>1, <1>4, <1>13, <1>14, <1>15, ServerDiscipline DEF IInv

(* An RFR: the server sends the next packet of the response.               *)
LEMMA InvRfr ==
    ASSUME IInv, InOrder, NEW p \in Deliverable(c2s), ProcessRfr(p) PROVE IInv'
<1>0. PICK s : s = p.slot
  BY Zenon
<1>1. /\ s \in Slots /\ p \in c2s /\ ctx[s] # 0 /\ Busy(s)
      /\ Rcvd(s) < num_tx[s] /\ p = Sent(s, Rcvd(s))
      /\ \E lo \in 0 .. num_tx[s] : Window(s, lo)
  BY Zenon, <1>0, RequestFacts
<1>2. PICK lo \in 0 .. num_tx[s] : Window(s, lo)
  BY Zenon, <1>1
<1>3. /\ ctx[s] \in Nat /\ cnum[s] \in Nat /\ num_tx[s] \in Nat /\ Rcvd(s) \in Nat
      /\ Replied(s) \in Int /\ num_rx[s] \in Nat /\ snum[s] \in Nat /\ lo \in Nat
      /\ snum_rx[s] \in Nat /\ snum_rx \in [Slots -> Nat] /\ TypeOK /\ TypeOK'
  <2>1. TypeOK /\ TypeOK'
    BY Zenon, <1>1, TypeRfr DEF IInv
  <2>2. /\ ctx[s] \in Nat /\ cnum[s] \in Nat /\ num_tx[s] \in Nat /\ Rcvd(s) \in Nat
        /\ Replied(s) \in Int /\ num_rx[s] \in Nat /\ snum[s] \in Nat /\ snum_rx[s] \in Nat
    BY Zenon, <1>1, <2>1, SlotTypes
  <2>3. snum_rx \in [Slots -> Nat]
    BY Zenon, <2>1 DEF TypeOK, ServerTypeOK
  <2> QED
    BY <1>2, <2>1, <2>2, <2>3
<1>4. /\ p.type = "rfr" /\ c2s' = c2s \ {p}
      /\ snum_rx' = [snum_rx EXCEPT ![s] = @ + 1]
      /\ s2c' = s2c \cup {Pkt("resp", s, stx[s].num, p.pkt, stx[s].total)}
      /\ UNCHANGED <<snum, sreq, stx, client>>
  BY Zenon, <1>0 DEF ProcessRfr
<1>5. Rcvd(s) >= ctx[s] /\ p.pkt = Rcvd(s) - ctx[s] + 1
  <2>1. p = Sent(s, Rcvd(s)) /\ p.type = "rfr"
    BY Zenon, <1>1, <1>4
  <2>2. ~ (Rcvd(s) < ctx[s])
    BY Zenon, <2>1 DEF Sent, Pkt
  <2>3. p.pkt = Rcvd(s) - ctx[s] + 1
    BY Zenon, <2>1, <2>2 DEF Sent, Pkt
  <2> QED
    BY <1>3, <2>2, <2>3
<1>6. /\ Phase(s) /\ Answered(s) /\ Replied(s) = Rcvd(s) /\ stx[s].num = cnum[s]
      /\ snum[s] = cnum[s]
  <2>1. Phase(s)
    BY Zenon, <1>1 DEF Busy
  <2>2. Answered(s)
    <3>1. num_tx[s] > ctx[s]
      <4>1. Rcvd(s) >= ctx[s] /\ Rcvd(s) < num_tx[s]
        BY Zenon, <1>1, <1>5
      <4>2. Rcvd(s) \in Nat /\ ctx[s] \in Nat /\ num_tx[s] \in Nat
        BY Zenon, <1>3
      <4> QED
        BY <4>1, <4>2
    <3> QED
      BY Zenon, <2>1, <3>1, Zenon DEF Phase
  <2>3. Replied(s) = Rcvd(s) /\ stx[s].num = cnum[s]
    BY Zenon, <2>1, <2>2 DEF Phase, Answered, Replied
  <2>4. snum[s] = cnum[s]
    BY <1>1, <1>3, <1>5, SMTT(30) DEF Rcvd
  <2> QED
    BY Zenon, <2>1, <2>2, <2>3, <2>4
<1>7. UNCHANGED <<ctx, cnum, num_tx, num_rx, stallq, credits>>
  BY Zenon, <1>4 DEF client, cslot, crpc, csess
<1>8. Rcvd(s)' = Rcvd(s) + 1 /\ Replied(s)' = Rcvd(s) + 1 /\ snum_rx'[s] > 0
  <2>1. sreq[s] = "invalid" /\ snum[s] = cnum[s] /\ snum_rx[s] \in Nat
    BY Zenon, <1>3, <1>6 DEF Answered
  <2>2. snum'[s] = cnum'[s] /\ sreq'[s] = "invalid" /\ snum_rx'[s] = snum_rx[s] + 1
    BY Zenon, <1>1, <1>3, <1>4, <1>7, <2>1
  <2>3. Rcvd(s) = snum_rx[s] /\ Rcvd(s)' = snum_rx'[s] /\ Replied(s)' = Rcvd(s)'
    BY Zenon, <2>1, <2>2 DEF Rcvd, Replied
  <2>4. snum_rx[s] + 1 > 0
    BY <2>1
  <2> QED
    BY Zenon, <2>2, <2>3, <2>4, Zenon
<1>9. s2c' = s2c \cup {Reply(s, Rcvd(s))}
  <2>1. Reply(s, Rcvd(s)) = Pkt("resp", s, stx[s].num, p.pkt, stx[s].total)
    <3>1. ~ (Rcvd(s) < ctx[s] - 1)
      <4>1. Rcvd(s) >= ctx[s] /\ Rcvd(s) \in Nat /\ ctx[s] \in Nat
        BY Zenon, <1>3, <1>5
      <4> QED
        BY <4>1, SMTT(30)
    <3> QED
      BY Zenon, <1>5, <1>6, <3>1 DEF Reply
  <2> QED
    BY Zenon, <1>4, <2>1
<1>10. /\ OfSlot(c2s, s) = {Sent(s, i) : i \in Rcvd(s) .. (num_tx[s] - 1)}
       /\ OfSlot(s2c, s) = {Reply(s, i) : i \in lo .. (Rcvd(s) - 1)}
       /\ lo <= Rcvd(s)
  BY Zenon, <1>2, <1>6 DEF Window
<1>11. OfSlot(c2s', s) = {Sent(s, i) : i \in (Rcvd(s) + 1) .. (num_tx[s] - 1)}
  <2>1. OfSlot(c2s \ {Sent(s, Rcvd(s))}, s)
          = {Sent(s, i) : i \in (Rcvd(s) + 1) .. (num_tx[s] - 1)}
    BY Zenon, <1>3, <1>10, WindowReceive
  <2> QED
    BY Zenon, <1>1, <1>4, <2>1
<1>12. /\ Reply(s, Rcvd(s)) \notin s2c
       /\ OfSlot(s2c', s) = {Reply(s, i) : i \in lo .. Rcvd(s)}
  BY Zenon, <1>3, <1>9, <1>10, WindowReply
<1>13. SlotInv(s)'
  <2>1. \A i : Sent(s, i)' = Sent(s, i) /\ Reply(s, i)' = Reply(s, i)
    BY Zenon, <1>4, <1>7 DEF Sent, Reply, Pkt
  <2>2. OfSlot(c2s, s)' = {Sent(s, i)' : i \in Rcvd(s)' .. (num_tx'[s] - 1)}
    BY Zenon, <1>7, <1>8, <1>11, <2>1 DEF OfSlot
  <2>3. OfSlot(s2c, s)' = {Reply(s, i)' : i \in lo .. (Replied(s)' - 1)}
    <3>1. Replied(s)' - 1 = Rcvd(s)
      BY <1>3, <1>8
    <3> QED
      BY Zenon, <1>12, <2>1, <3>1 DEF OfSlot
  <2>4. lo <= Replied(s)' /\ Rcvd(s)' <= num_tx'[s]
    <3>1. lo <= Rcvd(s) /\ Rcvd(s) < num_tx[s]
      BY Zenon, <1>1, <1>10
    <3>2. num_tx'[s] = num_tx[s] /\ Rcvd(s)' = Rcvd(s) + 1 /\ Replied(s)' = Rcvd(s) + 1
      BY Zenon, <1>7, <1>8
    <3>3. lo \in Nat /\ Rcvd(s) \in Nat /\ num_tx[s] \in Nat
      BY Zenon, <1>3
    <3> QED
      BY <3>1, <3>2, <3>3
  <2>5. /\ (num_rx[s] = 0 => lo < ctx[s])'
        /\ (num_rx[s] > 0 => lo = ctx[s] - 1 + num_rx[s])'
        /\ (s \notin Range(stallq) => lo < num_tx[s])'
    BY Zenon, <1>2, <1>7 DEF Window
  <2>6. Window(s, lo)'
    BY Zenon, <2>2, <2>3, <2>4, <2>5 DEF Window
  <2>7. Phase(s)'
    <3>1. /\ ctx' = ctx /\ cnum' = cnum /\ num_tx' = num_tx /\ num_rx' = num_rx
          /\ stx' = stx /\ sreq' = sreq
      BY Zenon, <1>4, <1>7
    <3>2. Answered(s)'
      <4>1. Rcvd(s)' >= ctx[s]
        BY <1>3, <1>5, <1>8
      <4> QED
        BY Zenon, <1>6, <3>1, <4>1 DEF Answered
    <3>3. sreq[s] = "invalid"
      BY Zenon, <1>6 DEF Answered
    <3> QED
      BY Zenon, <1>6, <3>1, <3>2, <3>3 DEF Phase
  <2> QED
    <3>1. ctx'[s] # 0 /\ lo \in 0 .. num_tx'[s] /\ snum'[s] = cnum'[s]
      BY Zenon, <1>1, <1>2, <1>4, <1>6, <1>7
    <3> QED
      BY Zenon, <1>8, <2>6, <2>7, <3>1, BusyAgain
<1>14. ASSUME NEW t \in Slots, t # s PROVE SlotInv(t)'
  <2>1. OfSlot(c2s', t) = OfSlot(c2s, t)
    BY Zenon, <1>0, <1>4, <1>14 DEF OfSlot
  <2>2. OfSlot(s2c', t) = OfSlot(s2c, t)
    <3>1. Pkt("resp", s, stx[s].num, p.pkt, stx[s].total).slot # t
      BY Zenon, <1>14 DEF Pkt
    <3> QED
      BY Zenon, <1>4, <3>1, OtherPacket
  <2>3. snum_rx'[t] = snum_rx[t]
    BY Zenon, <1>3, <1>4, <1>14
  <2> QED
    BY Zenon, <1>4, <1>7, <1>14, <2>1, <2>2, <2>3, SlotFrame DEF IInv
<1>15. CreditConservation'
  <2>1. Cardinality(s2c) \in Nat /\ Cardinality(Pending) \in Nat /\ IsFiniteSet(s2c)
    BY Zenon, <1>3, CreditTypes DEF TypeOK, NetTypeOK
  <2>2. Cardinality(s2c') = Cardinality(s2c) + 1
    BY Zenon, <1>9, <1>12, <2>1, FS_AddElement
  <2>3. Pending' = Pending
    BY Zenon, <1>4, PendingFrame
  <2>4. Cardinality(s2c') + Cardinality(Pending')
          = Cardinality(s2c) + Cardinality(Pending) + 1
    BY <2>1, <2>2, <2>3
  <2> QED
    BY Zenon, <1>1, <1>3, <1>4, <1>7, <2>4, CreditRequest
<1> QED
  BY Zenon, <1>3, <1>4, <1>13, <1>14, <1>15, ServerDiscipline DEF IInv

(* The steps that only queue work or kill a process.                       *)
LEMMA InvRest ==
    ASSUME IInv,
           \/ EnqueueBacklog \/ EnqueueRequestInBackground \/ ProcessBgEnqueueRequest
           \/ \E s \in Slots : RunBackgroundHandler(s)
           \/ ProcessBgEnqueueResponse
           \/ UNCHANGED vars
    PROVE  IInv'
<1>1. TypeOK'
  BY Zenon, TypeRest DEF IInv
<1>2. UNCHANGED <<credits, free, ctx, cnum, num_tx, num_rx, active, stallq,
                  snum, snum_rx, sreq, stx, c2s, s2c>>
  BY Zenon DEF EnqueueBacklog, EnqueueRequestInBackground, ProcessBgEnqueueRequest,
         RunBackgroundHandler, ProcessBgEnqueueResponse, Kill, vars, client, server,
         cslot, crpc, csess, sslot
<1> QED
  BY Zenon, <1>1, <1>2, InvFrame

\* Every step preserves the invariant on an in-order network.
LEMMA InvNext == InOrder /\ IInv /\ [Next]_vars => IInv'
<1> SUFFICES ASSUME InOrder, IInv, [Next]_vars PROVE IInv'
  BY Zenon
<1>1. CASE \E total \in 1 .. MaxReqPkts : EnqueueRequest(total)
  BY Zenon, <1>1, InvEnqueueRequest
<1>2. CASE ProcessCreditStallQueue
  BY Zenon, <1>2, InvStallQueue
<1>3. CASE \E p \in Deliverable(s2c) : ClientRx(p)
  BY Zenon, <1>3, InvExplCr, InvSmallResp, InvLargeResp DEF ClientRx
<1>4. CASE \E p \in Deliverable(c2s) : ServerRx(p)
  <2>1. PICK p \in Deliverable(c2s) : ServerRx(p)
    BY Zenon, <1>4
  <2>2. CASE ProcessRfr(p)
    BY Zenon, <2>2, InvRfr
  <2>3. CASE ~ ProcessRfr(p)
    <3>1. PICK bg \in BOOLEAN : ProcessSmallReq(p, bg) \/ ProcessLargeReq(p, bg)
      BY Zenon, <2>1, <2>3, ModeAssumption DEF ServerRx
    <3> QED
      BY Zenon, <3>1, InvSmallReq, InvLargeReq
  <2> QED
    BY Zenon, <2>2, <2>3
<1>5. CASE \E s \in Slots, total \in 1 .. MaxRespPkts : EnqueueResponse(s, total)
  BY Zenon, <1>5, InvEnqueueResponse
<1> QED
  BY Zenon, <1>1, <1>2, <1>3, <1>4, <1>5, InvRest DEF Next
-------------------------------------------------------------------------------
(* The theorems.                                                           *)

(* On a network that keeps the packets of a slot in order, every reachable *)
(* state satisfies the inductive invariant, for any number of credits and  *)
(* slots, any message sizes, and any mix of handlers.                      *)
THEOREM Invariance == ASSUME InOrder PROVE Spec => []IInv
BY InvInit, InvNext, PTL DEF Spec

(* Credits are neither lost nor made: the credits a session does not hold  *)
(* are its packets in flight and its requests being served.                *)
THEOREM CreditsConserved == ASSUME InOrder PROVE Spec => []CreditConservation
<1>1. IInv => CreditConservation
  BY Zenon DEF IInv
<1> QED
  BY <1>1, Invariance, PTL

(* A slot is in the free vector exactly when it has no request, on the     *)
(* active list exactly when it has one, and waits for credits only before  *)
(* its first packet.                                                       *)
THEOREM SlotsDisciplined == ASSUME InOrder PROVE Spec => []SlotDiscipline
<1>1. IInv => SlotDiscipline
  BY Zenon DEF IInv
<1> QED
  BY <1>1, Invariance, PTL

(* No request is forgotten: a slot with a request waits for credits, has a *)
(* packet in flight, or is with the server's request handler.              *)
THEOREM WakeupsNotLost == ASSUME InOrder PROVE Spec => []NoLostWakeup
<1>1. IInv => NoLostWakeup
  <2> SUFFICES ASSUME IInv, NEW s \in active, s \notin Range(stallq), s \notin Pending
               PROVE  InFlight(s) # {}
    BY Zenon DEF NoLostWakeup
  <2>1. TypeOK /\ SlotDiscipline
    BY Zenon DEF IInv
  <2>2. s \in Slots /\ ctx[s] # 0
    BY Zenon, <2>1 DEF TypeOK, ClientTypeOK, SlotDiscipline
  <2>3. Busy(s)
    BY Zenon, <2>2 DEF IInv, SlotInv
  <2>4. PICK lo \in 0 .. num_tx[s] : Window(s, lo)
    BY Zenon, <2>3 DEF Busy
  <2>5. num_tx[s] \in Nat /\ Rcvd(s) \in Nat /\ Replied(s) = Rcvd(s)
    BY Zenon, <2>1, <2>2, SlotTypes DEF Pending, Replied
  <2>6. lo < num_tx[s] /\ lo <= Rcvd(s) /\ Rcvd(s) <= num_tx[s]
    BY Zenon, <2>4, <2>5 DEF Window
  <2>7. CASE lo < Rcvd(s)
    <3>1. Reply(s, lo) \in OfSlot(s2c, s)
      BY <2>4, <2>5, <2>7 DEF Window
    <3> QED
      BY Zenon, <3>1 DEF OfSlot, InFlight
  <2>8. CASE lo = Rcvd(s)
    <3>1. Sent(s, Rcvd(s)) \in OfSlot(c2s, s)
      BY <2>4, <2>5, <2>6, <2>8, SMTT(30) DEF Window
    <3> QED
      BY Zenon, <3>1 DEF OfSlot, InFlight
  <2> QED
    BY <2>5, <2>6, <2>7, <2>8
<1> QED
  BY <1>1, Invariance, PTL

-------------------------------------------------------------------------------
\* What the server is about to process is what its slot expects.
LEMMA ServerExpects == InOrder /\ IInv => ServerInOrder
<1> SUFFICES ASSUME InOrder, IInv, NEW p \in Deliverable(c2s), NEW s, s = p.slot
             PROVE  /\ p.type = "req" /\ p.pkt = 0 => p.num = snum[s] + 1 /\ s \notin Pending
                    /\ p.type = "req" /\ p.pkt > 0 => p.num = snum[s] /\ p.pkt = snum_rx[s]
                    /\ p.type = "rfr" => p.num = stx[s].num /\ p.pkt \in 1 .. (stx[s].total - 1)
  BY Zenon DEF ServerInOrder
<1>1. /\ s \in Slots /\ ctx[s] # 0 /\ Busy(s)
      /\ Rcvd(s) < num_tx[s] /\ p = Sent(s, Rcvd(s))
  BY Zenon, RequestFacts
<1>2. /\ ctx[s] \in Nat /\ num_tx[s] \in Nat /\ Rcvd(s) \in Nat /\ cnum[s] \in Nat
      /\ snum[s] \in Nat /\ snum_rx[s] \in Nat
  BY Zenon, <1>1, SlotTypes DEF IInv
<1>3. stx[s].total \in Nat
  BY Zenon, <1>1 DEF IInv, TypeOK, ServerTypeOK
<1>4. p.num = cnum[s]
  BY <1>1 DEF Sent, Pkt
<1>5. ASSUME p.type = "req" PROVE p.pkt = Rcvd(s)
  BY <1>1, <1>5 DEF Sent, Pkt
<1>6. ASSUME p.type = "rfr"
      PROVE  p.num = stx[s].num /\ p.pkt \in 1 .. (stx[s].total - 1)
  <2>1. ~ (Rcvd(s) < ctx[s]) /\ p.pkt = Rcvd(s) - ctx[s] + 1
    BY <1>1, <1>6 DEF Sent, Pkt
  <2>2. num_tx[s] > ctx[s]
    BY <1>1, <1>2, <2>1
  <2>3. stx[s].num = cnum[s] /\ num_tx[s] < ctx[s] + stx[s].total
    BY Zenon, <1>1, <2>2 DEF Busy, Phase
  <2>4. Rcvd(s) < num_tx[s]
    BY Zenon, <1>1
  <2> QED
    BY <1>2, <1>3, <1>4, <2>1, <2>3, <2>4
<1>7. ASSUME p.type = "req", p.pkt = 0 PROVE p.num = snum[s] + 1 /\ s \notin Pending
  <2>1. Rcvd(s) = 0
    BY Zenon, <1>5, <1>7
  <2>2. /\ snum[s] = cnum[s] => snum_rx[s] > 0
        /\ snum[s] = cnum[s] \/ (snum[s] + 1 = cnum[s] /\ sreq[s] = "invalid")
    BY Zenon, <1>1, Zenon DEF Busy
  <2>3. snum[s] # cnum[s]
    BY <1>2, <2>1, <2>2 DEF Rcvd
  <2> QED
    BY Zenon, <1>4, <2>2, <2>3 DEF Pending
<1>8. ASSUME p.type = "req", p.pkt > 0 PROVE p.num = snum[s] /\ p.pkt = snum_rx[s]
  <2>1. snum[s] = cnum[s]
    BY <1>2, <1>5, <1>8 DEF Rcvd
  <2> QED
    BY Zenon, <1>4, <1>5, <1>8, <2>1 DEF Rcvd
<1> QED
  BY Zenon, <1>6, <1>7, <1>8

\* What the client is about to process belongs to the slot's request.
LEMMA ClientExpects == InOrder /\ IInv => ClientInOrder
<1> SUFFICES ASSUME InOrder, IInv, NEW p \in Deliverable(s2c), NEW s, s = p.slot
             PROVE  /\ s \in active /\ p.num = cnum[s]
                    /\ p.type = "resp" => p.pkt = num_rx[s]
  BY Zenon DEF ClientInOrder
<1>1. /\ s \in Slots /\ ctx[s] # 0
      /\ \E lo \in Nat : lo < Replied(s) /\ Window(s, lo) /\ p = Reply(s, lo)
  BY Zenon, ReplyFacts
<1>2. PICK lo \in Nat : lo < Replied(s) /\ Window(s, lo) /\ p = Reply(s, lo)
  BY Zenon, <1>1
<1>3. ctx[s] \in Nat /\ num_tx[s] \in Nat /\ num_rx[s] \in Nat
  BY Zenon, <1>1, SlotTypes DEF IInv
<1>4. s \in active
  BY Zenon, <1>1 DEF IInv, SlotDiscipline
<1>5. p.num = cnum[s]
  BY <1>2 DEF Reply, Pkt
<1>6. ASSUME p.type = "resp" PROVE p.pkt = num_rx[s]
  <2>1. ~ (lo < ctx[s] - 1) /\ p.pkt = lo - ctx[s] + 1
    BY <1>2, <1>6 DEF Reply, Pkt
  <2>2. (num_rx[s] = 0 => lo < ctx[s]) /\ (num_rx[s] > 0 => lo = ctx[s] - 1 + num_rx[s])
    BY Zenon, <1>2, Zenon DEF Window
  <2> QED
    BY <1>3, <2>1, <2>2
<1> QED
  BY Zenon, <1>4, <1>5, <1>6

(* Neither end needs a reordering check on a network that keeps the        *)
(* packets of a slot in order: the packet process_small_req_st,            *)
(* process_large_req_one_st, process_rfr_st, process_expl_cr_st or         *)
(* process_resp_one_st is about to process is the one its slot expects.    *)
THEOREM NoReordering == ASSUME InOrder PROVE Spec => []PacketsInOrder
<1>1. IInv => PacketsInOrder
  BY Zenon, ServerExpects, ClientExpects DEF PacketsInOrder
<1> QED
  BY <1>1, Invariance, PTL
-------------------------------------------------------------------------------
(* The queues that a dispatch thread takes over from other threads, or     *)
(* from a session that ran out of slots, are empty, and nobody died.       *)
NoHandover ==
    backlog = 0 /\ bgreqs = 0 /\ bgwork = {} /\ bgresp = << >> /\ dead = {}

(* A session that never has more requests than slots, whose requests and   *)
(* responses come from the dispatch threads, follows no null pointer:      *)
(* tx_msgbuf_ is set when a credit return or a response arrives, and only  *)
(* slots with request packets to send wait in the stall queue.             *)
THEOREM NoNull ==
    ASSUME InOrder, MaxBacklog = 0, TRUE \notin Background
    PROVE  Spec => []NoNullDereference
<1>1. Init => NoHandover
  BY Zenon DEF Init, NoHandover
<1>2. ASSUME IInv, NoHandover, [Next]_vars PROVE NoHandover'
  <2>0. TypeOK /\ backlog = 0 /\ bgreqs = 0 /\ bgwork = {} /\ bgresp = << >> /\ dead = {}
    BY Zenon, <1>2 DEF NoHandover, IInv
  <2>1. ~ EnqueueBacklog /\ ~ EnqueueRequestInBackground /\ ~ ProcessBgEnqueueRequest
    BY <2>0 DEF EnqueueBacklog, EnqueueRequestInBackground, ProcessBgEnqueueRequest
  <2>2. ~ ProcessBgEnqueueResponse /\ \A s \in Slots : ~ RunBackgroundHandler(s)
    BY Zenon, <2>0 DEF ProcessBgEnqueueResponse, RunBackgroundHandler
  <2>3. ASSUME NEW total \in 1 .. MaxReqPkts, EnqueueRequest(total) PROVE NoHandover'
    BY Zenon, <2>0, <2>3 DEF EnqueueRequest, NoHandover, server, sbg
  <2>4. ASSUME ProcessCreditStallQueue PROVE NoHandover'
    <3>1. PICK s : s = Head(stallq)
      BY Zenon
    <3>2. stallq # << >> /\ stallq \in Seq(Slots)
      BY Zenon, <2>0, <2>4 DEF ProcessCreditStallQueue, TypeOK, ClientTypeOK
    <3>3. s \in Range(stallq)
      BY <3>1, <3>2 DEF Range
    <3>4. s \in Slots /\ num_tx[s] = 0 /\ ctx[s] # 0 /\ ctx[s] \in Nat
      BY Zenon, <1>2, <2>0, <3>3 DEF IInv, SlotDiscipline, TypeOK, ClientTypeOK
    <3>5. ReqPktsPending(s)
      BY <3>4 DEF ReqPktsPending
    <3> QED
      BY Zenon, <2>0, <2>4, <3>1, <3>5 DEF ProcessCreditStallQueue, NoHandover, server, sbg
  <2>5. ASSUME NEW p \in Deliverable(s2c), ClientRx(p) PROVE NoHandover'
    <3>1. ctx[p.slot] # 0
      BY Zenon, <1>2, ReplyFacts
    <3>2. CASE ProcessExplCr(p)
      BY Zenon, <2>0, <3>1, <3>2 DEF ProcessExplCr, NoHandover, crpc, server, sbg
    <3>3. CASE ProcessSmallResp(p)
      BY <2>0, <3>1, <3>3 DEF ProcessSmallResp, CompleteRequest, NoHandover, crpc, server, sbg
    <3>4. CASE ProcessLargeResp(p)
      BY <2>0, <3>1, <3>4 DEF ProcessLargeResp, CompleteRequest, NoHandover, crpc, server, sbg
    <3> QED
      BY Zenon, <2>5, <3>2, <3>3, <3>4 DEF ClientRx
  <2>6. ASSUME NEW p \in Deliverable(c2s), ServerRx(p) PROVE NoHandover'
    <3>1. CASE ProcessRfr(p)
      BY Zenon, <2>0, <3>1 DEF ProcessRfr, NoHandover, sbg, client, crpc, csess
    <3>2. CASE \E bg \in Background : ProcessSmallReq(p, bg)
      BY Zenon, <2>0, <3>2 DEF ProcessSmallReq, NoHandover, sbg, client, crpc, csess
    <3>3. CASE \E bg \in Background : ProcessLargeReq(p, bg)
      <4>1. PICK bg \in Background : ProcessLargeReq(p, bg)
        BY Zenon, <3>3
      <4>2. bg = FALSE
        BY Zenon, ModeAssumption
      <4> QED
        BY Zenon, <2>0, <4>1, <4>2 DEF ProcessLargeReq, NoHandover, client, crpc, csess
    <3> QED
      BY Zenon, <2>6, <3>1, <3>2, <3>3 DEF ServerRx
  <2>7. ASSUME NEW s \in Slots, NEW total \in 1 .. MaxRespPkts, EnqueueResponse(s, total)
        PROVE  NoHandover'
    BY Zenon, <2>0, <2>7 DEF EnqueueResponse, NoHandover, sbg, client, crpc, csess
  <2>8. CASE UNCHANGED vars
    BY Zenon, <2>0, <2>8 DEF vars, NoHandover, client, crpc, csess, server, sbg
  <2> QED
    BY Zenon, <1>2, <2>1, <2>2, <2>3, <2>4, <2>5, <2>6, <2>7, <2>8 DEF Next
<1>3. NoHandover => NoNullDereference
  BY Zenon DEF NoHandover, NoNullDereference
<1> QED
  BY <1>1, <1>2, <1>3, Invariance, PTL DEF Spec
-------------------------------------------------------------------------------
(* The refinement of RpcService.                                           *)

RInv == IInv /\ \A s \in Slots : MessageInv(s)

(* What a slot contributes to the abstract state.                          *)
Seen(s) == IF sreq[s] = "fg" THEN sbuf[s] ELSE << >>
Result(s) == IF ctx[s] = 0 THEN rbuf[s] ELSE << >>

\* A message of one packet.
LEMMA MessageOne == Service!Message(1) = <<0>>
BY DEF Service!Message

\* The next packet of a message.
LEMMA MessageAppend ==
    ASSUME NEW n \in Nat PROVE Append(Service!Message(n), n) = Service!Message(n + 1)
<1>1. Service!Message(n) \in Seq(Int) /\ Len(Service!Message(n)) = n
  <2>1. Service!Message(n) \in [1 .. n -> Int]
    BY DEF Service!Message
  <2> QED
    BY <2>1 DEF Service!Message
<1>2. \A i \in 1 .. n + 1 : Append(Service!Message(n), n)[i] = i - 1
  BY <1>1 DEF Service!Message
<1>3. Append(Service!Message(n), n) \in Seq(Int) /\ Len(Append(Service!Message(n), n)) = n + 1
  BY <1>1
<1>4. PICK q : q = Append(Service!Message(n), n)
  BY Zenon
<1>5. q \in Seq(Int) /\ Len(q) = n + 1 /\ \A i \in 1 .. n + 1 : q[i] = i - 1
  BY Zenon, <1>2, <1>3, <1>4
<1>6. q = [i \in 1 .. n + 1 |-> i - 1]
  BY <1>5
<1> QED
  BY Zenon, <1>4, <1>6 DEF Service!Message

\* A slot that a step does not touch keeps what it has put together.
LEMMA MessageFrame ==
    ASSUME NEW s \in Slots, MessageInv(s), ctx'[s] = ctx[s], cnum'[s] = cnum[s],
           num_rx'[s] = num_rx[s], rbuf'[s] = rbuf[s], snum'[s] = snum[s],
           snum_rx'[s] = snum_rx[s], sreq'[s] = sreq[s], stx'[s] = stx[s], sbuf'[s] = sbuf[s]
    PROVE  MessageInv(s)'
BY Zenon DEF MessageInv, Serving, Answered, Rcvd, Service!Message

\* A step that changes no slot's part of the abstract state is a stutter.
LEMMA Stutter ==
    ASSUME ctx' = ctx, cnum' = cnum, stx' = stx,
           \A s \in Slots : Executed(s)' = Executed(s) /\ Seen(s)' = Seen(s)
                            /\ Result(s)' = Result(s)
    PROVE  UNCHANGED Service!vars
BY Zenon DEF Service!vars, Seen, Result

\* The initial states map to initial states.
LEMMA RefInit == Init => RInv /\ Service!Init
<1> SUFFICES ASSUME Init PROVE (\A s \in Slots : MessageInv(s)) /\ Service!Init
  BY Zenon, InvInit DEF RInv
<1>1. \A s \in Slots : MessageInv(s)
  BY Zenon DEF Init, MessageInv, Serving, NoMsg
<1>2. Service!Init
  BY Zenon DEF Init, Service!Init, Executed, NoMsg
<1> QED
  BY Zenon, <1>1, <1>2

\* A request packet extends what the server has; the last one calls the handler.
LEMMA RefReqPacket ==
    ASSUME RInv, NEW s \in Slots, ctx[s] # 0, Busy(s), Rcvd(s) < ctx[s],
           client' = client, stx' = stx,
           snum' = [snum EXCEPT ![s] = cnum[s]],
           snum_rx' = [snum_rx EXCEPT ![s] = Rcvd(s) + 1],
           sbuf' = [sbuf EXCEPT ![s] = IF Rcvd(s) = 0 THEN << 0 >> ELSE Append(@, Rcvd(s))],
           \/ Rcvd(s) + 1 = ctx[s] /\ sreq' = [sreq EXCEPT ![s] = "fg"]
           \/ Rcvd(s) + 1 < ctx[s] /\ sreq' = sreq
    PROVE  (\A t \in Slots : MessageInv(t)') /\ [Service!Next]_(Service!vars)
<1>1. TypeOK /\ MessageInv(s)
  BY Zenon DEF RInv, IInv
<1>2. /\ ctx[s] \in Nat /\ cnum[s] \in Nat /\ Rcvd(s) \in Nat /\ snum[s] \in Nat
      /\ snum_rx[s] \in Nat /\ stx[s].num \in Nat /\ num_rx[s] \in Nat
  BY Zenon, <1>1, SlotTypes
<1>3. /\ snum \in [Slots -> Nat] /\ snum_rx \in [Slots -> Nat] /\ sbuf \in [Slots -> Seq(Int)]
      /\ sreq \in [Slots -> {"invalid", "fg", "bg"}]
  BY Zenon, <1>1 DEF TypeOK, ServerTypeOK
<1>4. ctx' = ctx /\ cnum' = cnum /\ num_rx' = num_rx /\ rbuf' = rbuf
  BY Zenon DEF client, cslot
<1>5. sreq[s] = "invalid"
  BY <1>2 DEF Busy, Phase
<1>6. ~ Answered(s)
  BY <1>2 DEF Answered
<1>7. stx[s].num + 1 = cnum[s]
  <2>1. CASE snum[s] = cnum[s]
    BY Zenon, <1>1, <1>6, <2>1 DEF MessageInv, Serving
  <2>2. CASE snum[s] # cnum[s]
    <3>1. snum[s] + 1 = cnum[s]
      BY Zenon, <2>2 DEF Busy
    <3> QED
      BY Zenon, <1>1, <2>2, <3>1 DEF MessageInv, Serving
  <2> QED
    BY Zenon, <2>1, <2>2
<1>8. sbuf'[s] = Service!Message(Rcvd(s) + 1)
  <2>1. CASE Rcvd(s) = 0
    BY <1>3, <2>1, MessageOne
  <2>2. CASE Rcvd(s) # 0
    <3>1. snum[s] = cnum[s] /\ snum_rx[s] = Rcvd(s)
      BY Zenon, <2>2 DEF Rcvd
    <3>2. sbuf[s] = Service!Message(Rcvd(s))
      BY Zenon, <1>1, <1>6, <3>1 DEF MessageInv, Serving
    <3>3. sbuf'[s] = Append(sbuf[s], Rcvd(s))
      BY Zenon, <1>3, <2>2
    <3> QED
      BY Zenon, <1>2, <3>2, <3>3, MessageAppend
  <2> QED
    BY Zenon, <2>1, <2>2
<1>9. snum'[s] = cnum[s] /\ snum_rx'[s] = Rcvd(s) + 1 /\ stx'[s].num + 1 = cnum[s]
  BY Zenon, <1>3, <1>7
<1>10. Rcvd(s)' = Rcvd(s) + 1 /\ sreq'[s] \in {"invalid", "fg"}
       /\ (Rcvd(s) + 1 = ctx[s] <=> sreq'[s] = "fg")
  BY <1>2, <1>3, <1>4, <1>5, <1>9 DEF Rcvd
<1>11. MessageInv(s)'
  <2>1. ~ Answered(s)'
    BY <1>2, <1>4, <1>10 DEF Answered
  <2>2. Serving(s)'
    BY Zenon, <1>4, <1>9, <2>1 DEF Serving
  <2>3. sreq'[s] # "bg"
    BY Zenon, <1>10
  <2>4. stx'[s].num + 1 = snum'[s] /\ sbuf'[s] = Service!Message(snum_rx'[s])
    BY Zenon, <1>8, <1>9
  <2>5. ctx'[s] # 0 /\ num_rx'[s] > 0 => rbuf'[s] = Service!Message(num_rx'[s])
    BY Zenon, <1>1, <1>4 DEF MessageInv
  <2> QED
    BY Zenon, <2>2, <2>3, <2>4, <2>5 DEF MessageInv, Service!Message
<1>12. ASSUME NEW t \in Slots, t # s
       PROVE  /\ snum'[t] = snum[t] /\ snum_rx'[t] = snum_rx[t] /\ sbuf'[t] = sbuf[t]
              /\ sreq'[t] = sreq[t] /\ stx'[t] = stx[t]
  BY Zenon, <1>3, <1>12
<1>13. ASSUME NEW t \in Slots, t # s PROVE MessageInv(t)'
  BY Zenon, <1>4, <1>12, <1>13, MessageFrame DEF RInv
<1>14. Executed(s) + 1 = cnum[s] /\ Executed(s) \in Nat
  BY <1>1, <1>2, <1>5, <1>6, <1>7 DEF Executed, MessageInv, Serving, Busy
<1>15. ASSUME NEW t \in Slots, t # s
       PROVE  Executed(t)' = Executed(t) /\ Seen(t)' = Seen(t) /\ Result(t)' = Result(t)
  BY <1>4, <1>12, <1>15 DEF Executed, Seen, Result
<1>16. Result(s)' = Result(s)
  BY Zenon, <1>4 DEF Result
<1>17. CASE Rcvd(s) + 1 < ctx[s]
  <2>1. sreq'[s] = "invalid"
    BY <1>2, <1>10, <1>17
  <2>2. Executed(s)' = Executed(s)
    BY <1>2, <1>9, <1>14, <2>1 DEF Executed
  <2>3. Seen(s)' = Seen(s)
    BY Zenon, <1>5, <2>1 DEF Seen
  <2>4. UNCHANGED Service!vars
    BY Zenon, <1>4, <1>15, <1>16, <2>2, <2>3, Stutter
  <2> QED
    BY Zenon, <1>11, <1>13, <2>4
<1>18. CASE Rcvd(s) + 1 = ctx[s]
  <2>1. sreq'[s] = "fg"
    BY Zenon, <1>10, <1>18
  <2>2. Executed(s)' = cnum[s]
    BY Zenon, <1>9, <2>1 DEF Executed
  <2>3. Seen(s)' = Service!Message(ctx[s])
    BY Zenon, <1>8, <1>18, <2>1 DEF Seen
  <2>4. /\ Executed(s) < cnum[s]
        /\ [t \in Slots |-> Executed(t)'] = [[t \in Slots |-> Executed(t)] EXCEPT ![s] = cnum[s]]
        /\ [t \in Slots |-> Seen(t)']
             = [[t \in Slots |-> Seen(t)] EXCEPT ![s] = Service!Message(ctx[s])]
        /\ [t \in Slots |-> Result(t)'] = [t \in Slots |-> Result(t)]
    <3>1. Executed(s) < cnum[s]
      BY <1>2, <1>14
    <3>2. [t \in Slots |-> Executed(t)'] = [[t \in Slots |-> Executed(t)] EXCEPT ![s] = cnum[s]]
      BY Zenon, <1>15, <2>2
    <3>3. [t \in Slots |-> Seen(t)']
            = [[t \in Slots |-> Seen(t)] EXCEPT ![s] = Service!Message(ctx[s])]
      BY Zenon, <1>15, <2>3
    <3>4. [t \in Slots |-> Result(t)'] = [t \in Slots |-> Result(t)]
      BY Zenon, <1>15, <1>16
    <3> QED
      BY Zenon, <3>1, <3>2, <3>3, <3>4
  <2>5. Service!Execute(s)
    BY Zenon, <1>4, <2>4 DEF Service!Execute, Seen, Result, Service!Message
  <2> QED
    BY Zenon, <1>11, <1>13, <2>5 DEF Service!Next
<1> QED
  BY Zenon, <1>2, <1>17, <1>18

\* process_small_req_st calls the handler.
LEMMA RefSmallReq ==
    ASSUME RInv, InOrder, NEW p \in Deliverable(c2s), ProcessSmallReq(p, FALSE)
    PROVE  (\A t \in Slots : MessageInv(t)') /\ [Service!Next]_(Service!vars)
<1>0. PICK s : s = p.slot
  BY Zenon
<1>1. s \in Slots /\ ctx[s] # 0 /\ Busy(s) /\ p = Sent(s, Rcvd(s))
  BY Zenon, <1>0, RequestFacts DEF RInv
<1>2. ctx[s] \in Nat /\ Rcvd(s) \in Nat
  BY Zenon, <1>1, SlotTypes DEF RInv, IInv
<1>3. p.type = "req" /\ p.total = 1
  BY Zenon DEF ProcessSmallReq
<1>4. ctx[s] = 1 /\ Rcvd(s) = 0 /\ p.num = cnum[s] /\ p.pkt = 0
  BY <1>1, <1>2, <1>3 DEF Sent, Pkt
<1>5. /\ snum' = [snum EXCEPT ![s] = cnum[s]]
      /\ snum_rx' = [snum_rx EXCEPT ![s] = 1]
      /\ sreq' = [sreq EXCEPT ![s] = "fg"]
      /\ sbuf' = [sbuf EXCEPT ![s] = <<0>>]
      /\ client' = client /\ stx' = stx
  BY Zenon, <1>0, <1>4 DEF ProcessSmallReq
<1>6. /\ snum_rx' = [snum_rx EXCEPT ![s] = Rcvd(s) + 1] /\ Rcvd(s) < ctx[s]
      /\ Rcvd(s) + 1 = ctx[s]
  BY <1>4, <1>5
<1>7. sbuf' = [sbuf EXCEPT ![s] = IF Rcvd(s) = 0 THEN <<0>> ELSE Append(@, Rcvd(s))]
  BY Zenon, <1>4, <1>5
<1> QED
  BY Zenon, <1>1, <1>5, <1>6, <1>7, RefReqPacket, Zenon

\* process_large_req_one_st assembles the request, and calls the handler.
LEMMA RefLargeReq ==
    ASSUME RInv, InOrder, NEW p \in Deliverable(c2s), ProcessLargeReq(p, FALSE)
    PROVE  (\A t \in Slots : MessageInv(t)') /\ [Service!Next]_(Service!vars)
<1>0. PICK s : s = p.slot
  OBVIOUS
<1>1. s \in Slots /\ ctx[s] # 0 /\ Busy(s) /\ p = Sent(s, Rcvd(s))
  BY <1>0, RequestFacts DEF RInv
<1>2. /\ ctx[s] \in Nat /\ Rcvd(s) \in Nat /\ snum_rx[s] \in Nat
      /\ snum \in [Slots -> Nat]
  <2>1. TypeOK
    BY Zenon DEF RInv, IInv
  <2> QED
    BY Zenon, <1>1, <2>1, SlotTypes DEF TypeOK, ServerTypeOK
<1>3. p.type = "req" /\ p.total > 1
  BY Zenon DEF ProcessLargeReq
<1>4. p.total = ctx[s] /\ p.pkt = Rcvd(s) /\ p.num = cnum[s] /\ Rcvd(s) < ctx[s]
  BY Zenon, <1>1, <1>2, <1>3 DEF Sent, Pkt
<1>5. PICK rx : rx = IF p.pkt = 0 THEN 1 ELSE snum_rx[s] + 1
  BY Zenon
<1>6. /\ snum' = IF p.pkt = 0 THEN [snum EXCEPT ![s] = p.num] ELSE snum
      /\ snum_rx' = [snum_rx EXCEPT ![s] = rx]
      /\ sbuf' = [sbuf EXCEPT ![s] = Assemble(@, p)]
      /\ sreq' = IF HaveAll(rx, p.total) THEN [sreq EXCEPT ![s] = "fg"] ELSE sreq
      /\ client' = client /\ stx' = stx
  BY Zenon, <1>0, <1>5, Zenon DEF ProcessLargeReq
<1>7. rx = Rcvd(s) + 1 /\ (Rcvd(s) # 0 => snum[s] = cnum[s])
  BY <1>2, <1>4, <1>5, SMTT(30) DEF Rcvd
<1>8. snum' = [snum EXCEPT ![s] = cnum[s]]
  BY Zenon, <1>1, <1>2, <1>4, <1>6, <1>7
<1>9. snum_rx' = [snum_rx EXCEPT ![s] = Rcvd(s) + 1]
  BY Zenon, <1>6, <1>7
<1>10. sbuf' = [sbuf EXCEPT ![s] = IF Rcvd(s) = 0 THEN <<0>> ELSE Append(@, Rcvd(s))]
  BY Zenon, <1>4, <1>6, Zenon DEF Assemble
<1>11. \/ Rcvd(s) + 1 = ctx[s] /\ sreq' = [sreq EXCEPT ![s] = "fg"]
       \/ Rcvd(s) + 1 < ctx[s] /\ sreq' = sreq
  BY <1>2, <1>4, <1>6, <1>7 DEF HaveAll
<1> QED
  BY <1>1, <1>4, <1>6, <1>8, <1>9, <1>10, <1>11, RefReqPacket, Zenon

\* enqueue_response answers the request that the handler saw.
LEMMA RefEnqueueResponse ==
    ASSUME RInv, NEW s \in Slots, NEW total \in 1 .. MaxRespPkts, EnqueueResponse(s, total)
    PROVE  (\A t \in Slots : MessageInv(t)') /\ [Service!Next]_(Service!vars)
<1>1. TypeOK /\ MessageInv(s)
  BY Zenon DEF RInv, IInv
<1>2. /\ ctx[s] \in Nat /\ cnum[s] \in Nat /\ Rcvd(s) \in Nat /\ snum[s] \in Nat
      /\ stx[s].num \in Nat /\ total \in Nat
  BY <1>1, SlotTypes
<1>3. stx \in [Slots -> [num : Nat, total : Nat]] /\ sreq \in [Slots -> {"invalid", "fg", "bg"}]
  BY Zenon, <1>1 DEF TypeOK, ServerTypeOK
<1>4. /\ sreq[s] = "fg"
      /\ stx' = [stx EXCEPT ![s] = [num |-> snum[s], total |-> total]]
      /\ sreq' = [sreq EXCEPT ![s] = "invalid"]
      /\ UNCHANGED <<snum, snum_rx, sbuf, client>>
  BY Zenon DEF EnqueueResponse
<1>5. ctx' = ctx /\ cnum' = cnum /\ num_rx' = num_rx /\ rbuf' = rbuf
  BY Zenon, <1>4 DEF client, cslot
<1>6. ctx[s] # 0 /\ Busy(s)
  BY Zenon, <1>4 DEF RInv, IInv, SlotInv, Idle
<1>7. Rcvd(s) = ctx[s] /\ snum[s] = cnum[s] /\ ~ Answered(s)
  BY Zenon, <1>4, <1>6 DEF Busy, Phase, Answered
<1>8. stx[s].num + 1 = snum[s]
  BY Zenon, <1>1, <1>6, <1>7 DEF MessageInv, Serving
<1>9. stx'[s].num = snum[s] /\ stx'[s].total = total /\ sreq'[s] = "invalid"
  BY Zenon, <1>3, <1>4
<1>10. MessageInv(s)'
  <2>1. Answered(s)'
    BY <1>2, <1>4, <1>5, <1>7, <1>9 DEF Answered, Rcvd
  <2>2. ~ Serving(s)'
    BY Zenon, <2>1 DEF Serving
  <2>3. ctx'[s] # 0 /\ num_rx'[s] > 0 => rbuf'[s] = Service!Message(num_rx'[s])
    BY Zenon, <1>1, <1>5 DEF MessageInv
  <2> QED
    BY Zenon, <1>4, <1>9, <2>2, <2>3 DEF MessageInv, Service!Message
<1>11. ASSUME NEW t \in Slots, t # s PROVE stx'[t] = stx[t] /\ sreq'[t] = sreq[t]
  BY Zenon, <1>3, <1>4, <1>11
<1>12. ASSUME NEW t \in Slots, t # s PROVE MessageInv(t)'
  BY Zenon, <1>4, <1>5, <1>11, <1>12, MessageFrame DEF RInv
<1>13. Executed(s)' = Executed(s) /\ Executed(s) = snum[s]
  BY Zenon, <1>4, <1>9 DEF Executed
<1>14. [t \in Slots |-> Executed(t)'] = [t \in Slots |-> Executed(t)]
  <2>1. ASSUME NEW t \in Slots, t # s PROVE Executed(t)' = Executed(t)
    BY Zenon, <1>4, <1>11, <2>1 DEF Executed
  <2> QED
    BY Zenon, <1>13, <2>1
<1>15. [t \in Slots |-> Seen(t)'] = [[t \in Slots |-> Seen(t)] EXCEPT ![s] = << >>]
  <2>1. ASSUME NEW t \in Slots, t # s PROVE Seen(t)' = Seen(t)
    BY Zenon, <1>4, <1>11, <2>1 DEF Seen
  <2>2. Seen(s)' = << >>
    BY Zenon, <1>9 DEF Seen
  <2> QED
    BY Zenon, <2>1, <2>2
<1>16. [t \in Slots |-> Result(t)'] = [t \in Slots |-> Result(t)]
  BY Zenon, <1>5 DEF Result
<1>17. [t \in Slots |-> stx'[t].num] = [[t \in Slots |-> stx[t].num] EXCEPT ![s] = snum[s]]
  BY Zenon, <1>9, <1>11
<1>18. [t \in Slots |-> stx'[t].total] = [[t \in Slots |-> stx[t].total] EXCEPT ![s] = total]
  BY Zenon, <1>9, <1>11
<1>19. stx[s].num < snum[s]
  BY <1>2, <1>8
<1>20. Service!Answer(s, total)
  BY Zenon, <1>5, <1>13, <1>14, <1>15, <1>16, <1>17, <1>18, <1>19 DEF Service!Answer, Seen, Result
<1> QED
  BY Zenon, <1>10, <1>12, <1>20 DEF Service!Next

\* process_rfr_st resends nothing: it changes no message.
LEMMA RefRfr ==
    ASSUME RInv, InOrder, NEW p \in Deliverable(c2s), ProcessRfr(p)
    PROVE  (\A t \in Slots : MessageInv(t)') /\ [Service!Next]_(Service!vars)
<1>0. PICK s : s = p.slot
  BY Zenon
<1>1. /\ s \in Slots /\ ctx[s] # 0 /\ Busy(s) /\ p = Sent(s, Rcvd(s))
      /\ Rcvd(s) < num_tx[s]
  BY Zenon, <1>0, RequestFacts DEF RInv
<1>2. TypeOK /\ MessageInv(s)
  BY Zenon, <1>1 DEF RInv, IInv
<1>3. ctx[s] \in Nat /\ Rcvd(s) \in Nat /\ snum_rx[s] \in Nat /\ num_tx[s] \in Nat
  BY Zenon, <1>1, <1>2, SlotTypes
<1>4. /\ p.type = "rfr" /\ snum_rx' = [snum_rx EXCEPT ![s] = @ + 1]
      /\ UNCHANGED <<snum, sreq, stx, sbuf, client>>
  BY Zenon, <1>0 DEF ProcessRfr
<1>5. ctx' = ctx /\ cnum' = cnum /\ num_rx' = num_rx /\ rbuf' = rbuf
  BY Zenon, <1>4 DEF client, cslot
<1>6. ~ (Rcvd(s) < ctx[s])
  BY Zenon, <1>1, <1>4 DEF Sent, Pkt
<1>7. num_tx[s] > ctx[s]
  <2>1. Rcvd(s) < num_tx[s]
    BY Zenon, <1>1
  <2> QED
    BY <1>3, <1>6, <2>1
<1>8. Answered(s)
  BY Zenon, <1>1, <1>7, Zenon DEF Busy, Phase
<1>9. snum_rx \in [Slots -> Nat]
  BY Zenon, <1>2 DEF TypeOK, ServerTypeOK
<1>10. MessageInv(s)'
  <2>1. Rcvd(s)' >= ctx[s]
    <3>1. snum_rx'[s] = snum_rx[s] + 1
      BY Zenon, <1>1, <1>4, <1>9
    <3>2. snum[s] = cnum[s]
      BY <1>1, <1>3, <1>6 DEF Rcvd
    <3> QED
      BY <1>3, <1>4, <1>5, <1>6, <3>1, <3>2 DEF Rcvd
  <2>2. Answered(s)'
    BY Zenon, <1>4, <1>5, <1>8, <2>1 DEF Answered
  <2>3. ~ Serving(s)' /\ ~ Serving(s)
    BY Zenon, <1>8, <2>2 DEF Serving
  <2> QED
    BY Zenon, <1>2, <1>4, <1>5, <2>3 DEF MessageInv, Service!Message
<1>11. ASSUME NEW t \in Slots, t # s PROVE MessageInv(t)'
  <2>1. snum_rx'[t] = snum_rx[t]
    BY Zenon, <1>4, <1>9, <1>11
  <2> QED
    BY Zenon, <1>4, <1>5, <1>11, <2>1, MessageFrame DEF RInv
<1>12. UNCHANGED Service!vars
  BY Zenon, <1>4, <1>5, Stutter DEF Executed, Seen, Result
<1> QED
  BY Zenon, <1>10, <1>11, <1>12

\* Steps that change no slot's counters or messages.
LEMMA RefFrame ==
    ASSUME RInv, UNCHANGED <<ctx, cnum, num_rx, rbuf, sslot>>
    PROVE  (\A t \in Slots : MessageInv(t)') /\ [Service!Next]_(Service!vars)
<1>1. /\ snum' = snum /\ snum_rx' = snum_rx /\ sreq' = sreq /\ stx' = stx /\ sbuf' = sbuf
      /\ ctx' = ctx /\ cnum' = cnum /\ num_rx' = num_rx /\ rbuf' = rbuf
  BY Zenon DEF sslot
<1>2. \A t \in Slots : MessageInv(t)'
  BY Zenon, <1>1, MessageFrame DEF RInv
<1>3. UNCHANGED Service!vars
  BY Zenon, <1>1, Stutter DEF Executed, Seen, Result
<1> QED
  BY Zenon, <1>2, <1>3

\* enqueue_request issues a request in an idle slot.
LEMMA RefEnqueueRequest ==
    ASSUME RInv, NEW total \in 1 .. MaxReqPkts, EnqueueRequest(total)
    PROVE  (\A t \in Slots : MessageInv(t)') /\ [Service!Next]_(Service!vars)
<1>0. PICK s : s = free[Len(free)]
  BY Zenon
<1>1. TypeOK /\ SlotDiscipline
  BY Zenon DEF RInv, IInv
<1>2. /\ free # << >>
      /\ ctx' = [ctx EXCEPT ![s] = total] /\ cnum' = [cnum EXCEPT ![s] = @ + 1]
      /\ num_rx' = [num_rx EXCEPT ![s] = 0]
      /\ UNCHANGED <<rbuf, server>>
  BY Zenon, <1>0, Zenon DEF EnqueueRequest
<1>3. /\ ctx \in [Slots -> Nat] /\ cnum \in [Slots -> Nat] /\ num_rx \in [Slots -> Nat]
      /\ free \in Seq(Slots)
  BY Zenon, <1>1 DEF TypeOK, ClientTypeOK
<1>4. s \in Slots /\ ctx[s] = 0
  <2>1. Len(free) \in DOMAIN free
    BY <1>2, <1>3
  <2>2. s \in Range(free)
    BY Zenon, <1>0, <2>1 DEF Range
  <2> QED
    BY Zenon, <1>1, <2>2 DEF SlotDiscipline
<1>5. /\ snum' = snum /\ snum_rx' = snum_rx /\ sreq' = sreq /\ stx' = stx /\ sbuf' = sbuf
  BY Zenon, <1>2 DEF server, sslot
<1>6. Idle(s) /\ MessageInv(s)
  BY Zenon, <1>4 DEF RInv, IInv, SlotInv
<1>7. cnum[s] \in Nat /\ total \in Nat /\ total # 0
  BY <1>3, <1>4, SizeAssumption
<1>8. ctx'[s] = total /\ cnum'[s] = cnum[s] + 1 /\ num_rx'[s] = 0
  BY Zenon, <1>2, <1>3, <1>4
<1>9. MessageInv(s)'
  <2>1. snum'[s] # cnum'[s]
    BY <1>5, <1>6, <1>7, <1>8 DEF Idle
  <2>2. ~ Serving(s)' /\ ~ Serving(s)
    BY Zenon, <1>4, <2>1 DEF Serving
  <2>3. ~ (num_rx'[s] > 0)
    BY <1>8
  <2> QED
    BY Zenon, <1>5, <1>6, <2>2, <2>3 DEF MessageInv
<1>10. ASSUME NEW t \in Slots, t # s
       PROVE  ctx'[t] = ctx[t] /\ cnum'[t] = cnum[t] /\ num_rx'[t] = num_rx[t]
  BY Zenon, <1>2, <1>3, <1>10
<1>11. ASSUME NEW t \in Slots, t # s PROVE MessageInv(t)'
  BY Zenon, <1>2, <1>5, <1>10, <1>11, MessageFrame DEF RInv
<1>12. [t \in Slots |-> Result(t)'] = [[t \in Slots |-> Result(t)] EXCEPT ![s] = << >>]
  <2>1. ASSUME NEW t \in Slots, t # s PROVE Result(t)' = Result(t)
    BY Zenon, <1>2, <1>10, <2>1 DEF Result
  <2>2. Result(s)' = << >>
    BY Zenon, <1>7, <1>8 DEF Result
  <2> QED
    BY Zenon, <2>1, <2>2
<1>13. /\ [t \in Slots |-> Executed(t)'] = [t \in Slots |-> Executed(t)]
       /\ [t \in Slots |-> Seen(t)'] = [t \in Slots |-> Seen(t)]
  BY Zenon, <1>5 DEF Executed, Seen
<1>14. Service!Issue(s, total)
  BY Zenon, <1>2, <1>4, <1>5, <1>12, <1>13 DEF Service!Issue, Seen, Result
<1> QED
  BY Zenon, <1>4, <1>9, <1>11, <1>14 DEF Service!Next

\* A response packet is the next one of the answer to the slot's request.
LEMMA RespFacts ==
    ASSUME RInv, InOrder, NEW p \in Deliverable(s2c), NEW s, s = p.slot, p.type = "resp"
    PROVE  /\ s \in Slots /\ ctx[s] # 0 /\ ~ Serving(s)
           /\ stx[s].num = cnum[s] /\ p.total = stx[s].total
           /\ p.pkt = num_rx[s] /\ num_rx[s] < stx[s].total
<1>1. s \in Slots /\ ctx[s] # 0 /\ Busy(s)
  BY Zenon, ReplyFacts DEF RInv
<1>2. PICK lo \in Nat : lo < Replied(s) /\ p = Reply(s, lo)
  BY Zenon, ReplyFacts DEF RInv
<1>3. ctx[s] \in Nat /\ Rcvd(s) \in Nat /\ Replied(s) \in Int
  BY Zenon, <1>1, SlotTypes DEF RInv, IInv
<1>4. ~ (lo < ctx[s] - 1) /\ p.total = stx[s].total
  BY <1>2 DEF Reply, Pkt
<1>5. Answered(s)
  <2>1. lo >= ctx[s] - 1
    BY <1>3, <1>4
  <2> QED
    BY Zenon, <1>1, <1>2, <1>3, <2>1, AnsweredByReply DEF Busy
<1>6. stx[s].num = cnum[s] /\ num_rx[s] < stx[s].total
  BY Zenon, <1>1, <1>5, Zenon DEF Busy, Phase
<1>7. p.pkt = num_rx[s]
  BY Zenon, ClientExpects DEF RInv, ClientInOrder
<1> QED
  BY Zenon, <1>1, <1>4, <1>5, <1>6, <1>7 DEF Serving

\* The last response packet: the continuation sees the whole response.
LEMMA RefComplete ==
    ASSUME RInv, NEW s \in Slots, ctx[s] # 0, ~ Serving(s), stx[s].num = cnum[s],
           CompleteRequest(s),
           rbuf' = [rbuf EXCEPT ![s] = Service!Message(stx[s].total)]
    PROVE  (\A t \in Slots : MessageInv(t)') /\ [Service!Next]_(Service!vars)
<1>1. TypeOK /\ MessageInv(s)
  BY Zenon DEF RInv, IInv
<1>2. /\ ctx \in [Slots -> Nat] /\ num_rx \in [Slots -> Nat] /\ rbuf \in [Slots -> Seq(Int)]
  BY Zenon, <1>1 DEF TypeOK, ClientTypeOK
<1>3. /\ ctx' = [ctx EXCEPT ![s] = 0] /\ num_rx' = [num_rx EXCEPT ![s] = 0] /\ cnum' = cnum
      /\ snum' = snum /\ snum_rx' = snum_rx /\ sreq' = sreq /\ stx' = stx /\ sbuf' = sbuf
  BY Zenon DEF CompleteRequest, server, sslot
<1>4. ctx'[s] = 0 /\ rbuf'[s] = Service!Message(stx[s].total)
  BY Zenon, <1>2, <1>3
<1>5. MessageInv(s)'
  BY Zenon, <1>1, <1>3, <1>4 DEF MessageInv, Serving
<1>6. ASSUME NEW t \in Slots, t # s
      PROVE  ctx'[t] = ctx[t] /\ num_rx'[t] = num_rx[t] /\ rbuf'[t] = rbuf[t]
  BY Zenon, <1>2, <1>3, <1>6
<1>7. ASSUME NEW t \in Slots, t # s PROVE MessageInv(t)'
  BY Zenon, <1>3, <1>6, <1>7, MessageFrame DEF RInv
<1>8. [t \in Slots |-> Result(t)']
        = [[t \in Slots |-> Result(t)] EXCEPT ![s] = Service!Message(stx[s].total)]
  <2>1. ASSUME NEW t \in Slots, t # s PROVE Result(t)' = Result(t)
    BY Zenon, <1>6, <2>1 DEF Result
  <2>2. Result(s)' = Service!Message(stx[s].total)
    BY Zenon, <1>4 DEF Result
  <2> QED
    BY Zenon, <2>1, <2>2
<1>9. /\ [t \in Slots |-> Executed(t)'] = [t \in Slots |-> Executed(t)]
      /\ [t \in Slots |-> Seen(t)'] = [t \in Slots |-> Seen(t)]
  BY Zenon, <1>3 DEF Executed, Seen
<1>10. Service!Return(s)
  BY Zenon, <1>3, <1>8, <1>9 DEF Service!Return, Seen, Result, Service!Message
<1> QED
  BY Zenon, <1>5, <1>7, <1>10 DEF Service!Next

\* process_resp_one_st on a response of one packet returns it.
LEMMA RefSmallResp ==
    ASSUME RInv, InOrder, NEW p \in Deliverable(s2c), ProcessSmallResp(p)
    PROVE  (\A t \in Slots : MessageInv(t)') /\ [Service!Next]_(Service!vars)
<1>0. PICK s : s = p.slot
  OBVIOUS
<1>1. CASE Kill("client")
  BY Zenon, <1>1, RefFrame DEF Kill, client, cslot, server
<1>2. CASE ~ Kill("client")
  <2>1. p.type = "resp" /\ p.total = 1
    BY Zenon DEF ProcessSmallResp
  <2>2. CompleteRequest(s) /\ rbuf' = [rbuf EXCEPT ![s] = <<p.pkt>>]
    BY Zenon, <1>0, <1>2, Zenon DEF ProcessSmallResp
  <2>3. /\ s \in Slots /\ ctx[s] # 0 /\ ~ Serving(s)
        /\ stx[s].num = cnum[s] /\ p.total = stx[s].total
        /\ p.pkt = num_rx[s] /\ num_rx[s] < stx[s].total
    BY Zenon, <1>0, <2>1, RespFacts
  <2>4. p.pkt = 0
    <3>1. num_rx[s] \in Nat
      BY Zenon, <2>3, SlotTypes DEF RInv, IInv
    <3> QED
      BY <2>1, <2>3, <3>1
  <2>5. rbuf' = [rbuf EXCEPT ![s] = Service!Message(stx[s].total)]
    <3>1. Service!Message(stx[s].total) = <<p.pkt>>
      BY <2>1, <2>3, <2>4, MessageOne
    <3> QED
      BY Zenon, <2>2, <3>1
  <2> QED
    BY Zenon, <2>2, <2>3, <2>5, RefComplete
<1> QED
  BY Zenon, <1>1, <1>2

\* process_resp_one_st on a larger response appends a packet, or returns it.
LEMMA RefLargeResp ==
    ASSUME RInv, InOrder, NEW p \in Deliverable(s2c), ProcessLargeResp(p)
    PROVE  (\A t \in Slots : MessageInv(t)') /\ [Service!Next]_(Service!vars)
<1>0. PICK s : s = p.slot
  OBVIOUS
<1>1. CASE Kill("client")
  BY <1>1, RefFrame DEF Kill, client, cslot, server
<1>2. CASE ~ Kill("client")
  <2>1. p.type = "resp"
    BY Zenon DEF ProcessLargeResp
  <2>2. rbuf' = [rbuf EXCEPT ![s] = IF p.pkt = 0 THEN <<0>> ELSE Append(@, p.pkt)]
    BY Zenon, <1>0, <1>2, Zenon DEF ProcessLargeResp, Assemble
  <2>3. \/ num_rx[s] + 1 = p.total /\ CompleteRequest(s)
        \/ /\ num_rx' = [num_rx EXCEPT ![s] = @ + 1]
           /\ UNCHANGED <<ctx, cnum, server>>
    BY Zenon, <1>0, <1>2, Zenon DEF ProcessLargeResp
  <2>4. /\ s \in Slots /\ ctx[s] # 0 /\ ~ Serving(s)
        /\ stx[s].num = cnum[s] /\ p.total = stx[s].total
        /\ p.pkt = num_rx[s] /\ num_rx[s] < stx[s].total
    BY Zenon, <1>0, <2>1, RespFacts
  <2>5. TypeOK /\ MessageInv(s)
    BY Zenon, <2>4 DEF RInv, IInv
  <2>6. num_rx \in [Slots -> Nat] /\ rbuf \in [Slots -> Seq(Int)] /\ num_rx[s] \in Nat
    BY Zenon, <2>4, <2>5 DEF TypeOK, ClientTypeOK
  <2>7. rbuf' = [rbuf EXCEPT ![s] = Service!Message(num_rx[s] + 1)]
    <3>1. CASE num_rx[s] = 0
      <4>1. Service!Message(num_rx[s] + 1) = <<0>>
        BY <3>1, MessageOne
      <4>2. rbuf' = [rbuf EXCEPT ![s] = <<0>>]
        BY Zenon, <2>2, <2>4, <3>1
      <4> QED
        BY Zenon, <4>1, <4>2
    <3>2. CASE num_rx[s] # 0
      <4>1. rbuf[s] = Service!Message(num_rx[s])
        BY <2>4, <2>5, <2>6, <3>2 DEF MessageInv
      <4>2. Append(rbuf[s], num_rx[s]) = Service!Message(num_rx[s] + 1)
        BY Zenon, <2>6, <4>1, MessageAppend
      <4>3. rbuf' = [rbuf EXCEPT ![s] = Append(rbuf[s], num_rx[s])]
        BY Zenon, <2>2, <2>4, <3>2
      <4> QED
        BY Zenon, <4>2, <4>3
    <3> QED
      BY Zenon, <3>1, <3>2
  <2>8. CASE num_rx[s] + 1 = p.total /\ CompleteRequest(s)
    <3>1. rbuf' = [rbuf EXCEPT ![s] = Service!Message(stx[s].total)]
      BY Zenon, <2>4, <2>7, <2>8
    <3> QED
      BY Zenon, <2>4, <2>8, <3>1, RefComplete
  <2>9. CASE num_rx' = [num_rx EXCEPT ![s] = @ + 1] /\ UNCHANGED <<ctx, cnum, server>>
    <3>1. /\ snum' = snum /\ snum_rx' = snum_rx /\ sreq' = sreq /\ stx' = stx /\ sbuf' = sbuf
          /\ ctx' = ctx /\ cnum' = cnum
      BY Zenon, <2>9 DEF server, sslot
    <3>2. num_rx'[s] = num_rx[s] + 1 /\ rbuf'[s] = Service!Message(num_rx[s] + 1)
      BY Zenon, <2>4, <2>6, <2>7, <2>9
    <3>3. ASSUME NEW t \in Slots, t # s PROVE num_rx'[t] = num_rx[t] /\ rbuf'[t] = rbuf[t]
      BY Zenon, <2>6, <2>7, <2>9, <3>3
    <3>4. MessageInv(s)'
      <4>1. ~ Serving(s)'
        BY Zenon, <2>4, <3>1 DEF Serving, Answered, Rcvd
      <4> QED
        BY Zenon, <2>4, <2>5, <3>1, <3>2, <4>1 DEF MessageInv, Service!Message
    <3>5. ASSUME NEW t \in Slots, t # s PROVE MessageInv(t)'
      BY Zenon, <3>1, <3>3, <3>5, MessageFrame DEF RInv
    <3>6. \A t \in Slots : Result(t)' = Result(t)
      BY Zenon, <2>4, <3>1, <3>3 DEF Result
    <3>7. UNCHANGED Service!vars
      BY Zenon, <3>1, <3>6, Stutter DEF Executed, Seen
    <3> QED
      BY <3>4, <3>5, <3>7
  <2> QED
    BY Zenon, <2>3, <2>8, <2>9
<1> QED
  BY <1>1, <1>2

(* Every step preserves the invariant and maps to a step of RpcService or  *)
(* to a stutter.                                                           *)
LEMMA RefNext ==
    ASSUME InOrder, TRUE \notin Background, RInv, [Next]_vars
    PROVE  RInv' /\ [Service!Next]_(Service!vars)
<1>1. IInv'
  BY Zenon, InvNext DEF RInv
<1>2. CASE \E total \in 1 .. MaxReqPkts : EnqueueRequest(total)
  BY Zenon, <1>1, <1>2, RefEnqueueRequest DEF RInv
<1>3. CASE ProcessCreditStallQueue
  <2>1. UNCHANGED <<ctx, cnum, num_rx, rbuf, sslot>>
    BY Zenon, <1>3 DEF ProcessCreditStallQueue, Kill, client, cslot, server
  <2> QED
    BY Zenon, <1>1, <2>1, RefFrame DEF RInv
<1>4. CASE \E p \in Deliverable(s2c) : ClientRx(p)
  <2>1. PICK p \in Deliverable(s2c) : ClientRx(p)
    BY Zenon, <1>4
  <2>2. CASE ProcessExplCr(p)
    <3>1. UNCHANGED <<ctx, cnum, num_rx, rbuf, sslot>>
      BY Zenon, <2>2 DEF ProcessExplCr, Kill, client, cslot, server
    <3> QED
      BY Zenon, <1>1, <3>1, RefFrame DEF RInv
  <2>3. CASE ProcessSmallResp(p)
    BY Zenon, <1>1, <2>3, RefSmallResp DEF RInv
  <2>4. CASE ProcessLargeResp(p)
    BY Zenon, <1>1, <2>4, RefLargeResp DEF RInv
  <2> QED
    BY Zenon, <2>1, <2>2, <2>3, <2>4 DEF ClientRx
<1>5. CASE \E p \in Deliverable(c2s) : ServerRx(p)
  <2>1. PICK p \in Deliverable(c2s) : ServerRx(p)
    BY <1>5
  <2>2. CASE ProcessRfr(p)
    BY <1>1, <2>2, RefRfr DEF RInv
  <2>3. CASE ~ ProcessRfr(p)
    <3>1. ProcessSmallReq(p, FALSE) \/ ProcessLargeReq(p, FALSE)
      BY Zenon, <2>1, <2>3, ModeAssumption DEF ServerRx
    <3> QED
      BY Zenon, <1>1, <3>1, RefSmallReq, RefLargeReq DEF RInv
  <2> QED
    BY Zenon, <2>2, <2>3
<1>6. CASE \E s \in Slots, total \in 1 .. MaxRespPkts : EnqueueResponse(s, total)
  BY Zenon, <1>1, <1>6, RefEnqueueResponse DEF RInv
<1>7. CASE \/ EnqueueBacklog \/ EnqueueRequestInBackground \/ ProcessBgEnqueueRequest
           \/ \E s \in Slots : RunBackgroundHandler(s)
           \/ ProcessBgEnqueueResponse
           \/ UNCHANGED vars
  <2>1. UNCHANGED <<ctx, cnum, num_rx, rbuf, sslot>>
    BY Zenon, <1>7 DEF EnqueueBacklog, EnqueueRequestInBackground, ProcessBgEnqueueRequest,
                RunBackgroundHandler, ProcessBgEnqueueResponse, Kill, vars, client, server, cslot
  <2> QED
    BY <1>1, <2>1, RefFrame DEF RInv
<1> QED
  BY Zenon, <1>2, <1>3, <1>4, <1>5, <1>6, <1>7 DEF Next

(* The datapath implements RpcService, but for its liveness: on an         *)
(* in-order network, with handlers in the dispatch thread, each request is *)
(* executed once, on all of its packets in order, and its continuation     *)
(* sees all packets of the handler's response in order, for any number of  *)
(* slots and credits and any message sizes.                                *)
THEOREM Refinement ==
    ASSUME InOrder, TRUE \notin Background
    PROVE  Spec => Service!Init /\ [][Service!Next]_(Service!vars)
<1>1. RInv /\ [Next]_vars => RInv' /\ [Service!Next]_(Service!vars)
  BY Zenon, RefNext
<1> QED
  BY <1>1, RefInit, PTL DEF Spec
===============================================================================
