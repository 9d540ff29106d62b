------------------------- MODULE IbTransportProofs ---------------------------
(***************************************************************************)
(* The queues of IbTransport for every depth, batch size and number of     *)
(* packets: what is posted, completed and in flight is accounted for.      *)
(***************************************************************************)
EXTENDS IbTransport, FiniteSetTheorems, TLAPS

-------------------------------------------------------------------------------
(* The inductive invariant.                                                *)

(* The dispatch thread is in process_comps_st; the packets of the burst    *)
(* that it has processed are not yet posted again.                         *)
InRx == pc = "rx" \/ (pc = "burst" /\ then = "rx")
Held == IF InRx THEN num - todo ELSE 0

Item == [flow : Flows, n : Nat]
Send == [flow : Flows \cup {"flush"}, n : Nat, signaled : BOOLEAN]

LoopInv ==
    /\ pc \in {"loop", "rx", "drain", "burst", "flush", "flushed"}
    /\ then \in {"loop", "rx", "drain", "flush"}
    /\ num \in 0 .. kPostlist /\ todo \in 0 .. num /\ (InRx \/ todo = 0)
    /\ batch \in Seq(Item) /\ Len(batch) <= kPostlist
    /\ pc # "burst" => Len(batch) < kPostlist
    /\ pc = "flush" => batch = << >>
    /\ nb_tx \in Nat /\ ctrl \in [Ctrl -> Nat] /\ ctrl_head \in Ctrl
    /\ sq \in Seq(Send) /\ executed \in Nat /\ send_cq \in Seq(Nat)
    /\ ring \in [Ring -> Nat] /\ rx_ring_head \in Ring /\ rq \in Seq(Ring) /\ recv_cq \in Nat
    /\ recv_head \in Ring /\ recvs_to_post \in 0 .. kRecvSlack - 1
    /\ given \in [Flows -> Nat] /\ left \in [Flows -> Nat] /\ dropped \in Nat

(* The ring: from rx_ring_head on, the entries of the packets that wait,   *)
(* those of the RECVs posted, and those that are to be posted.             *)
Waiting == recv_cq + todo
Done == given["cr"] - Waiting
Pos(x, j) == (x + j) % kRQDepth

RingInv ==
    /\ Len(rq) + Waiting + Held + recvs_to_post = kRQDepth
    /\ \A i \in 1 .. Len(rq) : rq[i] = Pos(rx_ring_head, Waiting + i - 1)
    /\ recv_head = Pos(rx_ring_head, Waiting + Len(rq))
    /\ Waiting <= given["cr"]
    /\ \A j \in 0 .. Waiting - 1 : ring[Pos(rx_ring_head, j)] = Done + 1 + j

(* Control headers: the i-th packet of the batch uses one of the last      *)
(* Len(batch) - i + 1 that were filled in.                                 *)
Age(h, c) == IF c < h THEN h - c ELSE h + 2 * kUnsigBatch - c

CtrlInv ==
    \A i \in 1 .. Len(batch) : batch[i].flow \in Headers =>
        batch[i].n \in Ctrl /\ Age(ctrl_head, batch[i].n) <= Len(batch) - i + 1

(* What has been posted or waits in the batch: of each flow the packets    *)
(* that have been handed over and have not left, in this order.            *)
Packet(item) == [flow |-> item.flow, n |-> IF item.flow \in Headers THEN ctrl[item.n] ELSE item.n]
Pending == [i \in 1 .. Len(sq) + Len(batch) |->
              IF i <= Len(sq) THEN [flow |-> sq[i].flow, n |-> sq[i].n]
              ELSE Packet(batch[i - Len(sq)])]

Numbered(w, f, a, b) ==
    /\ a <= b
    /\ \A i \in 1 .. Len(w) : w[i].flow = f => w[i].n \in a + 1 .. b
    /\ \A i, j \in 1 .. Len(w) : i < j /\ w[i].flow = f /\ w[j].flow = f => w[i].n < w[j].n
    /\ \A n \in a + 1 .. b : \E i \in 1 .. Len(w) : w[i].flow = f /\ w[i].n = n

Entered(f) == IF f = "cr" THEN Done ELSE given[f]

FlowInv == \A f \in Flows : Numbered(Pending, f, left[f], Entered(f))

(* The SEND queue: one signaled SEND is in it or has completed, Since of   *)
(* the others have been posted after it, and those up to it are at most    *)
(* kUnsigBatch.                                                            *)
Since == IF nb_tx % kUnsigBatch = 0 THEN kUnsigBatch - 1 ELSE (nb_tx % kUnsigBatch) - 1
OnlySignal(k) == \A i \in 1 .. Len(sq) : sq[i].signaled <=> i = k

Idle == nb_tx = 0 /\ pc # "flushed" /\ sq = << >> /\ executed = 0 /\ send_cq = << >>
InQueue ==
    /\ nb_tx # 0 /\ pc # "flushed" /\ send_cq = << >>
    /\ \E k \in 1 .. Len(sq) :
          OnlySignal(k) /\ Len(sq) - k = Since /\ executed + k <= kUnsigBatch
Completed ==
    /\ nb_tx # 0 /\ pc # "flushed" /\ OnlySignal(0) /\ Len(sq) + executed = Since
    /\ \E v \in 1 .. kUnsigBatch : send_cq = <<v>>
Flushing ==
    /\ nb_tx # 0 /\ pc = "flushed" /\ send_cq = << >> /\ sq # << >> /\ OnlySignal(Len(sq))
    /\ executed + Len(sq) <= kUnsigBatch
Flushed ==
    /\ nb_tx # 0 /\ pc = "flushed" /\ sq = << >> /\ executed = 0
    /\ \E v \in 1 .. kUnsigBatch : send_cq = <<v>>

SendInv == Idle \/ InQueue \/ Completed \/ Flushing \/ Flushed

IInv == LoopInv /\ RingInv /\ CtrlInv /\ FlowInv /\ SendInv

-------------------------------------------------------------------------------
(* Remainders.                                                             *)

LEMMA ModDef ==
    ASSUME NEW a \in Nat, NEW n \in Nat \ {0}
    PROVE  a % n \in 0 .. n - 1 /\ a \div n \in Nat /\ a = n * (a \div n) + (a % n)
OBVIOUS

LEMMA ModUnique ==
    ASSUME NEW n \in Nat \ {0}, NEW q \in Int, NEW p \in Int, NEW r \in 0 .. n - 1,
           NEW s \in 0 .. n - 1, n * q + r = n * p + s
    PROVE  r = s
<1>1. CASE q <= p - 1
  <2>1. n * q <= n * (p - 1)
    BY <1>1
  <2>2. n * (p - 1) = n * p - n
    OBVIOUS
  <2> QED
    BY <2>1, <2>2
<1>2. CASE p <= q - 1
  <2>1. n * p <= n * (q - 1)
    BY <1>2
  <2>2. n * (q - 1) = n * q - n
    OBVIOUS
  <2> QED
    BY <2>1, <2>2
<1> QED
  BY <1>1, <1>2

(* Counting on from a remainder, once round at most.                       *)
LEMMA ModSum ==
    ASSUME NEW n \in Nat \ {0}, NEW a \in Nat, NEW j \in 0 .. n
    PROVE  (a + j) % n = IF (a % n) + j < n THEN (a % n) + j ELSE (a % n) + j - n
<1>1. PICK q, r, p, s : q = a \div n /\ r = a % n /\ p = (a + j) \div n /\ s = (a + j) % n
  BY Zenon
<1>2. r \in 0 .. n - 1 /\ q \in Nat /\ a = n * q + r
  BY Zenon, <1>1, ModDef
<1>3. s \in 0 .. n - 1 /\ p \in Nat /\ a + j = n * p + s
  <2>1. a + j \in Nat
    OBVIOUS
  <2> QED
    BY Zenon, <1>1, <2>1, ModDef
<1>4. CASE r + j < n
  <2>1. r + j \in 0 .. n - 1 /\ n * q + (r + j) = n * p + s
    BY <1>2, <1>3, <1>4
  <2>2. r + j = s
    BY <1>2, <1>3, <2>1, ModUnique
  <2> QED
    BY Zenon, <1>1, <1>4, <2>2
<1>5. CASE r + j >= n
  <2>1. PICK t, u : t = q + 1 /\ u = r + j - n
    BY Zenon
  <2>2. u \in 0 .. n - 1 /\ t \in Int
    BY <1>2, <1>5, <2>1
  <2>3. n * t = n * q + n
    BY <1>2, <2>1
  <2>4. n * t + u = n * p + s
    BY <1>2, <1>3, <2>1, <2>3
  <2>5. p \in Int
    BY <1>3
  <2>6. u = s
    BY Zenon, <1>3, <2>2, <2>4, <2>5, ModUnique
  <2> QED
    BY <1>1, <1>2, <1>5, <2>1, <2>6
<1> QED
  BY <1>2, <1>4, <1>5

(* Positions in a ring of n entries.                                       *)
LEMMA ModRing ==
    ASSUME NEW n \in Nat \ {0}, NEW a \in 0 .. n - 1, NEW j \in 0 .. n
    PROVE  (a + j) % n = IF a + j < n THEN a + j ELSE a + j - n
<1>1. a % n = a /\ a \in Nat
  OBVIOUS
<1>2. (a + j) % n = IF (a % n) + j < n THEN (a % n) + j ELSE (a % n) + j - n
  BY Zenon, <1>1, ModSum
<1> QED
  BY Zenon, <1>1, <1>2

-------------------------------------------------------------------------------
(* Sequences, and the constants.                                           *)

LEMMA TailSeq ==
    ASSUME NEW S, NEW s \in Seq(S), s # << >>
    PROVE  /\ Head(s) = s[1] /\ s[1] \in S /\ Len(s) \in Nat /\ Len(s) >= 1
           /\ Tail(s) \in Seq(S) /\ Len(Tail(s)) = Len(s) - 1
           /\ \A i \in 1 .. Len(s) - 1 : Tail(s)[i] = s[i + 1]
OBVIOUS

LEMMA AppendSeq ==
    ASSUME NEW S, NEW s \in Seq(S), NEW x \in S, NEW t, t = Append(s, x)
    PROVE  /\ t \in Seq(S) /\ Len(t) = Len(s) + 1 /\ Len(s) \in Nat
           /\ t[Len(s) + 1] = x /\ \A i \in 1 .. Len(s) : t[i] = s[i]
OBVIOUS

LEMMA ConcatSeq ==
    ASSUME NEW S, NEW s \in Seq(S), NEW t \in Seq(S), NEW u, u = s \o t
    PROVE  /\ u \in Seq(S) /\ Len(u) = Len(s) + Len(t) /\ Len(s) \in Nat /\ Len(t) \in Nat
           /\ \A i \in 1 .. Len(s) : u[i] = s[i]
           /\ \A i \in 1 .. Len(t) : u[Len(s) + i] = t[i]
OBVIOUS

LEMMA DropSeq ==
    ASSUME NEW S, NEW s \in Seq(S), NEW c \in Nat, c <= Len(s), NEW t, t = SubSeq(s, c + 1, Len(s))
    PROVE  /\ t \in Seq(S) /\ Len(t) = Len(s) - c
           /\ \A i \in 1 .. Len(s) - c : t[i] = s[i + c]
<1>1. t = [i \in 1 .. Len(s) - c |-> s[i + c]]
  OBVIOUS
<1>2. \A i \in 1 .. Len(s) - c : i + c \in 1 .. Len(s)
  OBVIOUS
<1>3. \A i \in 1 .. Len(s) - c : s[i + c] \in S
  BY <1>2
<1> QED
  BY <1>1, <1>3

LEMMA Constants ==
    /\ kRQDepth \in Nat \ {0} /\ kSQDepth \in Nat /\ kUnsigBatch \in Nat \ {0}
    /\ kPostlist \in Nat \ {0} /\ kRecvSlack \in Nat \ {0} /\ Credits \in Nat \ {0}
    /\ 2 * kUnsigBatch <= kSQDepth /\ kPostlist <= kUnsigBatch
    /\ Credits <= kRQDepth
BY Zenon, QueueAssumption, RingAssumption

LEMMA FlowNames ==
    /\ Flows = {"cr", "rfr", "data"} /\ Headers = {"cr", "rfr"} /\ "data" \notin Headers
BY Zenon DEF Flows, Headers

(* enqueue_hdr_tx_burst_st and enqueue_pkt_tx_burst_st                     *)
LEMMA EnqueueBatch ==
    ASSUME LoopInv, NEW item \in Item, NEW at, pc # "burst", at # "burst", Enqueue(item, at)
    PROVE  /\ batch' \in Seq(Item) /\ Len(batch') = Len(batch) + 1 /\ Len(batch) \in Nat
           /\ Len(batch') <= kPostlist /\ then' = at /\ pc' \in {at, "burst"}
           /\ pc' # "burst" => Len(batch') < kPostlist
           /\ batch'[Len(batch) + 1] = item /\ \A i \in 1 .. Len(batch) : batch'[i] = batch[i]
<1>1. batch \in Seq(Item) /\ Len(batch) < kPostlist
  BY Zenon DEF LoopInv
<1>2. batch' = Append(batch, item) /\ then' = at
  BY Zenon DEF Enqueue
<1>3. /\ batch' \in Seq(Item) /\ Len(batch') = Len(batch) + 1 /\ Len(batch) \in Nat
      /\ batch'[Len(batch) + 1] = item /\ \A i \in 1 .. Len(batch) : batch'[i] = batch[i]
  BY <1>1, <1>2, AppendSeq
<1>4. Len(batch') <= kPostlist
  BY <1>1, <1>3, Constants
<1>5. pc' = IF Len(batch) + 1 = kPostlist THEN "burst" ELSE at
  BY Zenon DEF Enqueue
<1>6. pc' # "burst" => Len(batch') < kPostlist
  BY <1>1, <1>3, <1>5, Constants
<1>7. pc' \in {at, "burst"}
  BY Zenon, <1>5
<1> QED
  BY Zenon, <1>2, <1>3, <1>4, <1>6, <1>7

-------------------------------------------------------------------------------
(* LoopInv.                                                                *)

LEMMA LoopStep == ASSUME IInv, [Next]_vars PROVE LoopInv'
<1>0. LoopInv /\ RingInv
  BY Zenon DEF IInv
<1>1. CASE EnqueueData
  <2>1. PICK item : item = [flow |-> "data", n |-> given["data"] + 1]
    BY Zenon
  <2>2. given["data"] \in Nat
    BY Zenon, <1>0, FlowNames DEF LoopInv
  <2>3. item \in Item
    BY <2>1, <2>2, FlowNames DEF Item
  <2>4. Enqueue(item, pc) /\ pc \in {"loop", "rx", "drain"} /\ pc # "burst"
    BY Zenon, <1>1, <2>1 DEF EnqueueData
  <2>5. /\ batch' \in Seq(Item) /\ Len(batch') <= kPostlist /\ then' = pc
        /\ pc' \in {pc, "burst"} /\ (pc' # "burst" => Len(batch') < kPostlist)
    BY Zenon, <1>0, <2>3, <2>4, EnqueueBatch
  <2>6. given' \in [Flows -> Nat]
    <3>1. given["data"] + 1 \in Nat
      BY <2>2
    <3> QED
      BY Zenon, <1>0, <1>1, <3>1 DEF EnqueueData, LoopInv
  <2>7. UNCHANGED <<num, todo, rx_ring_head, ctrl, ctrl_head, nb_tx, sendq, rx, recvq, left>>
    BY Zenon, <1>1 DEF EnqueueData
  <2>8. InRx \/ todo = 0
    BY Zenon, <1>0 DEF LoopInv
  <2>9. InRx' <=> InRx
    BY Zenon, <2>4, <2>5 DEF InRx
  <2>10. pc' \in {"loop", "rx", "drain", "burst"} /\ then' \in {"loop", "rx", "drain"}
    BY Zenon, <2>4, <2>5
  <2> QED
    BY Zenon, <1>0, <2>5, <2>6, <2>7, <2>8, <2>9, <2>10 DEF LoopInv, sendq, rx, recvq
<1>2. CASE RxBurst
  <2>1. PICK n : n = IF recv_cq < kPostlist THEN recv_cq ELSE kPostlist
    BY Zenon
  <2>2. /\ pc = "loop" /\ num' = n /\ todo' = n /\ recv_cq' = recv_cq - n
        /\ pc' = IF n = 0 THEN "drain" ELSE "rx"
    BY Zenon, <1>2, <2>1 DEF RxBurst
  <2>3. n \in 0 .. kPostlist /\ recv_cq - n \in Nat
    BY <1>0, <2>1, Constants DEF LoopInv
  <2>4. UNCHANGED <<then, rx_ring_head, tx, sendq, rx, ring, rq, dropped, given, left>>
    BY Zenon, <1>2 DEF RxBurst
  <2> QED
    BY <1>0, <2>2, <2>3, <2>4 DEF LoopInv, InRx, tx, sendq, rx
<1>3. CASE ProcessPacket
  <2>1. PICK item : item = [flow |-> "cr", n |-> ctrl_head]
    BY Zenon
  <2>2. ctrl_head \in Ctrl /\ ctrl_head \in Nat
    BY <1>0, Constants DEF LoopInv, Ctrl
  <2>3. item \in Item
    BY Zenon, <2>1, <2>2, FlowNames DEF Item
  <2>4. Enqueue(item, "rx") /\ pc = "rx" /\ todo > 0
    BY Zenon, <1>3, <2>1 DEF ProcessPacket, enqueue_cr_st, EnqueueHeader
  <2>5. /\ batch' \in Seq(Item) /\ Len(batch') <= kPostlist /\ then' = "rx"
        /\ pc' \in {"rx", "burst"} /\ (pc' # "burst" => Len(batch') < kPostlist)
    BY Zenon, <1>0, <2>3, <2>4, EnqueueBatch
  <2>6. ring[rx_ring_head] \in Nat
    BY Zenon, <1>0 DEF LoopInv
  <2>7. ctrl' \in [Ctrl -> Nat] /\ ctrl_head' \in Ctrl
    BY <1>0, <1>3, <2>2, <2>6, Constants DEF ProcessPacket, enqueue_cr_st,
                                              EnqueueHeader, LoopInv, NextCtrl, Ctrl
  <2>8. rx_ring_head' \in Ring
    <3>1. rx_ring_head + 1 \in Nat
      BY <1>0, Constants DEF LoopInv, Ring
    <3> QED
      BY Zenon, <1>3, <3>1, Constants, ModDef DEF ProcessPacket, Ring
  <2>9. todo' = todo - 1 /\ UNCHANGED <<num, nb_tx, sendq, rx, recvq, given, left>>
    BY Zenon, <1>3 DEF ProcessPacket
  <2>10. todo' \in 0 .. num
    BY <1>0, <2>4, <2>9, Constants DEF LoopInv
  <2> QED
    BY Zenon, <1>0, <2>5, <2>7, <2>8, <2>9, <2>10 DEF LoopInv, InRx, sendq, rx, recvq
<1>4. CASE PostRecvs
  <2>1. PICK k : k = recvs_to_post + num
    BY Zenon
  <2>2. k \in Nat /\ todo = 0 /\ pc' = "drain" /\ pc = "rx"
    BY <1>0, <1>4, <2>1, Constants DEF LoopInv, PostRecvs
  <2>3. UNCHANGED <<then, num, todo, rx_ring_head, tx, sendq, ring, recv_cq, dropped, given, left>>
    BY Zenon, <1>4 DEF PostRecvs
  <2>4. rq' \in Seq(Ring) /\ recv_head' \in Ring /\ recvs_to_post' \in 0 .. kRecvSlack - 1
    <3>1. CASE k < kRecvSlack
      BY <1>0, <1>4, <2>1, <2>2, <3>1, Constants DEF PostRecvs, LoopInv
    <3>2. CASE ~ (k < kRecvSlack)
      <4>1. PICK t : t = [i \in 1 .. k |-> (recv_head + i - 1) % kRQDepth]
        BY Zenon
      <4>2. rq' = rq \o t /\ recv_head' = (recv_head + k) % kRQDepth /\ recvs_to_post' = 0
        BY Zenon, <1>4, <2>1, <3>2, <4>1 DEF PostRecvs, After, LeftToPost
      <4>3. \A a \in Nat : a % kRQDepth \in Ring
        BY Zenon, Constants, ModDef DEF Ring
      <4>4. recv_head \in Nat
        BY <1>0, Constants DEF LoopInv, Ring
      <4>5. \A i \in 1 .. k : recv_head + i - 1 \in Nat
        BY <2>2, <4>4
      <4>6. t \in Seq(Ring)
        BY <2>2, <4>1, <4>3, <4>5
      <4>7. rq' \in Seq(Ring)
        BY Zenon, <1>0, <4>2, <4>6, ConcatSeq DEF LoopInv
      <4>8. recv_head + k \in Nat
        BY <2>2, <4>4
      <4>9. recv_head' \in Ring
        BY Zenon, <4>2, <4>3, <4>8
      <4>10. 0 \in 0 .. kRecvSlack - 1
        BY Constants
      <4> QED
        BY Zenon, <4>2, <4>7, <4>9, <4>10
    <3> QED
      BY Zenon, <3>1, <3>2
  <2> QED
    BY Zenon, <1>0, <2>2, <2>3, <2>4 DEF LoopInv, InRx, tx, sendq
<1>5. CASE Drain
  <2>1. /\ pc = "drain" /\ pc' = (IF batch = << >> THEN "loop" ELSE "burst") /\ then' = "loop"
        /\ UNCHANGED <<num, todo, rx_ring_head, tx, sendq, rx, recvq, given, left>>
    BY Zenon, <1>5 DEF Drain
  <2> QED
    BY Zenon, <1>0, <2>1 DEF LoopInv, InRx, tx, sendq, rx, recvq
<1>6. CASE TxBurst
  <2>1. PICK c : /\ c <= Len(send_cq) /\ send_cq' = SubSeq(send_cq, c + 1, Len(send_cq))
                 /\ c = Cardinality({i \in nb_tx .. nb_tx + Len(batch) - 1 : Polls(i)})
    BY Zenon, <1>6 DEF TxBurst
  <2>2. c \in Nat
    <3>1. nb_tx \in Nat /\ nb_tx + Len(batch) - 1 \in Int
      BY <1>0 DEF LoopInv
    <3>2. IsFiniteSet(nb_tx .. nb_tx + Len(batch) - 1)
      BY <3>1, FS_Interval
    <3> QED
      BY Zenon, <2>1, <3>2, FS_Subset, FS_CardinalityType
  <2>3. send_cq' \in Seq(Nat)
    <3>1. send_cq \in Seq(Nat)
      BY Zenon, <1>0 DEF LoopInv
    <3> QED
      BY Zenon, <2>1, <2>2, <3>1, DropSeq
  <2>4. sq' \in Seq(Send)
    <3>1. PICK t : t = [i \in 1 .. Len(batch) |-> Posted(batch[i], nb_tx + i - 1)]
      BY Zenon
    <3>2. ASSUME NEW i \in 1 .. Len(batch) PROVE Posted(batch[i], nb_tx + i - 1) \in Send
      <4>1. batch[i] \in Item
        BY <1>0 DEF LoopInv
      <4>2. batch[i].flow \in Flows /\ batch[i].n \in Nat
        BY Zenon, <4>1 DEF Item
      <4>3. Signaled(nb_tx + i - 1) \in BOOLEAN
        BY Zenon DEF Signaled
      <4>4. ASSUME batch[i].flow \in Headers PROVE ctrl[batch[i].n] \in Nat
        BY Zenon, <1>0, <4>4 DEF IInv, CtrlInv, LoopInv
      <4> QED
        BY Zenon, <4>2, <4>3, <4>4 DEF Posted, Send
    <3>3. t \in Seq(Send)
      <4>1. Len(batch) \in Nat
        BY <1>0 DEF LoopInv
      <4> QED
        BY <3>1, <3>2, <4>1
    <3>4. sq' = sq \o t
      BY Zenon, <1>6, <3>1 DEF TxBurst
    <3> QED
      BY Zenon, <1>0, <3>3, <3>4, ConcatSeq DEF LoopInv
  <2>5. nb_tx' \in Nat /\ batch' = << >> /\ pc' = then /\ pc = "burst"
    BY <1>0, <1>6 DEF TxBurst, LoopInv
  <2>6. batch' \in Seq(Item) /\ Len(batch') = 0
    BY <2>5
  <2>7. UNCHANGED <<then, num, todo, rx_ring_head, ctrl, ctrl_head, executed, rx, recvq, given, left>>
    BY Zenon, <1>6 DEF TxBurst
  <2> QED
    BY <1>0, <2>3, <2>4, <2>5, <2>6, <2>7, Constants DEF LoopInv, InRx, rx, recvq
<1>7. CASE DrainTxBatch
  <2>1. /\ pc = "loop" /\ pc' = (IF batch = << >> THEN "flush" ELSE "burst") /\ then' = "flush"
        /\ UNCHANGED <<num, todo, rx_ring_head, tx, sendq, rx, recvq, given, left>>
    BY Zenon, <1>7 DEF DrainTxBatch
  <2> QED
    BY Zenon, <1>0, <2>1 DEF LoopInv, InRx, tx, sendq, rx, recvq
<1>8. CASE FlushPost
  <2>1. pc = "flush" /\ pc' \in {"loop", "flushed"} /\ executed' = executed
    BY Zenon, <1>8 DEF FlushPost, sendq
  <2>2. sq' \in Seq(Send) /\ send_cq' \in Seq(Nat)
    <3>1. sq \in Seq(Send) /\ send_cq \in Seq(Nat)
      BY Zenon, <1>0 DEF LoopInv
    <3>2. [flow |-> "flush", signaled |-> TRUE, n |-> 0] \in Send
      BY Zenon DEF Send
    <3>3. CASE UNCHANGED sendq
      BY Zenon, <3>1, <3>3 DEF sendq
    <3>4. CASE /\ send_cq # << >> /\ send_cq' = Tail(send_cq)
               /\ sq' = Append(sq, [flow |-> "flush", signaled |-> TRUE, n |-> 0])
      BY Zenon, <3>1, <3>2, <3>4, AppendSeq, TailSeq
    <3> QED
      BY Zenon, <1>8, <3>3, <3>4 DEF FlushPost
  <2>3. UNCHANGED <<then, num, todo, rx_ring_head, tx, rx, recvq, given, left>>
    BY Zenon, <1>8 DEF FlushPost
  <2> QED
    BY Zenon, <1>0, <2>1, <2>2, <2>3 DEF LoopInv, InRx, tx, rx, recvq
<1>9. CASE FlushPoll
  <2>1. pc = "flushed" /\ pc' = "loop" /\ nb_tx' = 0
    BY Zenon, <1>9 DEF FlushPoll
  <2>2. send_cq' \in Seq(Nat)
    BY Zenon, <1>0, <1>9, TailSeq DEF FlushPoll, LoopInv
  <2>3. UNCHANGED <<then, num, todo, rx_ring_head, ctrl, ctrl_head, batch, sq, executed, rx, recvq,
                    given, left>>
    BY Zenon, <1>9 DEF FlushPoll
  <2> QED
    BY Zenon, <1>0, <2>1, <2>2, <2>3 DEF LoopInv, InRx, rx, recvq
<1>10. CASE NicSend
  <2>1. PICK e : e = Head(sq)
    BY Zenon
  <2>2. sq \in Seq(Send) /\ sq # << >> /\ send_cq \in Seq(Nat) /\ executed \in Nat
    BY Zenon, <1>0, <1>10 DEF LoopInv, NicSend
  <2>3. e \in Send /\ Tail(sq) \in Seq(Send)
    BY Zenon, <2>1, <2>2, TailSeq
  <2>4. e.n \in Nat /\ e.signaled \in BOOLEAN
    BY Zenon, <2>3 DEF Send
  <2>5. left' \in [Flows -> Nat]
    <3>1. left' = IF e.flow \in Flows THEN [left EXCEPT ![e.flow] = e.n] ELSE left
      BY Zenon, <1>10, <2>1 DEF NicSend
    <3> QED
      BY Zenon, <1>0, <2>4, <3>1 DEF LoopInv
  <2>6. send_cq' \in Seq(Nat) /\ executed' \in Nat
    <3>1. executed + 1 \in Nat
      BY <2>2
    <3>2. Append(send_cq, executed + 1) \in Seq(Nat)
      BY <2>2, <3>1
    <3> QED
      BY Zenon, <1>10, <2>1, <2>2, <2>4, <3>1, <3>2 DEF NicSend
  <2>7. sq' \in Seq(Send) /\ UNCHANGED <<loop, tx, rx, recvq, given>>
    BY Zenon, <1>10, <2>3 DEF NicSend
  <2> QED
    BY Zenon, <1>0, <2>5, <2>6, <2>7 DEF LoopInv, InRx, loop, tx, rx, recvq
<1>11. CASE NicRecv
  <2>1. rq \in Seq(Ring) /\ rq # << >> /\ recv_cq \in Nat /\ given["cr"] \in Nat
    BY Zenon, <1>0, <1>11, FlowNames DEF LoopInv, NicRecv
  <2>2. Tail(rq) \in Seq(Ring) /\ recv_cq + 1 \in Nat /\ given["cr"] + 1 \in Nat
    BY <2>1, TailSeq
  <2>3. given' \in [Flows -> Nat] /\ ring' \in [Ring -> Nat]
    BY Zenon, <1>0, <1>11, <2>2 DEF LoopInv, NicRecv
  <2>4. rq' \in Seq(Ring) /\ recv_cq' \in Nat /\ UNCHANGED <<loop, tx, sendq, rx, dropped, left>>
    BY Zenon, <1>11, <2>2 DEF NicRecv
  <2> QED
    BY Zenon, <1>0, <2>3, <2>4 DEF LoopInv, InRx, loop, tx, sendq, rx
<1>12. CASE UNCHANGED vars
  BY Zenon, <1>0, <1>12 DEF LoopInv, InRx, vars, loop, tx, sendq, rx, recvq
<1>13. CASE enqueue_rfr_st
  <2>1. PICK item, n : item = [flow |-> "rfr", n |-> ctrl_head] /\ n = given["rfr"] + 1
    BY Zenon
  <2>2. ctrl_head \in Ctrl /\ ctrl_head \in Nat /\ n \in Nat
    <3>1. given["rfr"] \in Nat
      BY Zenon, <1>0, FlowNames DEF LoopInv
    <3> QED
      BY <1>0, <2>1, <3>1, Constants DEF LoopInv, Ctrl
  <2>3. item \in Item
    BY Zenon, <2>1, <2>2, FlowNames DEF Item
  <2>4. Enqueue(item, "rx") /\ pc = "rx"
    BY Zenon, <1>13, <2>1 DEF enqueue_rfr_st, EnqueueHeader
  <2>5. /\ batch' \in Seq(Item) /\ Len(batch') <= kPostlist /\ then' = "rx"
        /\ pc' \in {"rx", "burst"} /\ (pc' # "burst" => Len(batch') < kPostlist)
    BY Zenon, <1>0, <2>3, <2>4, EnqueueBatch
  <2>6. ctrl' = [ctrl EXCEPT ![ctrl_head] = n] /\ ctrl_head' = NextCtrl(ctrl_head)
    BY Zenon, <1>13, <2>1 DEF enqueue_rfr_st, EnqueueHeader
  <2>7. ctrl' \in [Ctrl -> Nat] /\ ctrl_head' \in Ctrl
    BY <1>0, <2>2, <2>6, Constants DEF LoopInv, NextCtrl, Ctrl
  <2>8. given' \in [Flows -> Nat]
    BY Zenon, <1>0, <1>13, <2>1, <2>2 DEF enqueue_rfr_st, LoopInv
  <2>9. UNCHANGED <<num, todo, rx_ring_head, nb_tx, sendq, rx, recvq, left>>
    BY Zenon, <1>13 DEF enqueue_rfr_st
  <2> QED
    BY Zenon, <1>0, <2>4, <2>5, <2>7, <2>8, <2>9 DEF LoopInv, InRx, sendq, rx, recvq
<1>14. CASE NicDrop
  <2>1. dropped' \in Nat
    BY <1>0, <1>14 DEF NicDrop, LoopInv
  <2>2. UNCHANGED <<loop, tx, sendq, rx, ring, rq, recv_cq, given, left>>
    BY Zenon, <1>14 DEF NicDrop
  <2> QED
    BY Zenon, <1>0, <2>1, <2>2 DEF LoopInv, InRx, loop, tx, sendq, rx
<1> QED
  BY Zenon, <1>1, <1>2, <1>3, <1>4, <1>5, <1>6, <1>7, <1>8, <1>9, <1>10, <1>11, <1>12, <1>13, <1>14
  DEF Next, Thread

-------------------------------------------------------------------------------
(* RingInv.                                                                *)

LEMMA RingPos ==
    ASSUME NEW x \in Ring, NEW j \in 0 .. kRQDepth
    PROVE  (x + j) % kRQDepth = IF x + j < kRQDepth THEN x + j ELSE x + j - kRQDepth
BY Zenon, Constants, ModRing DEF Ring

LEMMA RingTypes ==
    ASSUME LoopInv, RingInv
    PROVE  /\ rx_ring_head \in Ring /\ Waiting \in Nat /\ Len(rq) \in Nat /\ Held \in Nat
           /\ recvs_to_post \in Nat /\ given["cr"] \in Nat /\ Held <= kPostlist
           /\ recvs_to_post <= kRecvSlack - 1 /\ Waiting + Len(rq) <= kRQDepth
<1>1. /\ rx_ring_head \in Ring /\ recv_cq \in Nat /\ num \in 0 .. kPostlist /\ todo \in 0 .. num
      /\ rq \in Seq(Ring) /\ recvs_to_post \in 0 .. kRecvSlack - 1 /\ given["cr"] \in Nat
  BY Zenon, FlowNames DEF LoopInv
<1>2. Waiting \in Nat /\ Len(rq) \in Nat
  BY <1>1, Constants DEF Waiting
<1>3. Held \in Nat /\ Held <= kPostlist
  BY <1>1, Constants DEF Held
<1>4. recvs_to_post \in Nat /\ recvs_to_post <= kRecvSlack - 1
  BY <1>1, Constants
<1>5. Len(rq) + Waiting + Held + recvs_to_post = kRQDepth
  BY Zenon DEF RingInv
<1>6. Waiting + Len(rq) <= kRQDepth
  BY <1>2, <1>3, <1>4, <1>5, Constants
<1> QED
  BY Zenon, <1>1, <1>2, <1>3, <1>4, <1>6

LEMMA RingSame ==
    ASSUME RingInv, UNCHANGED <<rx_ring_head, rq, recv_head, recvs_to_post, ring>>,
           given'["cr"] = given["cr"], Waiting' = Waiting, Held' = Held
    PROVE  RingInv'
BY Zenon DEF RingInv, Done

(* The dispatch thread takes the oldest packet that waits.                 *)
LEMMA RingProcess ==
    ASSUME IInv, ProcessPacket, LoopInv'
    PROVE  RingInv' /\ ring[rx_ring_head] = Done + 1 /\ Done' = Done + 1
<1>1. PICK D, x, y, k, L : /\ D = kRQDepth /\ x = rx_ring_head /\ y = rx_ring_head'
                           /\ k = Waiting /\ L = Len(rq)
  BY Zenon
<1>2. /\ x \in 0 .. D - 1 /\ k \in Nat /\ L \in Nat /\ D \in Nat \ {0} /\ k + L <= D
      /\ given["cr"] \in Nat /\ Held \in Nat
  BY Zenon, <1>1, RingTypes, Constants DEF IInv, Ring
<1>3. /\ todo > 0 /\ todo' = todo - 1 /\ num' = num /\ recv_cq' = recv_cq /\ pc = "rx"
      /\ UNCHANGED <<ring, rq, recv_head, recvs_to_post, given>> /\ y = (x + 1) % D
  BY Zenon, <1>1 DEF ProcessPacket, rx, recvq
<1>4. num \in Nat /\ todo \in Nat /\ recv_cq \in Nat
  BY Constants DEF IInv, LoopInv
<1>5. k > 0 /\ Waiting' = k - 1
  BY <1>1, <1>3, <1>4 DEF Waiting
<1>6. Held' = Held + 1
  <2>1. InRx /\ InRx'
    <3>1. pc' \in {"rx", "burst"} /\ then' = "rx"
      BY Zenon DEF ProcessPacket, enqueue_cr_st, EnqueueHeader, Enqueue
    <3> QED
      BY Zenon, <1>3, <3>1 DEF InRx
  <2> QED
    BY <1>3, <1>4, <2>1 DEF Held
<1>7. \A j \in 0 .. D : (x + j) % D = IF x + j < D THEN x + j ELSE x + j - D
  BY Zenon, <1>1, <1>2, RingPos DEF Ring
<1>8. y = IF x + 1 < D THEN x + 1 ELSE 0
  BY <1>2, <1>3, <1>7
<1>9. y \in 0 .. D - 1
  BY <1>2, <1>8
<1>10. \A j \in 0 .. D : (y + j) % D = IF y + j < D THEN y + j ELSE y + j - D
  BY Zenon, <1>1, <1>9, RingPos DEF Ring
<1>11. \A j \in 0 .. D - 1 : (y + j) % D = (x + (j + 1)) % D
  <2> TAKE j \in 0 .. D - 1
  <2>1. (y + j) % D = IF y + j < D THEN y + j ELSE y + j - D
    BY <1>2, <1>10
  <2>2. j + 1 \in 0 .. D
    BY <1>2
  <2>3. (x + (j + 1)) % D = IF x + (j + 1) < D THEN x + (j + 1) ELSE x + (j + 1) - D
    BY Zenon, <1>7, <2>2
  <2> QED
    BY <1>2, <1>8, <2>1, <2>3
<1>12. \A j \in 0 .. D - 1 : Pos(y, j) = Pos(x, j + 1)
  BY Zenon, <1>1, <1>11 DEF Pos
<1>13. Done' = Done + 1
  BY <1>1, <1>2, <1>3, <1>5 DEF Done
<1>14. Len(rq') + Waiting' + Held' + recvs_to_post' = kRQDepth
  <2>1. L + k + Held + recvs_to_post = D /\ recvs_to_post \in Nat
    BY Zenon, <1>1, RingTypes DEF IInv, RingInv
  <2> QED
    BY <1>1, <1>2, <1>3, <1>5, <1>6, <2>1
<1>15. ASSUME NEW i \in 1 .. Len(rq') PROVE rq'[i] = Pos(rx_ring_head', Waiting' + i - 1)
  <2>1. rq'[i] = Pos(x, k + i - 1)
    BY Zenon, <1>1, <1>3 DEF IInv, RingInv
  <2>2. PICK j : j = (k - 1) + i - 1
    BY Zenon
  <2>3. j \in 0 .. D - 1 /\ j + 1 = k + i - 1
    BY <1>1, <1>2, <1>3, <1>5, <2>2
  <2> QED
    BY Zenon, <1>1, <1>5, <1>12, <2>1, <2>2, <2>3
<1>16. recv_head' = Pos(rx_ring_head', Waiting' + Len(rq'))
  <2>1. recv_head' = Pos(x, k + L)
    BY Zenon, <1>1, <1>3 DEF IInv, RingInv
  <2>2. PICK j : j = (k - 1) + L
    BY Zenon
  <2>3. j \in 0 .. D - 1 /\ j + 1 = k + L
    BY <1>2, <1>5, <2>2
  <2> QED
    BY Zenon, <1>1, <1>3, <1>5, <1>12, <2>1, <2>2, <2>3
<1>17. Waiting' <= given'["cr"]
  <2>1. k <= given["cr"]
    BY Zenon, <1>1 DEF IInv, RingInv
  <2> QED
    BY <1>2, <1>3, <1>5, <2>1
<1>18. ASSUME NEW j \in 0 .. Waiting' - 1 PROVE ring'[Pos(rx_ring_head', j)] = Done' + 1 + j
  <2>1. j + 1 \in 0 .. k - 1 /\ j \in 0 .. D - 1 /\ j \in Nat
    BY <1>2, <1>5
  <2>2. ring[Pos(x, j + 1)] = Done + 1 + (j + 1)
    BY Zenon, <1>1, <2>1 DEF IInv, RingInv
  <2>3. Done \in Int
    BY <1>1, <1>2 DEF Done
  <2> QED
    BY <1>1, <1>3, <1>12, <1>13, <2>1, <2>2, <2>3
<1>19. RingInv'
  BY Zenon, <1>14, <1>15, <1>16, <1>17, <1>18 DEF RingInv
<1>20. ring[rx_ring_head] = Done + 1
  <2>1. 0 \in 0 .. k - 1
    BY <1>2, <1>5
  <2>2. ring[Pos(x, 0)] = Done + 1 + 0
    BY Zenon, <1>1, <2>1 DEF IInv, RingInv
  <2>3. Pos(x, 0) = x
    BY <1>1, <1>2, <1>7 DEF Pos
  <2>4. Done \in Int
    BY <1>1, <1>2 DEF Done
  <2> QED
    BY <1>1, <2>2, <2>3, <2>4
<1> QED
  BY Zenon, <1>13, <1>19, <1>20

LEMMA PosPos ==
    ASSUME NEW x \in Ring, NEW a \in Nat, NEW b \in Nat, a + b <= kRQDepth
    PROVE  Pos(x, a) \in Ring /\ Pos(Pos(x, a), b) = Pos(x, a + b)
<1>1. PICK D, y : D = kRQDepth /\ y = (x + a) % D
  BY Zenon
<1>2. D \in Nat \ {0} /\ a \in 0 .. D /\ b \in 0 .. D /\ a + b \in 0 .. D /\ x \in 0 .. D - 1
  BY <1>1, Constants DEF Ring
<1>3. y = IF x + a < D THEN x + a ELSE x + a - D
  BY Zenon, <1>1, <1>2, RingPos
<1>4. y \in 0 .. D - 1
  BY <1>2, <1>3
<1>5. (y + b) % D = IF y + b < D THEN y + b ELSE y + b - D
  BY Zenon, <1>1, <1>2, <1>4, RingPos DEF Ring
<1>6. (x + (a + b)) % D = IF x + (a + b) < D THEN x + (a + b) ELSE x + (a + b) - D
  BY Zenon, <1>1, <1>2, RingPos
<1>7. (y + b) % D = (x + (a + b)) % D
  BY <1>2, <1>3, <1>5, <1>6
<1> QED
  BY Zenon, <1>1, <1>4, <1>7 DEF Pos, Ring

(* Different positions, less than a round apart.                           *)
LEMMA PosApart ==
    ASSUME NEW x \in Ring, NEW a \in Nat, NEW b \in Nat, a < kRQDepth, b < kRQDepth,
           Pos(x, a) = Pos(x, b)
    PROVE  a = b
<1>1. PICK D : D = kRQDepth
  BY Zenon
<1>2. D \in Nat \ {0} /\ a \in 0 .. D /\ b \in 0 .. D /\ x \in 0 .. D - 1
  BY <1>1, Constants DEF Ring
<1>3. (x + a) % D = IF x + a < D THEN x + a ELSE x + a - D
  BY Zenon, <1>1, <1>2, RingPos
<1>4. (x + b) % D = IF x + b < D THEN x + b ELSE x + b - D
  BY Zenon, <1>1, <1>2, RingPos
<1>5. (x + a) % D = (x + b) % D
  BY Zenon, <1>1 DEF Pos
<1> QED
  BY <1>1, <1>2, <1>3, <1>4, <1>5

LEMMA RingPost == ASSUME IInv, PostRecvs PROVE RingInv'
<1>1. PICK x, k, L, p : /\ x = rx_ring_head /\ k = Waiting /\ L = Len(rq)
                        /\ p = recvs_to_post + num
  BY Zenon
<1>2. /\ x \in Ring /\ k \in Nat /\ L \in Nat /\ k + L <= kRQDepth /\ kRQDepth \in Nat
      /\ given["cr"] \in Nat /\ rq \in Seq(Ring)
  BY Zenon, <1>1, RingTypes, Constants DEF IInv, LoopInv
<1>3. /\ todo = 0 /\ pc = "rx" /\ pc' = "drain"
      /\ UNCHANGED <<todo, recv_cq, num, rx_ring_head, ring, given>>
  BY Zenon DEF PostRecvs
<1>4. num \in Nat /\ recvs_to_post \in Nat /\ p \in Nat
  BY <1>1, Constants DEF IInv, LoopInv
<1>5. Held = num /\ Held' = 0 /\ Waiting' = k /\ Done' = Done
  <2>1. InRx /\ ~ InRx'
    BY Zenon, <1>3 DEF InRx
  <2> QED
    BY <1>1, <1>3, <1>4, <2>1 DEF Held, Waiting, Done
<1>6. L + k + p = kRQDepth
  <2>1. L + k + num + recvs_to_post = kRQDepth
    BY Zenon, <1>1, <1>5 DEF IInv, RingInv
  <2> QED
    BY <1>1, <1>2, <1>4, <2>1
<1>7. /\ \A i \in 1 .. L : rq[i] = Pos(x, k + i - 1)
      /\ recv_head = Pos(x, k + L) /\ k <= given["cr"]
      /\ \A j \in 0 .. k - 1 : ring[Pos(x, j)] = Done + 1 + j
  BY Zenon, <1>1 DEF IInv, RingInv
<1>8. /\ Waiting' <= given'["cr"]
      /\ \A j \in 0 .. Waiting' - 1 : ring'[Pos(rx_ring_head', j)] = Done' + 1 + j
  BY Zenon, <1>1, <1>3, <1>5, <1>7
<1>9. CASE p < kRecvSlack
  <2>1. recvs_to_post' = p /\ UNCHANGED <<recv_head, rq>>
    BY Zenon, <1>1, <1>9 DEF PostRecvs
  <2>2. Len(rq') + Waiting' + Held' + recvs_to_post' = kRQDepth
    BY <1>1, <1>2, <1>4, <1>5, <1>6, <2>1
  <2>3. recv_head' = Pos(rx_ring_head', Waiting' + Len(rq'))
    BY Zenon, <1>1, <1>3, <1>5, <1>7, <2>1
  <2>4. \A i \in 1 .. Len(rq') : rq'[i] = Pos(rx_ring_head', Waiting' + i - 1)
    BY Zenon, <1>1, <1>3, <1>5, <1>7, <2>1
  <2> QED
    BY Zenon, <1>8, <2>2, <2>3, <2>4 DEF RingInv
<1>10. CASE ~ (p < kRecvSlack)
  <2>1. PICK t : t = [i \in 1 .. p |-> (recv_head + i - 1) % kRQDepth]
    BY Zenon
  <2>2. rq' = rq \o t /\ recv_head' = (recv_head + p) % kRQDepth /\ recvs_to_post' = 0
    BY Zenon, <1>1, <1>10, <2>1 DEF PostRecvs, After, LeftToPost
  <2>3. Len(t) = p
    BY <1>4, <2>1
  <2>4. \A i \in 1 .. p : t[i] = Pos(x, k + (L + i) - 1)
    <3> TAKE i \in 1 .. p
    <3>1. PICK b : b = i - 1
      BY Zenon
    <3>2. b \in Nat /\ (k + L) + b <= kRQDepth /\ k + L \in Nat
      BY <1>2, <1>4, <1>6, <3>1
    <3>3. Pos(Pos(x, k + L), b) = Pos(x, (k + L) + b)
      BY Zenon, <1>2, <3>2, PosPos
    <3>4. recv_head \in Nat
      BY Constants DEF IInv, LoopInv, Ring
    <3>5. recv_head + i - 1 = recv_head + b /\ (k + L) + b = k + (L + i) - 1
      BY <1>2, <3>1, <3>4
    <3>6. t[i] = Pos(recv_head, b)
      BY Zenon, <2>1, <3>5 DEF Pos
    <3> QED
      BY Zenon, <1>7, <3>3, <3>5, <3>6
  <2>5. t \in Seq(Ring)
    <3>1. \A a \in Nat : a % kRQDepth \in Ring
      BY Zenon, Constants, ModDef DEF Ring
    <3>2. recv_head \in Nat
      BY Constants DEF IInv, LoopInv, Ring
    <3>3. \A i \in 1 .. p : recv_head + i - 1 \in Nat
      BY <1>4, <3>2
    <3> QED
      BY <1>4, <2>1, <3>1, <3>3
  <2>6. /\ Len(rq') = L + p /\ \A i \in 1 .. L : rq'[i] = rq[i]
        /\ \A i \in 1 .. p : rq'[L + i] = t[i]
    <3>1. /\ Len(rq') = Len(rq) + Len(t) /\ \A i \in 1 .. Len(rq) : rq'[i] = rq[i]
          /\ \A i \in 1 .. Len(t) : rq'[Len(rq) + i] = t[i]
      BY <1>2, <2>2, <2>5, ConcatSeq
    <3> QED
      BY Zenon, <1>1, <1>2, <2>3, <3>1
  <2>7. ASSUME NEW i \in 1 .. Len(rq') PROVE rq'[i] = Pos(rx_ring_head', Waiting' + i - 1)
    <3>1. CASE i \in 1 .. L
      BY Zenon, <1>1, <1>3, <1>5, <1>7, <2>6, <3>1
    <3>2. CASE i \notin 1 .. L
      <4>1. PICK j : j = i - L
        BY Zenon
      <4>2. j \in 1 .. p /\ i = L + j
        BY <1>2, <1>4, <2>6, <3>2, <4>1
      <4> QED
        BY Zenon, <1>1, <1>3, <1>5, <2>4, <2>6, <4>2
    <3> QED
      BY Zenon, <3>1, <3>2
  <2>8. recv_head' = Pos(rx_ring_head', Waiting' + Len(rq'))
    <3>1. Pos(Pos(x, k + L), p) = Pos(x, (k + L) + p)
      <4>1. k + L \in Nat /\ (k + L) + p <= kRQDepth
        BY <1>2, <1>4, <1>6
      <4> QED
        BY Zenon, <1>2, <1>4, <4>1, PosPos
    <3>2. (k + L) + p = k + (L + p)
      BY <1>2, <1>4
    <3> QED
      BY Zenon, <1>1, <1>3, <1>5, <1>7, <2>2, <2>6, <3>1, <3>2 DEF Pos
  <2>9. Len(rq') + Waiting' + Held' + recvs_to_post' = kRQDepth
    BY <1>2, <1>4, <1>5, <1>6, <2>2, <2>6
  <2> QED
    BY Zenon, <1>8, <2>7, <2>8, <2>9 DEF RingInv
<1> QED
  BY Zenon, <1>9, <1>10

(* The NIC stores a packet in the entry after those that wait.             *)
LEMMA RingReceive == ASSUME IInv, NicRecv PROVE RingInv' /\ Done' = Done
<1>1. PICK x, k, L : x = rx_ring_head /\ k = Waiting /\ L = Len(rq)
  BY Zenon
<1>2. /\ x \in Ring /\ k \in Nat /\ L \in Nat /\ k + L <= kRQDepth /\ kRQDepth \in Nat
      /\ given["cr"] \in Nat /\ rq \in Seq(Ring) /\ Held \in Nat /\ recvs_to_post \in Nat
  BY Zenon, <1>1, RingTypes, Constants DEF IInv, LoopInv
<1>3. /\ rq # << >> /\ given' = [given EXCEPT !["cr"] = @ + 1]
      /\ ring' = [ring EXCEPT ![Head(rq)] = given["cr"] + 1] /\ rq' = Tail(rq)
      /\ recv_cq' = recv_cq + 1 /\ UNCHANGED <<loop, rx>>
  BY Zenon DEF NicRecv
<1>4. /\ L >= 1 /\ rq[1] = Head(rq) /\ Len(rq') = L - 1
      /\ \A i \in 1 .. L - 1 : rq'[i] = rq[i + 1]
  BY Zenon, <1>1, <1>2, <1>3, TailSeq
<1>5. given'["cr"] = given["cr"] + 1
  BY Zenon, <1>3, FlowNames DEF IInv, LoopInv
<1>6. Waiting' = k + 1 /\ Held' = Held
  <2>1. recv_cq \in Nat /\ todo \in Nat
    BY Constants DEF IInv, LoopInv
  <2> QED
    BY <1>1, <1>3, <2>1 DEF Waiting, Held, InRx, loop
<1>7. Done' = Done /\ Done \in Int
  BY <1>1, <1>2, <1>5, <1>6 DEF Done
<1>8. /\ \A i \in 1 .. L : rq[i] = Pos(x, k + i - 1)
      /\ recv_head = Pos(x, k + L) /\ k <= given["cr"]
      /\ \A j \in 0 .. k - 1 : ring[Pos(x, j)] = Done + 1 + j
      /\ L + k + Held + recvs_to_post = kRQDepth
  BY Zenon, <1>1 DEF IInv, RingInv
<1>9. rx_ring_head' = x /\ recv_head' = recv_head /\ recvs_to_post' = recvs_to_post
  BY Zenon, <1>1, <1>3 DEF loop, rx
<1>10. Len(rq') + Waiting' + Held' + recvs_to_post' = kRQDepth
  BY <1>2, <1>4, <1>6, <1>8, <1>9
<1>11. ASSUME NEW i \in 1 .. Len(rq') PROVE rq'[i] = Pos(rx_ring_head', Waiting' + i - 1)
  <2>1. i + 1 \in 1 .. L /\ i \in 1 .. L - 1 /\ k + (i + 1) - 1 = (k + 1) + i - 1
    BY <1>2, <1>4
  <2> QED
    BY Zenon, <1>4, <1>6, <1>8, <1>9, <2>1
<1>12. recv_head' = Pos(rx_ring_head', Waiting' + Len(rq'))
  <2>1. (k + 1) + (L - 1) = k + L
    BY <1>2
  <2> QED
    BY Zenon, <1>4, <1>6, <1>8, <1>9, <2>1
<1>13. Waiting' <= given'["cr"]
  BY <1>2, <1>5, <1>6, <1>8
<1>14. Head(rq) = Pos(x, k) /\ Pos(x, k) \in Ring
  <2>1. 1 \in 1 .. L /\ k + 1 - 1 = k
    BY <1>2, <1>4
  <2>2. Head(rq) = Pos(x, k)
    BY Zenon, <1>4, <1>8, <2>1
  <2>3. rq[1] \in Ring
    BY Zenon, <1>2, <1>3, TailSeq
  <2> QED
    BY Zenon, <1>4, <2>2, <2>3
<1>15. ring \in [Ring -> Nat]
  BY Zenon DEF IInv, LoopInv
<1>16. ASSUME NEW j \in 0 .. Waiting' - 1 PROVE ring'[Pos(rx_ring_head', j)] = Done' + 1 + j
  <2>1. CASE j = k
    <3>1. ring'[Pos(x, k)] = given["cr"] + 1
      BY Zenon, <1>3, <1>14, <1>15
    <3>2. given["cr"] + 1 = Done + 1 + k
      BY <1>1, <1>2 DEF Done
    <3> QED
      BY Zenon, <1>7, <1>9, <2>1, <3>1, <3>2
  <2>2. CASE j # k
    <3>1. j \in 0 .. k - 1 /\ j \in Nat /\ j < kRQDepth /\ k < kRQDepth /\ j + 0 <= kRQDepth
      BY <1>2, <1>4, <1>6, <2>2
    <3>2. Pos(x, j) # Pos(x, k)
      BY Zenon, <1>2, <2>2, <3>1, PosApart
    <3>3. Pos(x, j) \in Ring
      BY Zenon, <1>2, <3>1, PosPos
    <3>4. ring'[Pos(x, j)] = ring[Pos(x, j)]
      BY Zenon, <1>3, <1>14, <1>15, <3>2, <3>3
    <3> QED
      BY Zenon, <1>7, <1>8, <1>9, <3>1, <3>4
  <2> QED
    BY Zenon, <2>1, <2>2
<1> QED
  BY Zenon, <1>7, <1>10, <1>11, <1>12, <1>13, <1>16 DEF RingInv

(* Every other step leaves the ring, or only looks at it.                  *)
LEMMA RingRest ==
    ASSUME IInv, [Next]_vars, ~ ProcessPacket, ~ PostRecvs, ~ NicRecv
    PROVE  RingInv' /\ Done' = Done
<1>1. /\ num \in Nat /\ todo \in Nat /\ recv_cq \in Nat /\ (InRx \/ todo = 0)
      /\ then \in {"loop", "rx", "drain", "flush"} /\ given["cr"] \in Nat /\ kPostlist \in Nat
  BY Constants, FlowNames DEF IInv, LoopInv
<1>2. UNCHANGED <<rx_ring_head, rq, recv_head, recvs_to_post, ring>> /\ given'["cr"] = given["cr"]
  <2>1. CASE EnqueueData
    <3>1. given' = [given EXCEPT !["data"] = @ + 1] /\ given \in [Flows -> Nat]
      BY Zenon, <2>1 DEF EnqueueData, IInv, LoopInv
    <3>2. given'["cr"] = given["cr"]
      BY <3>1
    <3> QED
      BY Zenon, <2>1, <3>2 DEF EnqueueData, rx, recvq
  <2>2. CASE enqueue_rfr_st
    <3>1. given' = [given EXCEPT !["rfr"] = @ + 1] /\ given \in [Flows -> Nat]
      BY Zenon, <2>2 DEF enqueue_rfr_st, IInv, LoopInv
    <3>2. given'["cr"] = given["cr"]
      BY <3>1
    <3> QED
      BY Zenon, <2>2, <3>2 DEF enqueue_rfr_st, rx, recvq
  <2>3. CASE ~ EnqueueData /\ ~ enqueue_rfr_st
    <3>1. given' = given
      BY Zenon, <2>3 DEF Next, Thread, vars, RxBurst, Drain, TxBurst, FlushPost, FlushPoll,
                         DrainTxBatch, NicSend, NicDrop
    <3>2. UNCHANGED <<rx_ring_head, rq, recv_head, recvs_to_post, ring>>
      BY Zenon, <2>3 DEF Next, Thread, vars, RxBurst, Drain, TxBurst, FlushPost, FlushPoll,
                         DrainTxBatch, NicSend, NicDrop, loop, rx, recvq
    <3> QED
      BY Zenon, <3>1, <3>2
  <2> QED
    BY Zenon, <2>1, <2>2, <2>3
<1>3. Waiting' = Waiting /\ Held' = Held
  <2>1. CASE RxBurst
    <3>1. PICK n : /\ n = (IF recv_cq < kPostlist THEN recv_cq ELSE kPostlist)
                   /\ pc = "loop" /\ num' = n /\ todo' = n /\ recv_cq' = recv_cq - n
      BY Zenon, <2>1 DEF RxBurst
    <3>2. ~ InRx
      BY Zenon, <3>1 DEF InRx
    <3>3. n \in Nat /\ todo = 0
      BY Zenon, <1>1, <3>1, <3>2
    <3> QED
      BY <1>1, <3>1, <3>2, <3>3 DEF Waiting, Held, InRx
  <2>2. CASE ~ RxBurst
    <3>1. UNCHANGED <<num, todo, recv_cq>>
      BY Zenon, <2>2 DEF Next, Thread, vars, EnqueueData, enqueue_rfr_st, Drain, TxBurst, FlushPost,
                         FlushPoll, DrainTxBatch, NicSend, NicDrop, loop, recvq
    <3>2. InRx' <=> InRx
      <4>1. CASE Drain \/ DrainTxBatch \/ FlushPost \/ FlushPoll
        BY Zenon, <4>1 DEF Drain, DrainTxBatch, FlushPost, FlushPoll, InRx
      <4>2. CASE TxBurst
        BY Zenon, <1>1, <4>2 DEF TxBurst, InRx
      <4>3. CASE NicSend \/ NicDrop \/ UNCHANGED vars
        BY Zenon, <4>3 DEF NicSend, NicDrop, vars, loop, InRx
      <4>4. CASE EnqueueData \/ enqueue_rfr_st
        <5>1. pc # "burst" /\ then' = pc /\ pc' \in {pc, "burst"}
          BY Zenon, <4>4 DEF EnqueueData, enqueue_rfr_st, EnqueueHeader, Enqueue
        <5> QED
          BY Zenon, <5>1 DEF InRx
      <4> QED
        BY Zenon, <2>2, <4>1, <4>2, <4>3, <4>4 DEF Next, Thread
    <3> QED
      BY Zenon, <3>1, <3>2 DEF Waiting, Held
  <2> QED
    BY Zenon, <2>1, <2>2
<1>4. RingInv'
  BY Zenon, <1>2, <1>3, RingSame DEF IInv
<1> QED
  BY Zenon, <1>2, <1>3, <1>4 DEF Done

LEMMA RingPostDone == ASSUME IInv, PostRecvs PROVE Done' = Done
BY Zenon DEF PostRecvs, Done, Waiting

LEMMA RingStep == ASSUME IInv, [Next]_vars PROVE RingInv'
BY Zenon, LoopStep, RingProcess, RingPost, RingReceive, RingRest

LEMMA DoneSame == ASSUME IInv, [Next]_vars, ~ ProcessPacket PROVE Done' = Done
BY Zenon, RingPostDone, RingReceive, RingRest

-------------------------------------------------------------------------------
(* Control headers.                                                        *)

(* The next header is filled in; those of the batch grow older.            *)
LEMMA CtrlNext ==
    ASSUME IInv, NEW f \in Headers, ctrl_head' = NextCtrl(ctrl_head),
           batch' = Append(batch, [flow |-> f, n |-> ctrl_head])
    PROVE  CtrlInv'
<1>1. PICK U : U = kUnsigBatch /\ U \in Nat \ {0} /\ kPostlist \in Nat /\ kPostlist <= U
  BY Zenon, Constants
<1>2. ctrl_head \in 0 .. 2 * U - 1 /\ batch \in Seq(Item) /\ Len(batch) <= kPostlist
  BY Zenon, <1>1 DEF IInv, LoopInv, Ctrl
<1>3. ASSUME NEW i \in 1 .. Len(batch), batch[i].flow \in Headers
      PROVE  batch[i].n \in 0 .. 2 * U - 1 /\ Age(ctrl_head, batch[i].n) <= Len(batch) - i + 1
  BY Zenon, <1>1, <1>3 DEF IInv, CtrlInv, Ctrl
<1>4. ctrl_head' = IF ctrl_head + 1 = 2 * U THEN 0 ELSE ctrl_head + 1
  BY Zenon, <1>1 DEF NextCtrl
<1>5. [flow |-> f, n |-> ctrl_head] \in Item
  BY <1>1, <1>2, FlowNames DEF Item
<1>6. /\ Len(batch') = Len(batch) + 1 /\ Len(batch) \in Nat
      /\ batch'[Len(batch) + 1] = [flow |-> f, n |-> ctrl_head]
      /\ \A i \in 1 .. Len(batch) : batch'[i] = batch[i]
  BY <1>2, <1>5, AppendSeq
<1>7. ASSUME NEW i \in 1 .. Len(batch'), batch'[i].flow \in Headers
      PROVE  batch'[i].n \in Ctrl /\ Age(ctrl_head', batch'[i].n) <= Len(batch') - i + 1
  <2>1. CASE i = Len(batch) + 1
    <3>1. batch'[i].n = ctrl_head
      BY <1>6, <2>1
    <3>2. Age(ctrl_head', batch'[i].n) <= 1
      BY <1>1, <1>2, <1>4, <3>1 DEF Age
    <3> QED
      BY <1>1, <1>2, <1>6, <2>1, <3>1, <3>2 DEF Ctrl
  <2>2. CASE i # Len(batch) + 1
    <3>1. i \in 1 .. Len(batch) /\ batch'[i] = batch[i]
      BY <1>6, <2>2
    <3>2. PICK c : c = batch[i].n
      BY Zenon
    <3>3. c \in 0 .. 2 * U - 1 /\ Age(ctrl_head, c) <= Len(batch) - i + 1
      BY Zenon, <1>3, <1>7, <3>1, <3>2
    <3>4. c # ctrl_head
      BY <1>1, <1>2, <3>1, <3>3 DEF Age
    <3>5. Age(ctrl_head', c) <= Age(ctrl_head, c) + 1 /\ Age(ctrl_head, c) \in Int /\ Age(ctrl_head', c) \in Int
      BY <1>1, <1>2, <1>4, <3>3, <3>4 DEF Age
    <3>6. Age(ctrl_head', c) <= Len(batch') - i + 1
      BY <1>6, <3>1, <3>3, <3>5
    <3> QED
      BY Zenon, <1>1, <3>1, <3>2, <3>3, <3>6 DEF Ctrl
  <2> QED
    BY Zenon, <2>1, <2>2
<1> QED
  BY Zenon, <1>7 DEF CtrlInv

LEMMA CtrlStep == ASSUME IInv, [Next]_vars PROVE CtrlInv'
<1>1. PICK U : U = kUnsigBatch /\ U \in Nat \ {0} /\ kPostlist \in Nat /\ kPostlist <= U
  BY Zenon, Constants
<1>2. ctrl_head \in 0 .. 2 * U - 1 /\ batch \in Seq(Item) /\ Len(batch) <= kPostlist
  BY Zenon, <1>1 DEF IInv, LoopInv, Ctrl
<1>3. ASSUME NEW i \in 1 .. Len(batch), batch[i].flow \in Headers
      PROVE  batch[i].n \in 0 .. 2 * U - 1 /\ Age(ctrl_head, batch[i].n) <= Len(batch) - i + 1
  BY Zenon, <1>1, <1>3 DEF IInv, CtrlInv, Ctrl
<1>4. CASE ProcessPacket \/ enqueue_rfr_st
  <2>1. PICK f \in Headers : /\ ctrl_head' = NextCtrl(ctrl_head)
                            /\ batch' = Append(batch, [flow |-> f, n |-> ctrl_head])
    BY Zenon, <1>4 DEF ProcessPacket, enqueue_cr_st, enqueue_rfr_st, EnqueueHeader, Enqueue, Headers
  <2> QED
    BY Zenon, <2>1, CtrlNext
<1>5. CASE EnqueueData
  <2>1. /\ batch' = Append(batch, [flow |-> "data", n |-> given["data"] + 1])
        /\ ctrl_head' = ctrl_head
    BY Zenon, <1>5 DEF EnqueueData, Enqueue
  <2>2. [flow |-> "data", n |-> given["data"] + 1] \in Item
    <3>1. given["data"] \in Nat
      BY Zenon, FlowNames DEF IInv, LoopInv
    <3> QED
      BY <3>1, FlowNames DEF Item
  <2>3. /\ Len(batch') = Len(batch) + 1 /\ Len(batch) \in Nat
        /\ batch'[Len(batch) + 1] = [flow |-> "data", n |-> given["data"] + 1]
        /\ \A i \in 1 .. Len(batch) : batch'[i] = batch[i]
    BY <1>2, <2>1, <2>2, AppendSeq
  <2>4. ASSUME NEW i \in 1 .. Len(batch'), batch'[i].flow \in Headers
        PROVE  batch'[i].n \in Ctrl /\ Age(ctrl_head', batch'[i].n) <= Len(batch') - i + 1
    <3>1. i # Len(batch) + 1
      BY <2>3, <2>4, FlowNames
    <3>2. i \in 1 .. Len(batch) /\ batch'[i] = batch[i]
      BY <2>3, <3>1
    <3>3. PICK c : c = batch[i].n
      BY Zenon
    <3>4. c \in 0 .. 2 * U - 1 /\ Age(ctrl_head, c) <= Len(batch) - i + 1
      BY Zenon, <1>3, <2>4, <3>2, <3>3
    <3>5. Age(ctrl_head', c) = Age(ctrl_head, c) /\ Age(ctrl_head, c) \in Int
      BY <1>1, <1>2, <2>1, <3>4 DEF Age
    <3>6. Age(ctrl_head', c) <= Len(batch') - i + 1
      BY <2>3, <3>2, <3>4, <3>5
    <3> QED
      BY Zenon, <1>1, <3>2, <3>3, <3>4, <3>6 DEF Ctrl
  <2> QED
    BY Zenon, <2>4 DEF CtrlInv
<1>6. CASE TxBurst
  <2>1. batch' = << >>
    BY Zenon, <1>6 DEF TxBurst
  <2> QED
    BY <2>1 DEF CtrlInv
<1>7. CASE ~ ProcessPacket /\ ~ enqueue_rfr_st /\ ~ EnqueueData /\ ~ TxBurst
  <2>1. UNCHANGED <<batch, ctrl_head>>
    BY Zenon, <1>7 DEF Next, Thread, vars, RxBurst, PostRecvs, Drain, FlushPost, FlushPoll,
                       DrainTxBatch, NicSend, NicRecv, NicDrop, tx
  <2> QED
    BY Zenon, <2>1 DEF IInv, CtrlInv, Age
<1> QED
  BY Zenon, <1>4, <1>5, <1>6, <1>7

-------------------------------------------------------------------------------
(* The packets of a flow, numbered from a + 1 to b.                        *)

Extends(u, w, x) ==
    /\ Len(u) = Len(w) + 1 /\ Len(w) \in Nat /\ u[Len(w) + 1] = x
    /\ \A i \in 1 .. Len(w) : u[i] = w[i]

Drops(u, w) ==
    /\ Len(w) \in Nat /\ Len(w) >= 1 /\ Len(u) = Len(w) - 1
    /\ \A i \in 1 .. Len(w) - 1 : u[i] = w[i + 1]

LEMMA NumberedAppend ==
    ASSUME NEW w, NEW x, NEW u, Extends(u, w, x), NEW f, NEW a \in Nat,
           NEW b \in Nat, Numbered(w, f, a, b), x.flow = f => x.n = b + 1
    PROVE  Numbered(u, f, a, IF x.flow = f THEN b + 1 ELSE b)
<1>1. /\ Len(u) = Len(w) + 1 /\ Len(w) \in Nat /\ u[Len(w) + 1] = x
      /\ \A i \in 1 .. Len(w) : u[i] = w[i]
  BY Zenon DEF Extends
<1>2. PICK c : c = IF x.flow = f THEN b + 1 ELSE b
  BY Zenon
<1>3. c \in Nat /\ a <= c /\ b <= c
  BY <1>2 DEF Numbered
<1>4. \A i \in 1 .. Len(w) : w[i].flow = f => w[i].n \in a + 1 .. b
  BY Zenon DEF Numbered
<1>5. \A i \in 1 .. Len(u) : i = Len(w) + 1 \/ i \in 1 .. Len(w)
  BY <1>1
<1>6. ASSUME NEW i \in 1 .. Len(u), u[i].flow = f PROVE u[i].n \in a + 1 .. c
  <2>1. CASE i = Len(w) + 1
    <3>1. u[i].n = c /\ c = b + 1
      BY Zenon, <1>1, <1>2, <1>6, <2>1
    <3> QED
      BY <1>3, <3>1 DEF Numbered
  <2>2. CASE i \in 1 .. Len(w)
    <3>1. u[i].n \in a + 1 .. b
      BY Zenon, <1>1, <1>4, <1>6, <2>2
    <3> QED
      BY <1>3, <3>1
  <2> QED
    BY Zenon, <1>5, <2>1, <2>2
<1>7. ASSUME NEW i \in 1 .. Len(u), NEW j \in 1 .. Len(u), i < j, u[i].flow = f, u[j].flow = f
      PROVE  u[i].n < u[j].n
  <2>1. i \in 1 .. Len(w)
    BY <1>1, <1>7
  <2>2. CASE j = Len(w) + 1
    <3>1. u[j].n = b + 1
      BY Zenon, <1>1, <1>7, <2>2
    <3>2. u[i].n \in a + 1 .. b
      BY Zenon, <1>1, <1>4, <1>7, <2>1
    <3> QED
      BY <3>1, <3>2
  <2>3. CASE j \in 1 .. Len(w)
    BY Zenon, <1>1, <1>7, <2>1, <2>3 DEF Numbered
  <2> QED
    BY Zenon, <1>5, <2>2, <2>3
<1>8. ASSUME NEW n \in a + 1 .. c PROVE \E i \in 1 .. Len(u) : u[i].flow = f /\ u[i].n = n
  <2>1. CASE n \in a + 1 .. b
    <3>1. PICK i \in 1 .. Len(w) : w[i].flow = f /\ w[i].n = n
      BY Zenon, <2>1 DEF Numbered
    <3>2. i \in 1 .. Len(u) /\ u[i] = w[i]
      BY <1>1
    <3> QED
      BY Zenon, <3>1, <3>2
  <2>2. CASE n \notin a + 1 .. b
    <3>1. x.flow = f /\ n = b + 1 /\ Len(w) + 1 \in 1 .. Len(u)
      BY <1>1, <1>2, <2>2
    <3> QED
      BY Zenon, <1>1, <3>1
  <2> QED
    BY Zenon, <2>1, <2>2
<1> QED
  BY Zenon, <1>2, <1>3, <1>6, <1>7, <1>8 DEF Numbered

LEMMA NumberedTail ==
    ASSUME NEW w, NEW u, Drops(u, w), NEW f, NEW a \in Nat, NEW b \in Nat, Numbered(w, f, a, b)
    PROVE  /\ w[1].flow = f => w[1].n = a + 1 /\ Numbered(u, f, a + 1, b)
           /\ w[1].flow # f => Numbered(u, f, a, b)
<1>1. /\ Len(w) \in Nat /\ Len(w) >= 1 /\ Len(u) = Len(w) - 1
      /\ \A i \in 1 .. Len(w) - 1 : u[i] = w[i + 1]
  BY Zenon DEF Drops
<1>2. \A i \in 1 .. Len(u) : i + 1 \in 1 .. Len(w) /\ u[i] = w[i + 1] /\ 1 < i + 1
  BY <1>1
<1>3. 1 \in 1 .. Len(w)
  BY <1>1
<1>4. \A i \in 1 .. Len(w) : w[i].flow = f => w[i].n \in a + 1 .. b
  BY Zenon DEF Numbered
<1>5. \A i, j \in 1 .. Len(u) : i < j /\ u[i].flow = f /\ u[j].flow = f => u[i].n < u[j].n
  <2> SUFFICES ASSUME NEW i \in 1 .. Len(u), NEW j \in 1 .. Len(u), i < j, u[i].flow = f, u[j].flow = f
               PROVE  u[i].n < u[j].n
    BY Zenon
  <2>1. i + 1 < j + 1
    BY <1>1
  <2>2. /\ i + 1 \in 1 .. Len(w) /\ j + 1 \in 1 .. Len(w)
        /\ w[i + 1] = u[i] /\ w[j + 1] = u[j]
    BY Zenon, <1>2
  <2>3. w[i + 1].n < w[j + 1].n
    BY Zenon, <2>1, <2>2 DEF Numbered
  <2> QED
    BY Zenon, <2>2, <2>3
<1>6. CASE w[1].flow = f
  <2>1. w[1].n \in a + 1 .. b
    BY Zenon, <1>1, <1>3, <1>4, <1>6
  <2>2. w[1].n = a + 1
    <3>1. a + 1 \in a + 1 .. b
      BY <2>1
    <3>2. PICK i \in 1 .. Len(w) : w[i].flow = f /\ w[i].n = a + 1
      BY Zenon, <3>1 DEF Numbered
    <3>3. CASE i = 1
      BY Zenon, <3>2, <3>3
    <3>4. CASE i # 1
      <4>1. 1 < i
        BY <1>1, <3>4
      <4>2. w[1].n < w[i].n
        BY Zenon, <1>1, <1>3, <1>6, <3>2, <4>1 DEF Numbered
      <4> QED
        BY <2>1, <3>2, <4>2
    <3> QED
      BY Zenon, <3>3, <3>4
  <2>3. ASSUME NEW i \in 1 .. Len(u), u[i].flow = f PROVE u[i].n \in (a + 1) + 1 .. b
    <3>1. w[1].n < w[i + 1].n
      BY Zenon, <1>1, <1>2, <1>3, <1>6, <2>3 DEF Numbered
    <3>2. u[i].n \in a + 1 .. b /\ u[i].n = w[i + 1].n
      BY Zenon, <1>2, <1>4, <2>3
    <3> QED
      BY <2>2, <3>1, <3>2
  <2>4. ASSUME NEW n \in (a + 1) + 1 .. b PROVE \E i \in 1 .. Len(u) : u[i].flow = f /\ u[i].n = n
    <3>1. n \in a + 1 .. b /\ n # a + 1
      OBVIOUS
    <3>2. PICK i \in 1 .. Len(w) : w[i].flow = f /\ w[i].n = n
      BY Zenon, <3>1 DEF Numbered
    <3>3. i # 1
      BY Zenon, <2>2, <3>1, <3>2
    <3>4. i - 1 \in 1 .. Len(u) /\ (i - 1) + 1 = i
      BY <1>1, <3>3
    <3> QED
      BY Zenon, <1>2, <3>2, <3>4
  <2>5. a + 1 <= b
    BY <2>1
  <2> QED
    BY Zenon, <1>1, <1>5, <1>6, <2>2, <2>3, <2>4, <2>5 DEF Numbered
<1>7. CASE w[1].flow # f
  <2>1. ASSUME NEW i \in 1 .. Len(u), u[i].flow = f PROVE u[i].n \in a + 1 .. b
    BY Zenon, <1>2, <1>4, <2>1
  <2>2. ASSUME NEW n \in a + 1 .. b PROVE \E i \in 1 .. Len(u) : u[i].flow = f /\ u[i].n = n
    <3>1. PICK i \in 1 .. Len(w) : w[i].flow = f /\ w[i].n = n
      BY Zenon DEF Numbered
    <3>2. i # 1
      BY Zenon, <1>1, <1>7, <3>1
    <3>3. i - 1 \in 1 .. Len(u) /\ (i - 1) + 1 = i
      BY <1>1, <3>2
    <3> QED
      BY Zenon, <1>2, <3>1, <3>3
  <2> QED
    BY Zenon, <1>5, <1>7, <2>1, <2>2 DEF Numbered
<1> QED
  BY Zenon, <1>6, <1>7

LEMMA NumberedSame ==
    ASSUME NEW w, NEW u, Len(u) = Len(w), \A i \in 1 .. Len(w) : u[i] = w[i],
           NEW f, NEW a, NEW b, Numbered(w, f, a, b)
    PROVE  Numbered(u, f, a, b)
<1>1. \A i \in 1 .. Len(u) : u[i].flow = f => u[i].n \in a + 1 .. b
  BY Zenon DEF Numbered
<1>2. \A i, j \in 1 .. Len(u) : i < j /\ u[i].flow = f /\ u[j].flow = f => u[i].n < u[j].n
  BY Zenon DEF Numbered
<1>3. \A n \in a + 1 .. b : \E i \in 1 .. Len(u) : u[i].flow = f /\ u[i].n = n
  BY Zenon DEF Numbered
<1> QED
  BY Zenon, <1>1, <1>2, <1>3 DEF Numbered

-------------------------------------------------------------------------------
(* FlowInv.                                                                *)

PendingIs ==
    /\ Len(sq) \in Nat /\ Len(batch) \in Nat /\ Len(Pending) = Len(sq) + Len(batch)
    /\ \A i \in 1 .. Len(sq) : Pending[i] = [flow |-> sq[i].flow, n |-> sq[i].n]
    /\ \A i \in 1 .. Len(batch) : Pending[Len(sq) + i] = Packet(batch[i])

LEMMA PendingAt == LoopInv => PendingIs
<1> SUFFICES ASSUME LoopInv PROVE PendingIs
  BY Zenon
<1>1. PICK a, b : a = Len(sq) /\ b = Len(batch)
  BY Zenon
<1>2. a \in Nat /\ b \in Nat
  BY <1>1 DEF LoopInv
<1>3. Len(Pending) = a + b
  BY <1>1, <1>2 DEF Pending
<1>4. \A i \in 1 .. a : Pending[i] = [flow |-> sq[i].flow, n |-> sq[i].n]
  <2> TAKE i \in 1 .. a
  <2>1. i \in 1 .. a + b /\ i <= a
    BY <1>2
  <2> QED
    BY Zenon, <1>1, <2>1 DEF Pending
<1>5. \A i \in 1 .. b : Pending[a + i] = Packet(batch[i])
  <2> TAKE i \in 1 .. b
  <2>1. a + i \in 1 .. a + b /\ ~ (a + i <= a) /\ (a + i) - a = i
    BY <1>2
  <2> QED
    BY Zenon, <1>1, <2>1 DEF Pending
<1> QED
  BY Zenon, <1>1, <1>2, <1>3, <1>4, <1>5 DEF PendingIs

LEMMA PendingAtNext == LoopInv' => PendingIs'
BY PendingAt, PTL

(* A packet joins the batch, whose control headers are kept.               *)
LEMMA PendingEnqueue ==
    ASSUME LoopInv, LoopInv', NEW item \in Item, batch' = Append(batch, item), sq' = sq,
           \A i \in 1 .. Len(batch) : batch[i].flow \in Headers => ctrl'[batch[i].n] = ctrl[batch[i].n]
    PROVE  Extends(Pending', Pending, Packet(item)')
<1>1. PendingIs /\ PendingIs'
  BY Zenon, PendingAt, PendingAtNext
<1>2. PICK a, b : a = Len(sq) /\ b = Len(batch)
  BY Zenon
<1>3. /\ a \in Nat /\ b \in Nat /\ Len(Pending) = a + b
      /\ \A i \in 1 .. a : Pending[i] = [flow |-> sq[i].flow, n |-> sq[i].n]
      /\ \A i \in 1 .. b : Pending[a + i] = Packet(batch[i])
  BY Zenon, <1>1, <1>2 DEF PendingIs
<1>4. Len(batch') = b + 1 /\ batch'[b + 1] = item /\ \A i \in 1 .. b : batch'[i] = batch[i]
  BY <1>2, AppendSeq DEF LoopInv
<1>5. /\ Len(Pending') = a + (b + 1)
      /\ \A i \in 1 .. a : Pending'[i] = [flow |-> sq[i].flow, n |-> sq[i].n]
      /\ \A i \in 1 .. b + 1 : Pending'[a + i] = Packet(batch[i])'
  BY Zenon, <1>1, <1>2, <1>4 DEF PendingIs
<1>6. Pending'[a + (b + 1)] = Packet(item)'
  <2>1. b + 1 \in 1 .. b + 1
    BY <1>3
  <2>2. Packet(batch[b + 1])' = Packet(item)'
    BY Zenon, <1>4 DEF Packet
  <2> QED
    BY Zenon, <1>5, <2>1, <2>2
<1>7. ASSUME NEW i \in 1 .. a + b PROVE Pending'[i] = Pending[i]
  <2>1. CASE i \in 1 .. a
    BY Zenon, <1>3, <1>5, <2>1
  <2>2. CASE i \notin 1 .. a
    <3>1. PICK j : j = i - a
      BY Zenon
    <3>2. j \in 1 .. b /\ j \in 1 .. b + 1 /\ i = a + j
      BY <1>3, <2>2, <3>1
    <3>3. Packet(batch[j])' = Packet(batch[j])
      BY Zenon, <1>2, <1>4, <3>2 DEF Packet
    <3> QED
      BY Zenon, <1>3, <1>5, <3>2, <3>3
  <2> QED
    BY Zenon, <2>1, <2>2
<1>8. (a + b) + 1 = a + (b + 1) /\ a + b \in Nat
  BY <1>3
<1> QED
  BY Zenon, <1>3, <1>5, <1>6, <1>7, <1>8 DEF Extends

(* The batch is posted: the headers are copied as they are.                *)
LEMMA PendingBurst ==
    ASSUME IInv, LoopInv', TxBurst
    PROVE  Len(Pending') = Len(Pending) /\ \A i \in 1 .. Len(Pending) : Pending'[i] = Pending[i]
<1>1. PendingIs /\ PendingIs'
  BY Zenon, PendingAt, PendingAtNext DEF IInv
<1>2. PICK a, b : a = Len(sq) /\ b = Len(batch)
  BY Zenon
<1>3. /\ a \in Nat /\ b \in Nat /\ Len(Pending) = a + b
      /\ \A i \in 1 .. a : Pending[i] = [flow |-> sq[i].flow, n |-> sq[i].n]
      /\ \A i \in 1 .. b : Pending[a + i] = Packet(batch[i])
  BY Zenon, <1>1, <1>2 DEF PendingIs
<1>4. PICK t : t = [i \in 1 .. b |-> Posted(batch[i], nb_tx + i - 1)]
  BY Zenon
<1>5. sq' = sq \o t /\ batch' = << >>
  BY Zenon, <1>2, <1>4 DEF TxBurst
<1>6. Len(t) = b /\ \A i \in 1 .. b : t[i] = Posted(batch[i], nb_tx + i - 1)
  BY <1>3, <1>4
<1>7. /\ Len(sq') = a + b /\ \A i \in 1 .. a : sq'[i] = sq[i]
      /\ \A i \in 1 .. b : sq'[a + i] = t[i]
  <2>1. sq \in Seq(Send)
    BY Zenon DEF IInv, LoopInv
  <2>2. sq' \in Seq(Send)
    BY Zenon DEF LoopInv
  <2> QED
    BY <1>2, <1>3, <1>4, <1>5, <1>6, <2>1, <2>2
<1>8. Len(batch') = 0
  BY Zenon, <1>5
<1>9. /\ Len(Pending') = (a + b) + 0
      /\ \A i \in 1 .. a + b : Pending'[i] = [flow |-> sq'[i].flow, n |-> sq'[i].n]
  BY Zenon, <1>1, <1>7, <1>8 DEF PendingIs
<1>10. ASSUME NEW i \in 1 .. a + b PROVE Pending'[i] = Pending[i]
  <2>1. CASE i \in 1 .. a
    BY Zenon, <1>3, <1>7, <1>9, <2>1
  <2>2. CASE i \notin 1 .. a
    <3>1. PICK j : j = i - a
      BY Zenon
    <3>2. j \in 1 .. b /\ i = a + j
      BY <1>3, <2>2, <3>1
    <3>3. sq'[i] = Posted(batch[j], nb_tx + j - 1)
      BY Zenon, <1>6, <1>7, <3>2
    <3>4. [flow |-> sq'[i].flow, n |-> sq'[i].n] = Packet(batch[j])
      BY <3>3 DEF Posted, Packet
    <3> QED
      BY Zenon, <1>3, <1>9, <3>2, <3>4
  <2> QED
    BY Zenon, <2>1, <2>2
<1>11. (a + b) + 0 = a + b
  BY <1>3
<1> QED
  BY Zenon, <1>3, <1>9, <1>10, <1>11

LEMMA PendingFlush ==
    ASSUME LoopInv, LoopInv', pc = "flush", UNCHANGED batch,
           sq' = Append(sq, [flow |-> "flush", signaled |-> TRUE, n |-> 0])
    PROVE  Extends(Pending', Pending, [flow |-> "flush", n |-> 0])
<1>1. PendingIs /\ PendingIs'
  BY Zenon, PendingAt, PendingAtNext
<1>2. PICK a : a = Len(sq)
  BY Zenon
<1>3. Len(batch) = 0 /\ Len(batch') = 0
  BY Zenon DEF LoopInv
<1>4. /\ a \in Nat /\ Len(Pending) = a + 0
      /\ \A i \in 1 .. a : Pending[i] = [flow |-> sq[i].flow, n |-> sq[i].n]
  BY Zenon, <1>1, <1>2, <1>3 DEF PendingIs
<1>5. /\ Len(sq') = a + 1 /\ sq'[a + 1] = [flow |-> "flush", signaled |-> TRUE, n |-> 0]
      /\ \A i \in 1 .. a : sq'[i] = sq[i]
  <2>1. [flow |-> "flush", signaled |-> TRUE, n |-> 0] \in Send
    BY Zenon DEF Send
  <2> QED
    BY <1>2, <2>1, AppendSeq DEF LoopInv
<1>6. /\ Len(Pending') = (a + 1) + 0
      /\ \A i \in 1 .. a + 1 : Pending'[i] = [flow |-> sq'[i].flow, n |-> sq'[i].n]
  BY Zenon, <1>1, <1>3, <1>5 DEF PendingIs
<1>7. a + 1 \in 1 .. a + 1 /\ (a + 1) + 0 = a + 1 /\ a + 0 = a /\ \A i \in 1 .. a : i \in 1 .. a + 1
  BY <1>4
<1>8. Pending'[a + 1] = [flow |-> "flush", n |-> 0]
  BY <1>5, <1>6, <1>7
<1>9. \A i \in 1 .. a : Pending'[i] = Pending[i]
  BY Zenon, <1>4, <1>5, <1>6, <1>7
<1> QED
  BY Zenon, <1>4, <1>6, <1>7, <1>8, <1>9 DEF Extends

(* The oldest SEND is executed.                                            *)
LEMMA PendingSend ==
    ASSUME LoopInv, LoopInv', sq # << >>, sq' = Tail(sq), UNCHANGED <<batch, ctrl>>
    PROVE  /\ Drops(Pending', Pending)
           /\ Pending[1] = [flow |-> Head(sq).flow, n |-> Head(sq).n]
<1>1. PendingIs /\ PendingIs'
  BY Zenon, PendingAt, PendingAtNext
<1>2. PICK a, b : a = Len(sq) /\ b = Len(batch)
  BY Zenon
<1>3. /\ a \in Nat /\ b \in Nat /\ Len(Pending) = a + b
      /\ \A i \in 1 .. a : Pending[i] = [flow |-> sq[i].flow, n |-> sq[i].n]
      /\ \A i \in 1 .. b : Pending[a + i] = Packet(batch[i])
  BY Zenon, <1>1, <1>2 DEF PendingIs
<1>4. /\ a >= 1 /\ Head(sq) = sq[1] /\ Len(sq') = a - 1
      /\ \A i \in 1 .. a - 1 : sq'[i] = sq[i + 1]
  BY Zenon, <1>2, TailSeq DEF LoopInv
<1>5. /\ Len(Pending') = (a - 1) + b
      /\ \A i \in 1 .. a - 1 : Pending'[i] = [flow |-> sq'[i].flow, n |-> sq'[i].n]
      /\ \A i \in 1 .. b : Pending'[(a - 1) + i] = Packet(batch[i])
  <2>1. PICK c : c = Len(sq')
    BY Zenon
  <2>2. /\ Len(Pending') = c + b
        /\ \A i \in 1 .. c : Pending'[i] = [flow |-> sq'[i].flow, n |-> sq'[i].n]
        /\ \A i \in 1 .. b : Pending'[c + i] = Packet(batch[i])'
    BY Zenon, <1>1, <1>2, <2>1 DEF PendingIs
  <2>3. \A i \in 1 .. b : Packet(batch[i])' = Packet(batch[i])
    BY Zenon DEF Packet
  <2> QED
    BY Zenon, <1>4, <2>1, <2>2, <2>3
<1>6. ASSUME NEW i \in 1 .. (a + b) - 1 PROVE Pending'[i] = Pending[i + 1]
  <2>1. CASE i \in 1 .. a - 1
    <3>1. i + 1 \in 1 .. a
      BY <1>3, <2>1
    <3>2. Pending'[i] = [flow |-> sq'[i].flow, n |-> sq'[i].n] /\ sq'[i] = sq[i + 1]
      BY Zenon, <1>4, <1>5, <2>1
    <3>3. Pending[i + 1] = [flow |-> sq[i + 1].flow, n |-> sq[i + 1].n]
      BY Zenon, <1>3, <3>1
    <3> QED
      BY Zenon, <3>2, <3>3
  <2>2. CASE i \notin 1 .. a - 1
    <3>1. PICK j : j = i - (a - 1)
      BY Zenon
    <3>2. j \in 1 .. b /\ i = (a - 1) + j /\ i + 1 = a + j
      BY <1>3, <2>2, <3>1
    <3> QED
      BY Zenon, <1>3, <1>5, <3>2
  <2> QED
    BY Zenon, <2>1, <2>2
<1>7. a + b \in Nat /\ a + b >= 1 /\ (a - 1) + b = (a + b) - 1 /\ 1 \in 1 .. a
  BY <1>3, <1>4
<1>8. Drops(Pending', Pending)
  BY Zenon, <1>3, <1>5, <1>6, <1>7 DEF Drops
<1> QED
  BY Zenon, <1>3, <1>4, <1>7, <1>8

LEMMA FlowTypes ==
    ASSUME IInv
    PROVE  /\ Done \in Nat
           /\ \A f \in Flows : /\ Entered(f) \in Nat /\ Entered(f) <= given[f]
                              /\ given[f] \in Nat /\ left[f] \in Nat
<1>1. Waiting \in Nat /\ given["cr"] \in Nat /\ Waiting <= given["cr"]
  BY Zenon, RingTypes DEF IInv, RingInv
<1>2. Done \in Nat /\ Done <= given["cr"]
  BY <1>1 DEF Done
<1>3. ASSUME NEW f \in Flows
      PROVE  /\ Entered(f) \in Nat /\ Entered(f) <= given[f]
             /\ given[f] \in Nat /\ left[f] \in Nat
  <2>1. given[f] \in Nat /\ left[f] \in Nat
    BY Zenon DEF IInv, LoopInv
  <2>2. given[f] <= given[f]
    BY <2>1
  <2> QED
    BY Zenon, <1>2, <2>1, <2>2 DEF Entered
<1> QED
  BY Zenon, <1>2, <1>3

(* The header that is filled in is not that of a packet in the batch.      *)
LEMMA HeadersKept ==
    ASSUME IInv, NEW i \in 1 .. Len(batch), batch[i].flow \in Headers
    PROVE  batch[i].n # ctrl_head /\ batch[i].n \in Ctrl
<1>1. PICK c, b : c = batch[i].n /\ b = Len(batch)
  BY Zenon
<1>2. c \in Ctrl /\ Age(ctrl_head, c) <= b - i + 1
  BY Zenon, <1>1 DEF IInv, CtrlInv
<1>3. b \in Nat /\ b <= kPostlist /\ ctrl_head \in Ctrl
  BY <1>1 DEF IInv, LoopInv
<1>4. c # ctrl_head
  BY <1>1, <1>2, <1>3, Constants DEF Age, Ctrl
<1> QED
  BY Zenon, <1>1, <1>2, <1>4

(* The next packet of flow g joins the batch.                              *)
LEMMA FlowJoins ==
    ASSUME IInv, LoopInv', NEW g \in Flows, NEW item \in Item, batch' = Append(batch, item),
           UNCHANGED <<sendq, left>>, Packet(item)' = [flow |-> g, n |-> Entered(g) + 1],
           \A f \in Flows : Entered(f)' = IF f = g THEN Entered(f) + 1 ELSE Entered(f),
           \A i \in 1 .. Len(batch) : batch[i].flow \in Headers => ctrl'[batch[i].n] = ctrl[batch[i].n]
    PROVE  FlowInv'
<1>1. PICK x : x = Packet(item)'
  BY Zenon
<1>2. x.flow = g /\ x.n = Entered(g) + 1
  BY <1>1
<1>3. Extends(Pending', Pending, x)
  BY Zenon, <1>1, PendingEnqueue DEF IInv, sendq
<1>4. ASSUME NEW f \in Flows PROVE Numbered(Pending, f, left[f], Entered(f))'
  <2>1. Numbered(Pending, f, left[f], Entered(f))
    BY Zenon DEF IInv, FlowInv
  <2>2. PICK a, b, c : a = left[f] /\ b = Entered(f) /\ c = Entered(f)'
    BY Zenon
  <2>3. a \in Nat /\ b \in Nat /\ Numbered(Pending, f, a, b) /\ (x.flow = f => x.n = b + 1)
    BY Zenon, <1>2, <2>1, <2>2, FlowTypes
  <2>4. Numbered(Pending', f, a, IF x.flow = f THEN b + 1 ELSE b)
    BY Zenon, <1>3, <2>3, NumberedAppend
  <2>5. c = IF x.flow = f THEN b + 1 ELSE b
    BY Zenon, <1>2, <2>2
  <2>6. Numbered(Pending', f, a, c)
    BY Zenon, <2>4, <2>5
  <2> QED
    BY Zenon, <2>2, <2>6 DEF Numbered
<1> QED
  BY Zenon, <1>4 DEF FlowInv

(* So does the next control header.                                        *)
LEMMA FlowHeader ==
    ASSUME IInv, LoopInv', NEW g \in Headers, EnqueueHeader(g, Entered(g) + 1),
           UNCHANGED <<sendq, left>>,
           \A f \in Flows : Entered(f)' = IF f = g THEN Entered(f) + 1 ELSE Entered(f)
    PROVE  FlowInv'
<1>1. PICK item : item = [flow |-> g, n |-> ctrl_head]
  BY Zenon
<1>2. batch' = Append(batch, item) /\ ctrl' = [ctrl EXCEPT ![ctrl_head] = Entered(g) + 1]
  BY Zenon, <1>1 DEF EnqueueHeader, Enqueue
<1>3. ctrl \in [Ctrl -> Nat] /\ ctrl_head \in Ctrl
  BY Zenon DEF IInv, LoopInv
<1>4. item \in Item
  <2>1. ctrl_head \in Nat
    BY <1>3, Constants DEF Ctrl
  <2> QED
    BY Zenon, <1>1, <2>1, FlowNames DEF Item
<1>5. ASSUME NEW i \in 1 .. Len(batch), batch[i].flow \in Headers
      PROVE  ctrl'[batch[i].n] = ctrl[batch[i].n]
  BY Zenon, <1>2, <1>3, <1>5, HeadersKept
<1>6. ctrl'[ctrl_head] = Entered(g) + 1
  BY Zenon, <1>2, <1>3
<1>7. Packet(item)' = [flow |-> g, n |-> Entered(g) + 1]
  BY Zenon, <1>1, <1>6 DEF Packet
<1>8. g \in Flows
  BY Zenon DEF Flows
<1> QED
  BY Zenon, <1>2, <1>4, <1>5, <1>7, <1>8, FlowJoins

LEMMA FlowProcess == ASSUME IInv, LoopInv', ProcessPacket PROVE FlowInv'
<1>1. ring[rx_ring_head] = Done + 1 /\ Done' = Done + 1
  BY Zenon, RingProcess
<1>2. EnqueueHeader("cr", Entered("cr") + 1) /\ UNCHANGED <<sendq, given, left>>
  BY Zenon, <1>1 DEF ProcessPacket, enqueue_cr_st, Entered
<1>3. \A f \in Flows : Entered(f)' = IF f = "cr" THEN Entered(f) + 1 ELSE Entered(f)
  BY Zenon, <1>1, <1>2 DEF Entered
<1> QED
  BY Zenon, <1>2, <1>3, FlowNames, FlowHeader

LEMMA FlowRfr == ASSUME IInv, LoopInv', enqueue_rfr_st, Done' = Done PROVE FlowInv'
<1>1. EnqueueHeader("rfr", Entered("rfr") + 1) /\ UNCHANGED <<sendq, left>>
  BY Zenon DEF enqueue_rfr_st, Entered
<1>2. given' = [given EXCEPT !["rfr"] = @ + 1] /\ given \in [Flows -> Nat]
  BY Zenon DEF enqueue_rfr_st, IInv, LoopInv
<1>3. \A f \in Flows : Entered(f)' = IF f = "rfr" THEN Entered(f) + 1 ELSE Entered(f)
  BY Zenon, <1>2 DEF Entered
<1> QED
  BY Zenon, <1>1, <1>3, FlowNames, FlowHeader

LEMMA FlowEnqueue == ASSUME IInv, LoopInv', EnqueueData, Done' = Done PROVE FlowInv'
<1>1. PICK item : item = [flow |-> "data", n |-> given["data"] + 1]
  BY Zenon
<1>2. /\ batch' = Append(batch, item) /\ given' = [given EXCEPT !["data"] = @ + 1]
      /\ UNCHANGED <<ctrl, sendq, left>> /\ given \in [Flows -> Nat]
  BY Zenon, <1>1 DEF EnqueueData, Enqueue, IInv, LoopInv
<1>3. item \in Item
  <2>1. given["data"] + 1 \in Nat
    BY FlowTypes, FlowNames
  <2> QED
    BY Zenon, <1>1, <2>1, FlowNames DEF Item
<1>4. Packet(item)' = [flow |-> "data", n |-> Entered("data") + 1]
  BY Zenon, <1>1, FlowNames DEF Packet, Entered
<1>5. \A f \in Flows : Entered(f)' = IF f = "data" THEN Entered(f) + 1 ELSE Entered(f)
  BY Zenon, <1>2 DEF Entered
<1> QED
  BY Zenon, <1>2, <1>3, <1>4, <1>5, FlowNames, FlowJoins

LEMMA FlowFlush == ASSUME IInv, LoopInv', FlushPost, Done' = Done PROVE FlowInv'
<1>1. UNCHANGED <<batch, ctrl, given, left>> /\ pc = "flush"
  BY Zenon DEF FlushPost, tx
<1>2. CASE sq' = sq
  <2>1. Pending' = Pending
    BY Zenon, <1>1, <1>2 DEF Pending, Packet
  <2> QED
    BY Zenon, <1>1, <2>1 DEF IInv, FlowInv, Entered
<1>3. CASE sq' = Append(sq, [flow |-> "flush", signaled |-> TRUE, n |-> 0])
  <2>1. PICK x : x = [flow |-> "flush", n |-> 0]
    BY Zenon
  <2>2. Extends(Pending', Pending, x)
    BY Zenon, <1>1, <1>3, <2>1, PendingFlush DEF IInv
  <2>3. ASSUME NEW f \in Flows PROVE Numbered(Pending', f, left[f], Entered(f))
    <3>1. x.flow # f
      BY Zenon, <2>1, FlowNames
    <3>2. Numbered(Pending, f, left[f], Entered(f)) /\ left[f] \in Nat /\ Entered(f) \in Nat
      BY Zenon, FlowTypes DEF IInv, FlowInv
    <3> QED
      BY Zenon, <2>2, <3>1, <3>2, NumberedAppend
  <2> QED
    BY Zenon, <1>1, <2>3 DEF FlowInv, Entered
<1> QED
  BY Zenon, <1>2, <1>3 DEF FlushPost, sendq

(* What the NIC sends is the next packet of its flow.                      *)
Leaves(f) ==
    /\ left[f] < given[f]
    /\ left' = [left EXCEPT ![f] = @ + 1]

LEMMA FlowSend ==
    ASSUME IInv, LoopInv', NicSend, Done' = Done
    PROVE  FlowInv' /\ (left' = left \/ \E f \in Flows : Leaves(f))
<1>1. PICK e : e = Head(sq)
  BY Zenon
<1>2. /\ sq # << >> /\ sq' = Tail(sq) /\ UNCHANGED <<batch, ctrl, given>>
      /\ left' = IF e.flow \in Flows THEN [left EXCEPT ![e.flow] = e.n] ELSE left
  BY Zenon, <1>1 DEF NicSend, tx
<1>3. Drops(Pending', Pending) /\ Pending[1] = [flow |-> e.flow, n |-> e.n]
  BY Zenon, <1>1, <1>2, PendingSend DEF IInv
<1>4. Pending[1].flow = e.flow /\ Pending[1].n = e.n
  BY <1>3
<1>5. left \in [Flows -> Nat] /\ \A f \in Flows : Entered(f)' = Entered(f)
  BY Zenon, <1>2 DEF IInv, LoopInv, Entered
<1>6. ASSUME NEW f \in Flows
      PROVE  /\ e.flow = f => e.n = left[f] + 1 /\ Numbered(Pending', f, left[f] + 1, Entered(f))
             /\ e.flow # f => Numbered(Pending', f, left[f], Entered(f))
  <2>1. Numbered(Pending, f, left[f], Entered(f)) /\ left[f] \in Nat /\ Entered(f) \in Nat
    BY Zenon, FlowTypes DEF IInv, FlowInv
  <2>2. /\ Pending[1].flow = f => Pending[1].n = left[f] + 1 /\ Numbered(Pending', f, left[f] + 1, Entered(f))
        /\ Pending[1].flow # f => Numbered(Pending', f, left[f], Entered(f))
    BY Zenon, <1>3, <2>1, NumberedTail
  <2> QED
    BY Zenon, <1>4, <2>2
<1>7. ASSUME NEW f \in Flows PROVE Numbered(Pending', f, left'[f], Entered(f))
  <2>1. CASE e.flow = f
    <3>1. left'[f] = left[f] + 1
      BY Zenon, <1>2, <1>5, <1>6, <2>1
    <3> QED
      BY Zenon, <1>6, <2>1, <3>1
  <2>2. CASE e.flow # f
    <3>1. left'[f] = left[f]
      BY Zenon, <1>2, <1>5, <2>2
    <3> QED
      BY Zenon, <1>6, <2>2, <3>1
  <2> QED
    BY Zenon, <2>1, <2>2
<1>8. ASSUME e.flow \in Flows PROVE Leaves(e.flow)
  <2>1. left' = [left EXCEPT ![e.flow] = left[e.flow] + 1]
    BY Zenon, <1>2, <1>6, <1>8
  <2>2. left[e.flow] + 1 <= Entered(e.flow)
    BY Zenon, <1>6, <1>8 DEF Numbered
  <2>3. left[e.flow] < given[e.flow]
    BY <1>8, <2>2, FlowTypes
  <2> QED
    BY Zenon, <2>1, <2>3 DEF Leaves
<1> QED
  BY Zenon, <1>2, <1>5, <1>7, <1>8 DEF FlowInv

LEMMA FlowStep == ASSUME IInv, [Next]_vars PROVE FlowInv'
<1>1. LoopInv'
  BY Zenon, LoopStep
<1>2. CASE ProcessPacket
  BY Zenon, <1>1, <1>2, FlowProcess
<1>3. CASE ~ ProcessPacket
  <2>1. Done' = Done
    BY Zenon, <1>3, DoneSame
  <2>2. CASE EnqueueData \/ enqueue_rfr_st
    BY Zenon, <1>1, <2>1, <2>2, FlowEnqueue, FlowRfr
  <2>3. CASE FlushPost
    BY Zenon, <1>1, <2>1, <2>3, FlowFlush
  <2>4. CASE NicSend
    BY Zenon, <1>1, <2>1, <2>4, FlowSend
  <2>5. CASE TxBurst
    <3>1. Len(Pending') = Len(Pending) /\ \A i \in 1 .. Len(Pending) : Pending'[i] = Pending[i]
      BY Zenon, <1>1, <2>5, PendingBurst
    <3>2. UNCHANGED <<given, left>>
      BY Zenon, <2>5 DEF TxBurst
    <3>3. \A f \in Flows : Numbered(Pending, f, left[f], Entered(f))
      BY Zenon DEF IInv, FlowInv
    <3>4. \A f \in Flows : Numbered(Pending', f, left[f], Entered(f))
      BY Zenon, <3>1, <3>3, NumberedSame
    <3> QED
      BY Zenon, <2>1, <3>2, <3>4 DEF FlowInv, Entered
  <2>6. CASE ~ EnqueueData /\ ~ enqueue_rfr_st /\ ~ FlushPost /\ ~ NicSend /\ ~ TxBurst
    <3>1. UNCHANGED <<batch, ctrl, sq, left>>
      BY Zenon, <1>3, <2>6 DEF Next, Thread, vars, RxBurst, PostRecvs, Drain, FlushPoll,
                               DrainTxBatch, NicRecv, NicDrop, tx, sendq
    <3>2. \A f \in Flows : f # "cr" => given'[f] = given[f]
      <4>1. CASE NicRecv
        BY Zenon, <4>1 DEF NicRecv, IInv, LoopInv
      <4>2. CASE ~ NicRecv
        BY Zenon, <1>3, <2>6, <4>2 DEF Next, Thread, vars, RxBurst, PostRecvs, Drain, FlushPoll,
                                       DrainTxBatch, NicDrop
      <4> QED
        BY Zenon, <4>1, <4>2
    <3>3. Pending' = Pending
      BY Zenon, <3>1 DEF Pending, Packet
    <3> QED
      BY Zenon, <2>1, <3>1, <3>2, <3>3 DEF IInv, FlowInv, Entered
  <2> QED
    BY Zenon, <2>2, <2>3, <2>4, <2>5, <2>6
<1> QED
  BY Zenon, <1>2, <1>3

-------------------------------------------------------------------------------
(* SendInv.                                                                *)

(* Of the packets posted next, the one that is signaled.                   *)
FirstSignal(t) == IF t % kUnsigBatch = 0 THEN 1 ELSE kUnsigBatch - (t % kUnsigBatch) + 1

LEMMA SignalOnce ==
    ASSUME NEW t \in Nat, NEW b \in 0 .. kUnsigBatch
    PROVE  /\ FirstSignal(t) \in 1 .. kUnsigBatch
           /\ \A j \in 1 .. b : Signaled(t + j - 1) <=> j = FirstSignal(t)
<1>1. PICK U, r, J : U = kUnsigBatch /\ r = t % U /\ J = FirstSignal(t)
  BY Zenon
<1>2. U \in Nat \ {0}
  BY Zenon, <1>1, Constants
<1>3. r \in 0 .. U - 1
  BY Zenon, <1>1, <1>2, ModDef
<1>4. J = IF r = 0 THEN 1 ELSE U - r + 1
  BY Zenon, <1>1 DEF FirstSignal
<1>5. J \in 1 .. U
  BY <1>2, <1>3, <1>4
<1>6. ASSUME NEW j \in 1 .. b PROVE Signaled(t + j - 1) <=> j = J
  <2>1. PICK i : i = j - 1
    BY Zenon
  <2>2. i \in 0 .. U /\ i < U /\ t + j - 1 = t + i
    BY <1>1, <1>2, <2>1
  <2>3. (t + i) % U = IF r + i < U THEN r + i ELSE r + i - U
    BY Zenon, <1>1, <1>2, <2>2, ModSum
  <2>4. (t + i) % U = 0 <=> j = J
    BY <1>2, <1>3, <1>4, <2>1, <2>2, <2>3
  <2> QED
    BY Zenon, <1>1, <2>2, <2>4 DEF Signaled
<1> QED
  BY Zenon, <1>1, <1>5, <1>6

LEMMA SinceNext ==
    ASSUME nb_tx \in Nat, NEW b \in 0 .. kUnsigBatch, nb_tx' = nb_tx + b,
           NEW J, J = FirstSignal(nb_tx)
    PROVE  /\ Since \in Nat /\ Since + J = kUnsigBatch
           /\ Since' = IF b < J THEN Since + b ELSE b - J
<1>1. PICK U, r, s : U = kUnsigBatch /\ r = nb_tx % U /\ s = nb_tx' % U
  BY Zenon
<1>2. U \in Nat \ {0}
  BY Zenon, <1>1, Constants
<1>3. r \in 0 .. U - 1
  BY Zenon, <1>1, <1>2, ModDef
<1>4. s = IF r + b < U THEN r + b ELSE r + b - U
  BY Zenon, <1>1, <1>2, ModSum
<1>5. J = IF r = 0 THEN 1 ELSE U - r + 1
  BY Zenon, <1>1 DEF FirstSignal
<1>6. Since = IF r = 0 THEN U - 1 ELSE r - 1
  BY Zenon, <1>1 DEF Since
<1>7. Since' = IF s = 0 THEN U - 1 ELSE s - 1
  BY Zenon, <1>1 DEF Since
<1>8. b \in 0 .. U
  BY Zenon, <1>1
<1>9. Since \in Nat /\ Since + J = U
  BY <1>2, <1>3, <1>5, <1>6
<1>10. Since' = IF b < J THEN Since + b ELSE b - J
  BY <1>2, <1>3, <1>4, <1>5, <1>6, <1>7, <1>8
<1> QED
  BY Zenon, <1>1, <1>9, <1>10

LEMMA Singleton == ASSUME NEW x PROVE Cardinality({x}) = 1 /\ Cardinality({}) = 0
BY Zenon, FS_Singleton, FS_EmptySet

LEMMA OneEntry == ASSUME NEW v PROVE <<v>> # << >> /\ Len(<<v>>) = 1 /\ Tail(<<v>>) = << >> /\ Head(<<v>>) = v
OBVIOUS

(* The number of completions that tx_burst polls.                          *)
LEMMA Polled ==
    ASSUME nb_tx \in Nat, NEW b \in 0 .. kUnsigBatch, NEW J, J = FirstSignal(nb_tx)
    PROVE  Cardinality({i \in nb_tx .. nb_tx + b - 1 : Polls(i)}) =
               IF b < J \/ nb_tx = 0 THEN 0 ELSE 1
<1>1. PICK S : S = {i \in nb_tx .. nb_tx + b - 1 : Polls(i)}
  BY Zenon
<1>2. J \in 1 .. kUnsigBatch /\ \A j \in 1 .. b : Signaled(nb_tx + j - 1) <=> j = J
  BY Zenon, SignalOnce
<1>3. ASSUME NEW i \in nb_tx .. nb_tx + b - 1
      PROVE  Polls(i) <=> (i = nb_tx + J - 1 /\ i # 0)
  <2>1. PICK j : j = i - nb_tx + 1
    BY Zenon
  <2>2. j \in 1 .. b /\ i = nb_tx + j - 1
    BY <2>1
  <2>3. j = J <=> i = nb_tx + J - 1
    BY <1>2, <2>2
  <2> QED
    BY Zenon, <1>2, <2>2, <2>3 DEF Polls
<1>4. CASE b < J
  <2>1. S = {}
    BY <1>1, <1>2, <1>3, <1>4
  <2> QED
    BY Zenon, <1>1, <1>4, <2>1, Singleton
<1>5. CASE nb_tx = 0
  <2>1. J = 1
    <3>1. 0 % kUnsigBatch = 0
      BY Constants
    <3> QED
      BY Zenon, <1>5, <3>1 DEF FirstSignal
  <2>2. S = {}
    BY <1>1, <1>3, <1>5, <2>1
  <2> QED
    BY Zenon, <1>1, <1>5, <2>2, Singleton
<1>6. CASE ~ (b < J) /\ nb_tx # 0
  <2>1. PICK i : i = nb_tx + J - 1
    BY Zenon
  <2>2. i \in nb_tx .. nb_tx + b - 1 /\ i # 0
    BY <1>2, <1>6, <2>1
  <2>3. S = {i}
    BY Zenon, <1>1, <1>3, <2>1, <2>2
  <2> QED
    BY Zenon, <1>1, <1>6, <2>3, Singleton
<1> QED
  BY Zenon, <1>4, <1>5, <1>6

(* A batch is posted behind what is in the queue.                          *)
LEMMA SendBurst == ASSUME IInv, LoopInv', TxBurst PROVE SendInv'
<1>1. PICK U, a, b, J, t : /\ U = kUnsigBatch /\ a = Len(sq) /\ b = Len(batch)
                           /\ J = FirstSignal(nb_tx)
                           /\ t = [i \in 1 .. b |-> Posted(batch[i], nb_tx + i - 1)]
  BY Zenon
<1>2. /\ U \in Nat \ {0} /\ a \in Nat /\ b \in 0 .. U /\ nb_tx \in Nat /\ executed \in Nat
      /\ sq \in Seq(Send) /\ sq' \in Seq(Send)
  <2>1. /\ nb_tx \in Nat /\ executed \in Nat /\ sq \in Seq(Send) /\ batch \in Seq(Item)
        /\ Len(batch) <= kPostlist
    BY Zenon DEF IInv, LoopInv
  <2>2. sq' \in Seq(Send)
    BY Zenon DEF LoopInv
  <2> QED
    BY <1>1, <2>1, <2>2, Constants
<1>3. J \in 1 .. U /\ \A j \in 1 .. b : Signaled(nb_tx + j - 1) <=> j = J
  BY Zenon, <1>1, <1>2, SignalOnce
<1>4. /\ pc = "burst" /\ pc' = then /\ sq' = sq \o t /\ nb_tx' = nb_tx + b /\ executed' = executed
  BY Zenon, <1>1 DEF TxBurst
<1>5. pc' # "flushed" /\ pc # "flushed"
  BY Zenon, <1>4 DEF IInv, LoopInv
<1>6. PICK c : /\ c = (IF b < J \/ nb_tx = 0 THEN 0 ELSE 1)
               /\ c <= Len(send_cq) /\ send_cq' = SubSeq(send_cq, c + 1, Len(send_cq))
  BY Zenon, <1>1, <1>2, Polled DEF TxBurst
<1>7. Since \in Nat /\ Since + J = U /\ Since' = IF b < J THEN Since + b ELSE b - J
  BY Zenon, <1>1, <1>2, <1>4, SinceNext
<1>8. /\ Len(sq') = a + b /\ \A i \in 1 .. a : sq'[i] = sq[i]
      /\ \A j \in 1 .. b : sq'[a + j] = t[j]
  BY <1>1, <1>2, <1>4
<1>9. \A j \in 1 .. b : t[j].signaled <=> j = J
  <2> TAKE j \in 1 .. b
  <2>1. t[j] = Posted(batch[j], nb_tx + j - 1)
    BY Zenon, <1>1
  <2>2. t[j].signaled = Signaled(nb_tx + j - 1)
    BY <2>1 DEF Posted
  <2> QED
    BY Zenon, <1>3, <2>2
<1>10. ASSUME NEW k \in 0 .. a, OnlySignal(k), b < J PROVE OnlySignal(k)'
  <2>1. ASSUME NEW i \in 1 .. Len(sq') PROVE sq'[i].signaled <=> i = k
    <3>1. CASE i \in 1 .. a
      BY Zenon, <1>1, <1>8, <1>10, <3>1 DEF OnlySignal
    <3>2. CASE i \notin 1 .. a
      <4>1. PICK j : j = i - a
        BY Zenon
      <4>2. j \in 1 .. b /\ i = a + j /\ i # k /\ j # J
        BY <1>2, <1>3, <1>8, <1>10, <2>1, <3>2, <4>1
      <4> QED
        BY Zenon, <1>8, <1>9, <4>2
    <3> QED
      BY Zenon, <3>1, <3>2
  <2> QED
    BY Zenon, <2>1 DEF OnlySignal
<1>11. ASSUME OnlySignal(0), ~ (b < J), NEW k, k = a + J PROVE OnlySignal(k)'
  <2>1. ASSUME NEW i \in 1 .. Len(sq') PROVE sq'[i].signaled <=> i = k
    <3>1. CASE i \in 1 .. a
      <4>1. i # 0 /\ i # k
        BY <1>2, <1>3, <1>11, <3>1
      <4> QED
        BY Zenon, <1>1, <1>8, <1>11, <3>1, <4>1 DEF OnlySignal
    <3>2. CASE i \notin 1 .. a
      <4>1. PICK j : j = i - a
        BY Zenon
      <4>2. j \in 1 .. b /\ i = a + j /\ (i = k <=> j = J)
        BY <1>2, <1>3, <1>8, <1>11, <2>1, <3>2, <4>1
      <4> QED
        BY Zenon, <1>8, <1>9, <4>2
    <3> QED
      BY Zenon, <3>1, <3>2
  <2> QED
    BY Zenon, <2>1 DEF OnlySignal
<1>12. CASE Idle
  <2>1. a = 0 /\ nb_tx = 0 /\ send_cq = << >> /\ executed = 0 /\ sq = << >>
    BY Zenon, <1>1, <1>12 DEF Idle
  <2>2. J = 1
    <3>1. 0 % kUnsigBatch = 0
      BY Constants
    <3> QED
      BY Zenon, <1>1, <2>1, <3>1 DEF FirstSignal
  <2>3. c = 0 /\ send_cq' = << >>
    BY <1>6, <2>1
  <2>4. OnlySignal(0)
    BY <2>1 DEF OnlySignal
  <2>5. CASE b = 0
    <3>1. sq' = << >> /\ nb_tx' = 0
      BY <1>2, <1>4, <1>8, <2>1, <2>5
    <3> QED
      BY Zenon, <1>4, <1>5, <2>1, <2>3, <3>1 DEF SendInv, Idle
  <2>6. CASE b # 0
    <3>1. PICK k : k = a + J
      BY Zenon
    <3>2. ~ (b < J) /\ nb_tx' # 0 /\ k \in 1 .. Len(sq')
      BY <1>2, <1>3, <1>4, <1>8, <2>1, <2>2, <2>6, <3>1
    <3>3. OnlySignal(k)'
      BY Zenon, <1>11, <2>4, <3>1, <3>2
    <3>4. Len(sq') - k = Since' /\ executed' + k <= U
      BY <1>2, <1>4, <1>7, <1>8, <2>1, <2>2, <3>1, <3>2
    <3>5. InQueue'
      BY Zenon, <1>1, <1>5, <2>3, <3>2, <3>3, <3>4 DEF InQueue
    <3> QED
      BY Zenon, <3>5 DEF SendInv
  <2> QED
    BY Zenon, <2>5, <2>6
<1>13. CASE InQueue
  <2>1. PICK k \in 1 .. a : OnlySignal(k) /\ a - k = Since /\ executed + k <= U
    BY Zenon, <1>1, <1>13 DEF InQueue
  <2>2. nb_tx # 0 /\ send_cq = << >> /\ Len(send_cq) = 0
    BY Zenon, <1>13 DEF InQueue
  <2>3. c = 0 /\ b < J
    BY <1>2, <1>3, <1>6, <2>2
  <2>4. send_cq' = << >>
    BY <1>6, <2>2, <2>3
  <2>5. k \in 0 .. a /\ k \in 1 .. Len(sq') /\ nb_tx' # 0
    BY <1>2, <1>4, <1>8, <2>1, <2>2
  <2>6. OnlySignal(k)'
    BY Zenon, <1>10, <2>1, <2>3, <2>5
  <2>7. Len(sq') - k = Since' /\ executed' + k <= U
    BY <1>2, <1>4, <1>7, <1>8, <2>1, <2>3
  <2>8. InQueue'
    BY Zenon, <1>1, <1>5, <2>4, <2>5, <2>6, <2>7 DEF InQueue
  <2> QED
    BY Zenon, <2>8 DEF SendInv
<1>14. CASE Completed
  <2>1. PICK v \in 1 .. U : send_cq = <<v>>
    BY Zenon, <1>1, <1>14 DEF Completed
  <2>2. nb_tx # 0 /\ OnlySignal(0) /\ a + executed = Since
    BY Zenon, <1>1, <1>14 DEF Completed
  <2>3. nb_tx' # 0
    BY <1>2, <1>4, <2>2
  <2>4. CASE b < J
    <3>1. send_cq' = <<v>>
      <4>1. send_cq \in Seq(Nat) /\ c = 0
        BY Zenon, <1>6, <2>4 DEF IInv, LoopInv
      <4>2. SubSeq(send_cq, 0 + 1, Len(send_cq)) = send_cq
        BY <4>1
      <4> QED
        BY Zenon, <1>6, <2>1, <4>1, <4>2
    <3>2. 0 \in 0 .. a
      BY <1>2
    <3>3. OnlySignal(0)'
      BY Zenon, <1>10, <2>2, <2>4, <3>2
    <3>4. Len(sq') + executed' = Since'
      BY <1>2, <1>4, <1>7, <1>8, <2>2, <2>4
    <3>5. Completed'
      BY Zenon, <1>1, <1>5, <2>3, <3>1, <3>3, <3>4 DEF Completed
    <3> QED
      BY Zenon, <3>5 DEF SendInv
  <2>5. CASE ~ (b < J)
    <3>1. PICK k : k = a + J
      BY Zenon
    <3>2. c = 1 /\ Len(send_cq) = 1
      BY Zenon, <1>6, <2>1, <2>2, <2>5
    <3>3. send_cq' = << >>
      BY <1>6, <2>1, <3>2
    <3>4. OnlySignal(k)'
      BY Zenon, <1>11, <2>2, <2>5, <3>1
    <3>5. k \in 1 .. Len(sq') /\ Len(sq') - k = Since' /\ executed' + k <= U
      BY <1>2, <1>3, <1>4, <1>7, <1>8, <2>2, <2>5, <3>1
    <3>6. InQueue'
      BY Zenon, <1>1, <1>5, <2>3, <3>3, <3>4, <3>5 DEF InQueue
    <3> QED
      BY Zenon, <3>6 DEF SendInv
  <2> QED
    BY Zenon, <2>4, <2>5
<1> QED
  BY Zenon, <1>5, <1>12, <1>13, <1>14 DEF IInv, SendInv, Flushing, Flushed

(* The NIC executes a SEND.                                                *)
LEMMA SendSend == ASSUME IInv, NicSend PROVE SendInv'
<1>1. PICK a, e : a = Len(sq) /\ e = Head(sq)
  BY Zenon
<1>2. /\ sq # << >> /\ sq' = Tail(sq) /\ UNCHANGED <<pc, nb_tx>>
      /\ send_cq' = (IF e.signaled THEN Append(send_cq, executed + 1) ELSE send_cq)
      /\ executed' = (IF e.signaled THEN 0 ELSE executed + 1)
  BY Zenon, <1>1 DEF NicSend, loop, tx
<1>3. sq \in Seq(Send) /\ executed \in Nat /\ kUnsigBatch \in Nat
  BY Zenon, Constants DEF IInv, LoopInv
<1>4. /\ a \in Nat /\ a >= 1 /\ e = sq[1] /\ Len(sq') = a - 1
      /\ \A i \in 1 .. a - 1 : sq'[i] = sq[i + 1]
  BY Zenon, <1>1, <1>2, <1>3, TailSeq
<1>5. Since' = Since
  BY Zenon, <1>2 DEF Since
<1>6. 1 \in 1 .. a
  BY <1>4
<1>7. ASSUME NEW k \in Nat, OnlySignal(k) PROVE e.signaled <=> k = 1
  BY Zenon, <1>1, <1>4, <1>6, <1>7 DEF OnlySignal
<1>8. ASSUME NEW k \in Nat, OnlySignal(k), NEW j \in Nat, k = j + 1 \/ (k = 0 /\ j = 0)
      PROVE  OnlySignal(j)'
  <2>1. ASSUME NEW i \in 1 .. Len(sq') PROVE sq'[i].signaled <=> i = j
    <3>1. i + 1 \in 1 .. a /\ i \in 1 .. a - 1 /\ (i + 1 = k <=> i = j)
      BY <1>4, <1>8, <2>1
    <3> QED
      BY Zenon, <1>1, <1>4, <1>8, <3>1 DEF OnlySignal
  <2> QED
    BY Zenon, <2>1 DEF OnlySignal
<1>9. ~ Idle /\ ~ Flushed
  BY Zenon, <1>2 DEF Idle, Flushed
<1>10. PICK v : v = executed + 1
  BY Zenon
<1>11. CASE InQueue
  <2>1. PICK k \in 1 .. a : OnlySignal(k) /\ a - k = Since /\ executed + k <= kUnsigBatch
    BY Zenon, <1>1, <1>11 DEF InQueue
  <2>2. nb_tx # 0 /\ pc # "flushed" /\ send_cq = << >>
    BY Zenon, <1>11 DEF InQueue
  <2>3. PICK j : j = k - 1
    BY Zenon
  <2>4. j \in Nat /\ k \in Nat /\ k = j + 1
    BY <2>3
  <2>5. OnlySignal(j)'
    BY Zenon, <1>8, <2>1, <2>4
  <2>6. CASE k = 1
    <3>1. e.signaled
      BY Zenon, <1>7, <2>1, <2>4, <2>6
    <3>2. send_cq' = <<v>> /\ executed' = 0
      BY <1>2, <1>10, <2>2, <3>1
    <3>3. v \in 1 .. kUnsigBatch /\ j = 0 /\ Len(sq') + 0 = Since'
      BY <1>3, <1>4, <1>5, <1>10, <2>1, <2>4, <2>6
    <3>4. Completed'
      BY Zenon, <1>2, <2>2, <2>5, <3>2, <3>3 DEF Completed
    <3> QED
      BY Zenon, <3>4 DEF SendInv
  <2>7. CASE k # 1
    <3>1. ~ e.signaled
      BY Zenon, <1>7, <2>1, <2>4, <2>7
    <3>2. send_cq' = << >> /\ executed' = executed + 1
      BY Zenon, <1>2, <2>2, <3>1
    <3>3. j \in 1 .. Len(sq') /\ Len(sq') - j = Since' /\ executed' + j <= kUnsigBatch
      BY <1>3, <1>4, <1>5, <2>1, <2>4, <2>7, <3>2
    <3>4. InQueue'
      BY Zenon, <1>2, <2>2, <2>5, <3>2, <3>3 DEF InQueue
    <3> QED
      BY Zenon, <3>4 DEF SendInv
  <2> QED
    BY Zenon, <2>6, <2>7
<1>12. CASE Completed
  <2>1. PICK w \in 1 .. kUnsigBatch : send_cq = <<w>>
    BY Zenon, <1>12 DEF Completed
  <2>2. nb_tx # 0 /\ pc # "flushed" /\ OnlySignal(0) /\ a + executed = Since
    BY Zenon, <1>1, <1>12 DEF Completed
  <2>3. 0 \in Nat /\ 0 # 1
    OBVIOUS
  <2>4. ~ e.signaled /\ OnlySignal(0)'
    BY Zenon, <1>7, <1>8, <2>2, <2>3
  <2>5. send_cq' = <<w>> /\ executed' = executed + 1
    BY Zenon, <1>2, <2>1, <2>4
  <2>6. Len(sq') + executed' = Since'
    BY <1>3, <1>4, <1>5, <2>2, <2>5
  <2>7. Completed'
    BY Zenon, <1>2, <2>1, <2>2, <2>4, <2>5, <2>6 DEF Completed
  <2> QED
    BY Zenon, <2>7 DEF SendInv
<1>13. CASE Flushing
  <2>1. /\ nb_tx # 0 /\ pc = "flushed" /\ send_cq = << >> /\ OnlySignal(a)
        /\ executed + a <= kUnsigBatch
    BY Zenon, <1>1, <1>13 DEF Flushing
  <2>2. CASE a = 1
    <3>1. e.signaled
      BY Zenon, <1>4, <1>7, <2>1, <2>2
    <3>2. send_cq' = <<v>> /\ executed' = 0 /\ v \in 1 .. kUnsigBatch
      BY <1>2, <1>3, <1>10, <2>1, <2>2, <3>1
    <3>3. sq' = << >>
      <4>1. Len(sq') = 0 /\ sq' \in Seq(Send)
        BY <1>2, <1>3, <1>4, <2>2, TailSeq
      <4> QED
        BY <4>1
    <3>4. Flushed'
      BY Zenon, <1>2, <2>1, <3>2, <3>3 DEF Flushed
    <3> QED
      BY Zenon, <3>4 DEF SendInv
  <2>3. CASE a # 1
    <3>1. PICK j : j = Len(sq')
      BY Zenon
    <3>2. j \in Nat /\ a = j + 1 /\ j # 0
      BY <1>4, <2>3, <3>1
    <3>3. ~ e.signaled /\ OnlySignal(j)'
      BY Zenon, <1>4, <1>7, <1>8, <2>1, <2>3, <3>2
    <3>4. send_cq' = << >> /\ executed' = executed + 1
      BY Zenon, <1>2, <2>1, <3>3
    <3>5. sq' # << >> /\ executed' + Len(sq') <= kUnsigBatch
      BY <1>3, <2>1, <3>1, <3>2, <3>4
    <3>6. OnlySignal(Len(sq))'
      BY Zenon, <3>1, <3>3
    <3>7. Flushing'
      BY Zenon, <1>2, <2>1, <3>4, <3>5, <3>6 DEF Flushing
    <3> QED
      BY Zenon, <3>7 DEF SendInv
  <2> QED
    BY Zenon, <2>2, <2>3
<1> QED
  BY Zenon, <1>9, <1>11, <1>12, <1>13 DEF IInv, SendInv

(* tx_flush: the completion that is polled first is there, or comes.       *)
LEMMA SendFlush == ASSUME IInv, FlushPost PROVE SendInv'
<1>1. pc = "flush"
  BY Zenon DEF FlushPost
<1>2. pc # "flushed" /\ nb_tx' = nb_tx /\ kUnsigBatch \in Nat /\ nb_tx \in Nat
  BY Zenon, <1>1, Constants DEF FlushPost, tx, IInv, LoopInv
<1>3. CASE nb_tx = 0
  <2>1. Idle
    BY Zenon, <1>2, <1>3 DEF IInv, SendInv, InQueue, Completed, Flushing, Flushed
  <2>2. UNCHANGED sendq /\ pc' = "loop"
    BY Zenon, <1>3 DEF FlushPost
  <2>3. Idle'
    BY Zenon, <1>2, <2>1, <2>2 DEF Idle, sendq
  <2> QED
    BY Zenon, <2>3 DEF SendInv
<1>4. CASE nb_tx # 0
  <2>1. PICK a, e : a = Len(sq) /\ e = [flow |-> "flush", signaled |-> TRUE, n |-> 0]
    BY Zenon
  <2>2. /\ send_cq # << >> /\ send_cq' = Tail(send_cq) /\ pc' = "flushed" /\ executed' = executed
        /\ sq' = Append(sq, e)
    BY Zenon, <1>4, <2>1 DEF FlushPost
  <2>3. Completed
    BY Zenon, <1>2, <1>4, <2>2 DEF IInv, SendInv, Idle, InQueue, Flushing, Flushed
  <2>4. PICK v : send_cq = <<v>>
    BY Zenon, <2>3 DEF Completed
  <2>5. send_cq' = << >>
    BY Zenon, <2>2, <2>4, OneEntry
  <2>6. OnlySignal(0) /\ a + executed = Since
    BY Zenon, <2>1, <2>3 DEF Completed
  <2>7. e \in Send /\ e.signaled
    BY Zenon, <2>1 DEF Send
  <2>8. sq \in Seq(Send) /\ executed \in Nat
    BY Zenon DEF IInv, LoopInv
  <2>9. /\ a \in Nat /\ Len(sq') = a + 1 /\ sq'[a + 1] = e /\ \A i \in 1 .. a : sq'[i] = sq[i]
    BY <2>1, <2>2, <2>7, <2>8, AppendSeq
  <2>10. ASSUME NEW i \in 1 .. Len(sq') PROVE sq'[i].signaled <=> i = Len(sq')
    <3>1. CASE i = a + 1
      BY Zenon, <2>7, <2>9, <3>1
    <3>2. CASE i # a + 1
      <4>1. i \in 1 .. a /\ i # 0 /\ i # Len(sq')
        BY <2>9, <2>10, <3>2
      <4> QED
        BY Zenon, <2>1, <2>6, <2>9, <4>1 DEF OnlySignal
    <3> QED
      BY Zenon, <3>1, <3>2
  <2>11. sq' # << >> /\ executed' + Len(sq') <= kUnsigBatch
    <3>1. Since + 1 <= kUnsigBatch /\ Since \in Int
      <4>1. nb_tx % kUnsigBatch \in 0 .. kUnsigBatch - 1
        BY Zenon, <1>2, Constants, ModDef
      <4> QED
        BY <1>2, <4>1 DEF Since
    <3> QED
      BY <1>2, <2>2, <2>6, <2>8, <2>9, <3>1
  <2>12. OnlySignal(Len(sq))'
    BY Zenon, <2>10 DEF OnlySignal
  <2>13. Flushing'
    BY Zenon, <1>2, <1>4, <2>2, <2>5, <2>11, <2>12 DEF Flushing
  <2> QED
    BY Zenon, <2>13 DEF SendInv
<1> QED
  BY Zenon, <1>3, <1>4

LEMMA SendPoll == ASSUME IInv, FlushPoll PROVE SendInv'
<1>1. /\ pc = "flushed" /\ send_cq # << >> /\ send_cq' = Tail(send_cq) /\ nb_tx' = 0 /\ pc' = "loop"
      /\ UNCHANGED <<sq, executed>>
  BY Zenon DEF FlushPoll
<1>2. Flushed
  BY Zenon, <1>1 DEF IInv, SendInv, Idle, InQueue, Completed, Flushing
<1>3. PICK v : send_cq = <<v>>
  BY Zenon, <1>2 DEF Flushed
<1>4. send_cq' = << >>
  BY Zenon, <1>1, <1>3, OneEntry
<1>5. pc' # "flushed"
  BY Zenon, <1>1
<1>6. Idle'
  BY Zenon, <1>1, <1>2, <1>4, <1>5 DEF Flushed, Idle
<1> QED
  BY Zenon, <1>6 DEF SendInv

LEMMA SendStep == ASSUME IInv, [Next]_vars PROVE SendInv'
<1>1. LoopInv'
  BY Zenon, LoopStep
<1>2. CASE TxBurst \/ NicSend \/ FlushPost \/ FlushPoll
  BY Zenon, <1>1, <1>2, SendBurst, SendSend, SendFlush, SendPoll
<1>3. CASE ~ TxBurst /\ ~ NicSend /\ ~ FlushPost /\ ~ FlushPoll
  <2>1. UNCHANGED <<nb_tx, sq, executed, send_cq>>
    BY Zenon, <1>3 DEF Next, Thread, vars, EnqueueData, enqueue_rfr_st, RxBurst, ProcessPacket,
                       PostRecvs, Drain, DrainTxBatch, NicRecv, NicDrop, tx, sendq
  <2>2. pc' = "flushed" <=> pc = "flushed"
    <3>1. CASE NicRecv \/ NicDrop \/ UNCHANGED vars
      BY Zenon, <3>1 DEF NicRecv, NicDrop, vars, loop
    <3>2. CASE RxBurst \/ PostRecvs \/ Drain \/ DrainTxBatch
      BY Zenon, <3>2 DEF RxBurst, PostRecvs, Drain, DrainTxBatch
    <3>3. CASE EnqueueData \/ enqueue_rfr_st \/ ProcessPacket
      <4>1. pc # "flushed" /\ pc' \in {pc, "burst"}
        BY Zenon, <3>3 DEF EnqueueData, ProcessPacket, enqueue_cr_st, enqueue_rfr_st, EnqueueHeader,
                           Enqueue
      <4> QED
        BY Zenon, <4>1
    <3> QED
      BY Zenon, <1>3, <3>1, <3>2, <3>3 DEF Next, Thread
  <2> QED
    BY Zenon, <2>1, <2>2 DEF IInv, SendInv, Idle, InQueue, Completed, Flushing, Flushed, Since,
                             OnlySignal
<1> QED
  BY Zenon, <1>2, <1>3

-------------------------------------------------------------------------------
(* The invariant, and what follows from it.                                *)

LEMMA InitInv == Init => IInv
<1> SUFFICES ASSUME Init PROVE IInv
  OBVIOUS
<1>1. LoopInv
  <2>1. pc = "loop" /\ then = "loop" /\ num = 0 /\ todo = 0 /\ ~ InRx
    BY Zenon DEF Init, InRx
  <2>2. batch = << >> /\ sq = << >> /\ send_cq = << >> /\ nb_tx = 0 /\ executed = 0 /\ recv_cq = 0
        /\ dropped = 0
    BY Zenon DEF Init
  <2>3. ctrl \in [Ctrl -> Nat] /\ ring \in [Ring -> Nat] /\ given \in [Flows -> Nat] /\ left \in [Flows -> Nat]
    BY Zenon DEF Init
  <2>4. ctrl_head \in Ctrl /\ rx_ring_head \in Ring /\ recv_head \in Ring
        /\ recvs_to_post \in 0 .. kRecvSlack - 1
    BY Constants DEF Init, Ctrl, Ring
  <2>5. rq \in Seq(Ring)
    <3>1. \A i \in 1 .. kRQDepth : i - 1 \in Ring
      BY Constants DEF Ring
    <3> QED
      BY <3>1, Constants DEF Init
  <2>6. /\ num \in 0 .. kPostlist /\ todo \in 0 .. num /\ nb_tx \in Nat /\ executed \in Nat
        /\ recv_cq \in Nat /\ dropped \in Nat
    BY <2>1, <2>2, Constants
  <2>7. /\ batch \in Seq(Item) /\ sq \in Seq(Send) /\ send_cq \in Seq(Nat)
        /\ Len(batch) <= kPostlist /\ Len(batch) < kPostlist
    BY <2>2, Constants
  <2> QED
    BY Zenon, <2>1, <2>2, <2>3, <2>4, <2>5, <2>6, <2>7 DEF LoopInv
<1>2. RingInv
  <2>1. /\ rx_ring_head = 0 /\ recv_cq = 0 /\ todo = 0 /\ recvs_to_post = 0 /\ recv_head = 0
        /\ rq = [i \in 1 .. kRQDepth |-> i - 1] /\ given["cr"] = 0 /\ pc = "loop"
    BY Zenon, FlowNames DEF Init
  <2>2. Waiting = 0 /\ Held = 0
    BY <2>1 DEF Waiting, Held, InRx
  <2>3. Len(rq) = kRQDepth /\ kRQDepth \in Nat \ {0}
    BY <2>1, Constants
  <2>4. ASSUME NEW j \in 0 .. kRQDepth PROVE Pos(0, j) = IF j < kRQDepth THEN j ELSE 0
    <3>1. 0 \in Ring
      BY <2>3 DEF Ring
    <3>2. (0 + j) % kRQDepth = IF 0 + j < kRQDepth THEN 0 + j ELSE 0 + j - kRQDepth
      BY Zenon, <2>3, <3>1, RingPos
    <3> QED
      BY <2>3, <3>2 DEF Pos
  <2>5. ASSUME NEW i \in 1 .. Len(rq) PROVE rq[i] = Pos(rx_ring_head, Waiting + i - 1)
    <3>1. i - 1 \in 0 .. kRQDepth /\ i - 1 < kRQDepth /\ 0 + i - 1 = i - 1
      BY <2>3
    <3> QED
      BY Zenon, <2>1, <2>2, <2>3, <2>4, <3>1
  <2>6. recv_head = Pos(rx_ring_head, Waiting + Len(rq))
    <3>1. kRQDepth \in 0 .. kRQDepth /\ ~ (kRQDepth < kRQDepth) /\ 0 + kRQDepth = kRQDepth
      BY <2>3
    <3> QED
      BY Zenon, <2>1, <2>2, <2>3, <2>4, <3>1
  <2>7. Len(rq) + Waiting + Held + recvs_to_post = kRQDepth /\ Waiting <= given["cr"]
    BY <2>1, <2>2, <2>3
  <2>8. \A j \in 0 .. Waiting - 1 : FALSE
    BY <2>2
  <2> QED
    BY Zenon, <2>5, <2>6, <2>7, <2>8 DEF RingInv
<1>3. CtrlInv
  BY DEF Init, CtrlInv
<1>4. FlowInv
  <2>1. Len(Pending) = 0
    <3>1. Len(sq) = 0 /\ Len(batch) = 0
      BY Zenon DEF Init
    <3> QED
      BY <3>1 DEF Pending
  <2>2. given["cr"] = 0 /\ \A f \in Flows : left[f] = 0 /\ given[f] = 0
    BY Zenon, FlowNames DEF Init
  <2>4. Done = 0
    BY <2>2 DEF Init, Done, Waiting
  <2>3. ASSUME NEW f PROVE Numbered(Pending, f, 0, 0)
    BY <2>1 DEF Numbered
  <2> QED
    BY Zenon, <2>2, <2>3, <2>4 DEF FlowInv, Entered
<1>5. SendInv
  <2>1. Idle
    BY Zenon DEF Init, Idle
  <2> QED
    BY Zenon, <2>1 DEF SendInv
<1> QED
  BY Zenon, <1>1, <1>2, <1>3, <1>4, <1>5 DEF IInv

(* The queues, the ring and the packets in them are accounted for: IInv    *)
(* holds throughout.                                                       *)
THEOREM Invariance == Spec => []IInv
<1>1. IInv /\ [Next]_vars => IInv'
  BY Zenon, LoopStep, RingStep, CtrlStep, FlowStep, SendStep DEF IInv
<1> QED
  BY InitInv, <1>1, PTL DEF Spec

LEMMA TypesHold == IInv => TypeOK
<1> SUFFICES ASSUME IInv PROVE TypeOK
  BY Zenon
<1>1. \A r \in Range(rq) : r \in Ring
  <2>1. rq \in Seq(Ring)
    BY Zenon DEF IInv, LoopInv
  <2> QED
    BY <2>1 DEF Range
<1> QED
  BY Zenon, <1>1 DEF IInv, LoopInv, TypeOK

(* No head, counter or batch of the transport leaves its range.            *)
THEOREM TypeCorrect == Spec => []TypeOK
BY Invariance, TypesHold, PTL

LEMMA SignalsHold == IInv => SelectiveSignaling
<1> SUFFICES ASSUME IInv PROVE SelectiveSignaling
  OBVIOUS
<1>1. PICK S, a : S = {i \in 1 .. Len(sq) : sq[i].signaled} /\ a = Len(sq)
  BY Zenon
<1>2. /\ a \in Nat /\ executed \in Nat /\ kUnsigBatch \in Nat \ {0} /\ kSQDepth \in Nat
      /\ kSQDepth >= 2 * kUnsigBatch /\ nb_tx \in Nat
  BY <1>1, Constants, QueueAssumption DEF IInv, LoopInv
<1>3. Since \in 0 .. kUnsigBatch - 1
  <2>1. nb_tx % kUnsigBatch \in 0 .. kUnsigBatch - 1
    BY Zenon, <1>2, ModDef
  <2> QED
    BY <1>2, <2>1 DEF Since
<1>4. ASSUME OnlySignal(0) PROVE Cardinality(S) = 0
  <2>1. \A i \in 1 .. Len(sq) : i # 0
    BY <1>1, <1>2
  <2>2. S = {}
    BY Zenon, <1>1, <1>4, <2>1 DEF OnlySignal
  <2> QED
    BY Zenon, <2>2, Singleton
<1>5. ASSUME NEW k \in 1 .. Len(sq), OnlySignal(k) PROVE Cardinality(S) = 1
  <2>1. S = {k}
    BY Zenon, <1>1, <1>5 DEF OnlySignal
  <2> QED
    BY Zenon, <2>1, Singleton
<1>6. CASE Idle
  <2>1. OnlySignal(0) /\ a = 0 /\ Len(send_cq) = 0
    BY <1>1, <1>6 DEF Idle, OnlySignal
  <2>2. Cardinality(S) = 0
    BY Zenon, <1>4, <2>1
  <2> QED
    BY <1>1, <1>2, <1>6, <2>1, <2>2 DEF Idle, SelectiveSignaling
<1>7. CASE InQueue
  <2>1. PICK k \in 1 .. Len(sq) : OnlySignal(k) /\ Len(sq) - k = Since /\ executed + k <= kUnsigBatch
    BY Zenon, <1>7 DEF InQueue
  <2>2. Cardinality(S) = 1
    BY Zenon, <1>5, <2>1
  <2>3. nb_tx # 0 /\ send_cq = << >> /\ Len(send_cq) = 0
    BY Zenon, <1>7 DEF InQueue
  <2>4. a + executed + 0 <= kSQDepth
    BY <1>1, <1>2, <1>3, <2>1
  <2> QED
    BY <1>1, <2>2, <2>3, <2>4 DEF SelectiveSignaling
<1>8. CASE Completed
  <2>1. PICK v \in 1 .. kUnsigBatch : send_cq = <<v>>
    BY Zenon, <1>8 DEF Completed
  <2>2. nb_tx # 0 /\ OnlySignal(0) /\ a + executed = Since
    BY Zenon, <1>1, <1>8 DEF Completed
  <2>3. Cardinality(S) = 0
    BY Zenon, <1>4, <2>2
  <2>4. send_cq # << >> /\ Len(send_cq) = 1 /\ Head(send_cq) = v
    BY Zenon, <2>1, OneEntry
  <2>5. a + executed + v <= kSQDepth
    BY <1>2, <1>3, <2>2
  <2> QED
    BY <1>1, <2>2, <2>3, <2>4, <2>5 DEF SelectiveSignaling
<1>9. CASE Flushing
  <2>1. nb_tx # 0 /\ send_cq = << >> /\ Len(send_cq) = 0 /\ sq # << >> /\ executed + a <= kUnsigBatch
    BY Zenon, <1>1, <1>9 DEF Flushing
  <2>2. Len(sq) \in 1 .. Len(sq)
    <3>1. sq \in Seq(Send)
      BY Zenon DEF IInv, LoopInv
    <3> QED
      BY <2>1, <3>1
  <2>3. Cardinality(S) = 1
    BY Zenon, <1>5, <1>9, <2>2 DEF Flushing
  <2>4. a + executed + 0 <= kSQDepth
    BY <1>2, <2>1
  <2> QED
    BY <1>1, <2>1, <2>3, <2>4 DEF SelectiveSignaling
<1>10. CASE Flushed
  <2>1. PICK v \in 1 .. kUnsigBatch : send_cq = <<v>>
    BY Zenon, <1>10 DEF Flushed
  <2>2. nb_tx # 0 /\ OnlySignal(0) /\ a = 0 /\ executed = 0
    BY <1>1, <1>10 DEF Flushed, OnlySignal
  <2>3. Cardinality(S) = 0
    BY Zenon, <1>4, <2>2
  <2>4. send_cq # << >> /\ Len(send_cq) = 1 /\ Head(send_cq) = v
    BY Zenon, <2>1, OneEntry
  <2>5. a + executed + v <= kSQDepth
    BY <1>2, <2>2
  <2> QED
    BY <1>1, <2>2, <2>3, <2>4, <2>5 DEF SelectiveSignaling
<1> QED
  BY Zenon, <1>6, <1>7, <1>8, <1>9, <1>10 DEF IInv, SendInv

(* Selective signaling (get_signaled_flag, tx_flush): for every kUnsigBatch *)
(* and every sequence of batches and flushes there is exactly one signaled  *)
(* SEND or completion, and the SEND queue never overflows.                  *)
THEOREM SendsFit == Spec => []SelectiveSignaling
BY Invariance, SignalsHold, PTL

LEMMA RingHolds == IInv => ReceiveRing
<1> SUFFICES ASSUME IInv PROVE ReceiveRing
  OBVIOUS
<1>1. PICK x, k, L : x = rx_ring_head /\ k = Waiting /\ L = Len(rq)
  BY Zenon
<1>2. /\ x \in Ring /\ k \in Nat /\ L \in Nat /\ Held \in Nat /\ recvs_to_post \in Nat
      /\ Held <= kPostlist /\ recvs_to_post <= kRecvSlack - 1 /\ k + L <= kRQDepth
      /\ kRQDepth \in Nat /\ kPostlist \in Nat /\ kRecvSlack \in Nat
  BY Zenon, <1>1, RingTypes, Constants DEF IInv
<1>3. /\ L + k + Held + recvs_to_post = kRQDepth
      /\ \A i \in 1 .. L : rq[i] = Pos(x, k + i - 1)
  BY Zenon, <1>1 DEF IInv, RingInv
<1>4. rq \in Seq(Ring)
  BY Zenon DEF IInv, LoopInv
<1>5. \A i \in 1 .. L : k + i - 1 \in Nat /\ k + i - 1 < kRQDepth
  BY <1>2
<1>6. CreditsOut + ring_entries_available <= L + HeldBack
  <2>1. left["cr"] <= Done
    BY Zenon, FlowNames DEF IInv, FlowInv, Numbered, Entered
  <2>2. PICK c, g : c = left["cr"] /\ g = given["cr"]
    BY Zenon
  <2>3. c \in Nat /\ g \in Nat /\ k <= g - c /\ dropped \in Nat
    <3>1. c \in Nat /\ g \in Nat /\ dropped \in Nat
      BY Zenon, <2>2, FlowTypes, FlowNames DEF IInv, LoopInv
    <3>2. Done = g - k
      BY Zenon, <1>1, <2>2 DEF Done
    <3> QED
      BY <1>2, <2>1, <2>2, <3>1, <3>2
  <2>4. CreditsOut + ring_entries_available = (Credits - (g - c) - dropped) + (kRQDepth - Credits)
    BY Zenon, <2>2 DEF CreditsOut, ring_entries_available
  <2> QED
    BY <1>2, <1>3, <2>3, <2>4, Constants DEF HeldBack
<1>7. Range(rq) = {rq[i] : i \in 1 .. L}
  BY <1>1, <1>4 DEF Range
<1>8. ASSUME NEW r \in Range(rq), r \in Unprocessed PROVE FALSE
  <2>1. PICK i \in 1 .. L : r = rq[i]
    BY Zenon, <1>7
  <2>2. PICK j \in 0 .. k - 1 : r = Pos(x, j)
    <3>1. PICK j \in 0 .. recv_cq + todo - 1 : r = (rx_ring_head + j) % kRQDepth
      BY Zenon, <1>8 DEF Unprocessed
    <3>2. j \in 0 .. k - 1
      <4>1. k = recv_cq + todo
        BY Zenon, <1>1 DEF Waiting
      <4>2. recv_cq \in Nat /\ todo \in Nat
        BY Constants DEF IInv, LoopInv
      <4> QED
        BY <1>2, <3>1, <4>1, <4>2
    <3>3. r = Pos(x, j)
      BY Zenon, <1>1, <3>1 DEF Pos
    <3> QED
      BY Zenon, <3>2, <3>3
  <2>3. j \in Nat /\ j < kRQDepth /\ j # k + i - 1
    BY <1>2
  <2>4. Pos(x, k + i - 1) = Pos(x, j)
    BY Zenon, <1>3, <2>1, <2>2
  <2> QED
    BY Zenon, <1>2, <1>5, <2>3, <2>4, PosApart
<1>9. Cardinality(Range(rq)) = L
  <2>1. rq \in [1 .. L -> Range(rq)]
    BY <1>1, <1>4, <1>7
  <2>2. IsInjective(rq)
    <3>1. DOMAIN rq = 1 .. L
      BY Zenon, <2>1
    <3>2. ASSUME NEW i \in 1 .. L, NEW j \in 1 .. L, rq[i] = rq[j] PROVE i = j
      <4>1. Pos(x, k + i - 1) = Pos(x, k + j - 1)
        BY Zenon, <1>3, <3>2
      <4>2. k + i - 1 = k + j - 1
        BY Zenon, <1>2, <1>5, <4>1, PosApart
      <4> QED
        BY <1>2, <4>2
    <3> QED
      BY Zenon, <3>1, <3>2 DEF IsInjective
  <2>3. rq \in Surjection(1 .. L, Range(rq))
    BY Zenon, <1>7, <2>1 DEF Surjection
  <2>4. ExistsBijection(1 .. L, Range(rq))
    BY Zenon, <2>1, <2>2, <2>3 DEF ExistsBijection, Bijection, Injection
  <2>5. IsFiniteSet(1 .. L) /\ Cardinality(1 .. L) = L
    BY <1>2, FS_Interval
  <2> QED
    BY Zenon, <2>4, <2>5, FS_Bijection
<1>10. Range(rq) \cap Unprocessed = {}
  BY Zenon, <1>8
<1> QED
  BY Zenon, <1>1, <1>6, <1>9, <1>10 DEF ReceiveRing

(* The RECV ring (post_recvs, rx_burst, process_comps_st), for every       *)
(* number of credits that have_ring_entries admits: of the RECVs the       *)
(* credits out call for at most kPostlist + kRecvSlack - 1 are not posted, *)
(* and no posted RECV is for an entry that is yet to be processed or is    *)
(* already posted.                                                         *)
THEOREM RingServes == Spec => []ReceiveRing
BY Invariance, RingHolds, PTL

AllReceived == dropped = 0

(* No packet of a peer is dropped for want of a RECV if the sessions leave *)
(* kPostlist + kRecvSlack - 1 entries of the ring free, which              *)
(* have_ring_entries does not ask for.                                     *)
THEOREM NoneDropped ==
    ASSUME kRQDepth - Credits >= kPostlist + kRecvSlack - 1
    PROVE  Spec => []AllReceived
<1>1. Init => AllReceived
  BY Zenon DEF Init, AllReceived
<1>2. IInv /\ AllReceived /\ [Next]_vars => AllReceived'
  <2> SUFFICES ASSUME IInv, [Next]_vars, dropped' # dropped PROVE FALSE
    BY Zenon DEF AllReceived
  <2>1. NicDrop
    BY Zenon DEF Next, Thread, vars, EnqueueData, enqueue_rfr_st, RxBurst, ProcessPacket, PostRecvs,
                 Drain, TxBurst, FlushPost, FlushPoll, DrainTxBatch, NicSend, NicRecv, recvq
  <2>2. CreditsOut > 0 /\ Len(rq) = 0
    BY Zenon, <2>1 DEF NicDrop
  <2>3. CreditsOut + ring_entries_available <= 0 + HeldBack
    BY Zenon, <2>2, RingHolds DEF ReceiveRing
  <2>4. CreditsOut \in Int /\ ring_entries_available \in Int /\ HeldBack \in Int
    BY FlowTypes, FlowNames, Constants DEF IInv, LoopInv, CreditsOut, ring_entries_available, HeldBack
  <2> QED
    BY <2>2, <2>3, <2>4 DEF ring_entries_available, HeldBack
<1> QED
  BY <1>1, <1>2, Invariance, PTL DEF Spec

LEMMA FlowInit == Init => Flow!Init
BY Zenon DEF Init, Flow!Init

LEMMA FlowSteps == IInv /\ [Next]_vars => [Flow!Next]_<<given, left>>
<1> SUFFICES ASSUME IInv, [Next]_vars PROVE [Flow!Next]_<<given, left>>
  BY Zenon
<1>1. CASE EnqueueData
  <2>1. Flow!Give("data")
    BY Zenon, <1>1 DEF EnqueueData, Flow!Give
  <2> QED
    BY Zenon, <2>1, FlowNames DEF Flow!Next
<1>2. CASE NicRecv
  <2>1. Flow!Give("cr")
    BY Zenon, <1>2 DEF NicRecv, Flow!Give
  <2> QED
    BY Zenon, <2>1, FlowNames DEF Flow!Next
<1>3. CASE NicSend
  <2>1. ~ ProcessPacket
    BY <1>3 DEF NicSend, ProcessPacket, loop, IInv, LoopInv
  <2>2. left' = left \/ \E f \in Flows : Leaves(f)
    BY Zenon, <1>3, <2>1, LoopStep, DoneSame, FlowSend
  <2>3. given' = given
    BY Zenon, <1>3 DEF NicSend
  <2> QED
    BY Zenon, <2>2, <2>3 DEF Leaves, Flow!Next, Flow!Leave
<1>4. CASE enqueue_rfr_st
  <2>1. Flow!Give("rfr")
    BY Zenon, <1>4 DEF enqueue_rfr_st, Flow!Give
  <2> QED
    BY Zenon, <2>1, FlowNames DEF Flow!Next
<1>5. CASE ~ EnqueueData /\ ~ NicRecv /\ ~ NicSend /\ ~ enqueue_rfr_st
  <2>1. UNCHANGED <<given, left>>
    BY Zenon, <1>5 DEF Next, Thread, vars, RxBurst, ProcessPacket, PostRecvs, Drain, TxBurst,
                       FlushPost, FlushPoll, DrainTxBatch, NicDrop
  <2> QED
    BY Zenon, <2>1
<1> QED
  BY Zenon, <1>1, <1>2, <1>3, <1>4, <1>5

(* The transport implements the safety part of PacketFlow: whatever the    *)
(* interleaving of the event loop and the NIC, the packets of each flow    *)
(* leave in the order they were handed over, none twice and none mistaken  *)
(* for another.  That each of them leaves is checked by TLC only.          *)
THEOREM FlowsInOrder == Spec => Flow!Safe
BY FlowInit, Invariance, FlowSteps, PTL DEF Spec, Flow!Safe
===============================================================================
