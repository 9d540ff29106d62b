--------------------------- MODULE SessionMgmtProofs ---------------------------
(***************************************************************************)
(* Session management is right for any number of sessions, any ring sizes, *)
(* and any loss, duplication and reordering of datagrams, with or without  *)
(* restarts of the server Rpc: IInv of SessionMgmt is inductive.  While    *)
(* one server Rpc lives, so is StableInv, and the two ends agree.          *)
(***************************************************************************)
EXTENDS SessionMgmt, TLAPS, FiniteSetTheorems

-------------------------------------------------------------------------------
(* Sequences.                                                              *)

\* What a queue holds once p has been put in.
LEMMA ItemsAppend ==
    ASSUME NEW S, NEW q \in Seq(S), NEW p \in S
    PROVE  Append(q, p) \in Seq(S) /\ Items(Append(q, p)) = Items(q) \cup {p}
<1>1. /\ Append(q, p) \in Seq(S) /\ Len(Append(q, p)) = Len(q) + 1
      /\ \A i \in 1 .. Len(q) : Append(q, p)[i] = q[i]
      /\ Append(q, p)[Len(q) + 1] = p
  OBVIOUS
<1>2. DOMAIN Append(q, p) = 1 .. (Len(q) + 1) /\ DOMAIN q = 1 .. Len(q) /\ Len(q) \in Nat
  BY <1>1
<1>3. 1 .. (Len(q) + 1) = (1 .. Len(q)) \cup {Len(q) + 1}
  BY <1>2
<1> QED
  BY <1>1, <1>2, <1>3 DEF Items

\* Taking the first item out of a queue.
LEMMA ItemsTail ==
    ASSUME NEW S, NEW q \in Seq(S), q # <<>>
    PROVE  Tail(q) \in Seq(S) /\ Head(q) \in Items(q) /\ Items(Tail(q)) \subseteq Items(q)
<1>1. /\ Tail(q) \in Seq(S) /\ Head(q) = q[1] /\ 1 \in DOMAIN q
      /\ Len(Tail(q)) = Len(q) - 1 /\ \A i \in 1 .. Len(Tail(q)) : Tail(q)[i] = q[i + 1]
  OBVIOUS
<1>2. ASSUME NEW i \in DOMAIN Tail(q) PROVE Tail(q)[i] \in Items(q)
  <2>1. i \in 1 .. Len(Tail(q)) /\ i + 1 \in DOMAIN q
    BY <1>1
  <2> QED
    BY <1>1, <2>1 DEF Items
<1> QED
  BY <1>1, <1>2 DEF Items

Live(q) == {i \in DOMAIN q : q[i].st # "buried"}

\* The live sessions of a session vector are finitely many.
LEMMA LiveFinite ==
    ASSUME NEW S, NEW q \in Seq(S) PROVE IsFiniteSet(Live(q)) /\ Cardinality(Live(q)) \in Nat
<1>1. IsFiniteSet(DOMAIN q)
  BY FS_Interval
<1>2. IsFiniteSet(Live(q))
  BY <1>1, FS_Subset DEF Live
<1> QED
  BY <1>2, FS_CardinalityType

\* A new session is one more live session.
LEMMA LiveAppend ==
    ASSUME NEW S, NEW q \in Seq(S), NEW r \in S, r.st # "buried"
    PROVE  Cardinality(Live(Append(q, r))) = Cardinality(Live(q)) + 1
<1>1. /\ Len(Append(q, r)) = Len(q) + 1
      /\ \A i \in 1 .. Len(q) : Append(q, r)[i] = q[i]
      /\ Append(q, r)[Len(q) + 1] = r
  OBVIOUS
<1>2. DOMAIN Append(q, r) = 1 .. (Len(q) + 1) /\ DOMAIN q = 1 .. Len(q) /\ Len(q) \in Nat
  BY <1>1
<1>3. Live(Append(q, r)) = Live(q) \cup {Len(q) + 1}
  BY <1>1, <1>2 DEF Live
<1>4. Len(q) + 1 \notin Live(q)
  BY <1>2 DEF Live
<1> QED
  BY Zenon, <1>3, <1>4, LiveFinite, FS_AddElement

\* Burying one live session.
LEMMA LiveBury ==
    ASSUME NEW S, NEW q \in Seq(S), NEW q2, NEW n \in DOMAIN q, DOMAIN q2 = DOMAIN q,
           q[n].st # "buried", q2[n].st = "buried",
           \A m \in DOMAIN q : m # n => q2[m].st = q[m].st
    PROVE  Cardinality(Live(q2)) = Cardinality(Live(q)) - 1
<1>1. Live(q2) = Live(q) \ {n} /\ n \in Live(q)
  BY DEF Live
<1> QED
  BY Zenon, <1>1, LiveFinite, FS_RemoveElement

-------------------------------------------------------------------------------
(* The client.                                                             *)

\* A step that changes one session and its share of the ring.
LEMMA ClientModify ==
    ASSUME ClientInv, NEW n \in DOMAIN csess, NEW r \in CSession,
           csess' = [csess EXCEPT ![n] = r], csess[n].st # "buried",
           r.cb \in Callbacks(r.st), pending' \subseteq DOMAIN csess,
           \/ r.st # "buried" /\ cring' = cring
           \/ r.st = "buried" /\ cring' = cring + 1
    PROVE  ClientInv'
<1>1. /\ csess \in Seq(CSession) /\ cring \in Nat /\ cring + Cardinality(Live(csess)) = ClientRing
  BY DEF ClientInv, LiveClient, Live
<1>2. csess' \in Seq(CSession) /\ DOMAIN csess' = DOMAIN csess
  BY <1>1
<1>3. CallbackOrder'
  <2>1. ASSUME NEW m \in DOMAIN csess' PROVE csess'[m].cb \in Callbacks(csess'[m].st)
    <3>1. CASE m = n
      BY <3>1, <1>1
    <3>2. CASE m # n
      <4>1. csess'[m] = csess[m] /\ m \in DOMAIN csess
        BY <1>1, <1>2, <3>2
      <4> QED
        BY <4>1 DEF ClientInv, CallbackOrder
    <3> QED
      BY <3>1, <3>2
  <2> QED
    BY Zenon, <2>1 DEF CallbackOrder, Callbacks
<1>4. cring' \in Nat /\ cring' + Cardinality(Live(csess')) = ClientRing
  <2>1. Cardinality(Live(csess)) \in Nat
    BY <1>1, LiveFinite
  <2>2. CASE r.st # "buried" /\ cring' = cring
    <3>1. Live(csess') = Live(csess)
      BY <1>1, <1>2, <2>2 DEF Live
    <3> QED
      BY <1>1, <2>2, <3>1
  <2>3. CASE r.st = "buried" /\ cring' = cring + 1
    <3>1. Cardinality(Live(csess')) = Cardinality(Live(csess)) - 1
      <4>1. csess'[n].st = "buried" /\ \A m \in DOMAIN csess : m # n => csess'[m].st = csess[m].st
        BY <1>1, <2>3
      <4> QED
        BY Zenon, <1>1, <1>2, <4>1, LiveBury
    <3> QED
      BY <1>1, <2>1, <2>3, <3>1
  <2> QED
    BY <2>2, <2>3
<1> QED
  BY <1>2, <1>3, <1>4 DEF ClientInv, LiveClient, Live

\* A new session takes its share of the ring.
LEMMA ClientCreate ==
    ASSUME ClientInv, create_session_st PROVE ClientInv'
<1>0. PICK r : r = [st |-> "connecting", srv |-> 0, cb |-> <<>>]
  BY Zenon
<1>1. /\ csess \in Seq(CSession) /\ cring \in Nat /\ cring + Cardinality(Live(csess)) = ClientRing
      /\ pending \subseteq DOMAIN csess
  BY DEF ClientInv, LiveClient, Live
<1>2. /\ csess' = Append(csess, r) /\ cring' = cring - 1 /\ cring > 0
      /\ pending' = pending \cup {Len(csess) + 1}
  BY <1>0 DEF create_session_st, have_ring_entries, send_sm_req_st
<1>3. r \in CSession /\ r.st = "connecting" /\ r.cb = <<>>
  BY <1>0 DEF CSession, CStates
<1>4. /\ csess' \in Seq(CSession) /\ DOMAIN csess' = (DOMAIN csess) \cup {Len(csess) + 1}
      /\ csess'[Len(csess) + 1] = r /\ \A m \in DOMAIN csess : csess'[m] = csess[m]
  BY <1>1, <1>2, <1>3
<1>5. CallbackOrder'
  <2>1. ASSUME NEW m \in DOMAIN csess' PROVE csess'[m].cb \in Callbacks(csess'[m].st)
    <3>1. CASE m \in DOMAIN csess
      BY <1>4, <3>1 DEF ClientInv, CallbackOrder
    <3>2. CASE m = Len(csess) + 1
      BY <1>3, <1>4, <3>2 DEF Callbacks
    <3> QED
      BY <1>4, <3>1, <3>2
  <2> QED
    BY Zenon, <2>1 DEF CallbackOrder, Callbacks
<1>6. cring' \in Nat /\ cring' + Cardinality(Live(csess')) = ClientRing
  <2>1. Cardinality(Live(csess)) \in Nat
    BY <1>1, LiveFinite
  <2>2. Cardinality(Live(csess')) = Cardinality(Live(csess)) + 1
    BY <1>1, <1>2, <1>3, LiveAppend
  <2> QED
    BY <1>1, <1>2, <2>1, <2>2
<1> QED
  BY Zenon, <1>1, <1>2, <1>4, <1>5, <1>6 DEF ClientInv, LiveClient, Live

\* Nothing of the client changes.
LEMMA ClientKept == ASSUME ClientInv, UNCHANGED <<csess, cring, pending>> PROVE ClientInv'
BY Zenon DEF ClientInv, LiveClient, CallbackOrder, Callbacks

-------------------------------------------------------------------------------
(* The packets.                                                            *)

\* The client only gains sessions, and a session that has ended stays so.
Onward == /\ DOMAIN csess \subseteq DOMAIN csess'
          /\ \A n \in DOMAIN csess : Ended(n) => Ended(n)'

\* Packets on their way stay in order, so only new ones need a look.
LEMMA NetStep ==
    ASSUME NetInv, Onward, cqueue' \in Seq(Pkts), squeue' \in Seq(Pkts),
           \A p \in Items(cqueue') : p \in Items(cqueue) \/ (p \in udp /\ p.type \in Responses),
           \A p \in Items(squeue') : p \in Items(squeue) \/ (p \in udp /\ p.type \in Requests),
           \A p \in udp' : p \in udp \/ PacketInv(p)'
    PROVE  NetInv'
<1>1. \A p \in Flying : PacketInv(p)'
  BY DEF NetInv, PacketInv, Onward
<1>2. \A p \in Flying' : p \in Flying \/ PacketInv(p)'
  BY DEF Flying
<1>3. /\ \A p \in Items(cqueue') : p.type \in Responses
      /\ \A p \in Items(squeue') : p.type \in Requests
  BY DEF NetInv
<1>4. \A p \in Flying' : PacketInv(p)'
  BY <1>1, <1>2
<1> QED
  BY <1>3, <1>4 DEF NetInv, Items

\* What sm_construct_resp makes of a packet.
LEMMA RespPacket ==
    ASSUME NEW p \in Pkts, NEW err \in Errors
    PROVE  sm_construct_resp(p, err)
             = Pkt(IF p.type = "ConnectReq" THEN "ConnectResp" ELSE "DisconnectResp",
                   p.c, p.s, err)
<1>0. PICK ty : ty = IF p.type = "ConnectReq" THEN "ConnectResp" ELSE "DisconnectResp"
  OBVIOUS
<1>1. sm_construct_resp(p, err) = [p EXCEPT !.type = ty, !.err = err]
  BY <1>0, Zenon DEF sm_construct_resp
<1>2. PICK q : q = [p EXCEPT !.type = ty, !.err = err]
  OBVIOUS
<1>3. ty \in {"ConnectResp", "DisconnectResp"}
  BY <1>0
<1>4. q \in Pkts /\ q.type = ty /\ q.c = p.c /\ q.s = p.s /\ q.err = err
  BY Zenon, <1>2, <1>3 DEF Pkts, Responses
<1>5. q = [type |-> ty, c |-> p.c, s |-> p.s, err |-> err]
  BY <1>4 DEF Pkts
<1> QED
  BY Zenon, <1>0, <1>1, <1>2, <1>5 DEF Pkt

\* The fields of a response.
LEMMA RespFields ==
    ASSUME NEW type \in Responses, NEW c \in Nat, NEW s \in Nat, NEW err \in Errors
    PROVE  /\ Pkt(type, c, s, err) \in Pkts
           /\ Pkt(type, c, s, err).type = type /\ Pkt(type, c, s, err).c = c
           /\ Pkt(type, c, s, err).s = s /\ Pkt(type, c, s, err).err = err
           /\ \A k : [Pkt(type, c, s, err) EXCEPT !.s = k] = Pkt(type, c, k, err)
BY DEF Pkt, Pkts

\* What send_sm_req_st sends.
LEMMA ReqPacket ==
    ASSUME NEW n \in Nat, NEW st, NEW k \in Nat
    PROVE  /\ SmReq(n, st, k) \in Pkts /\ SmReq(n, st, k).c = n /\ SmReq(n, st, k).s = k
           /\ SmReq(n, st, k).type = (IF st = "connecting" THEN "ConnectReq" ELSE "DisconnectReq")
BY DEF SmReq, Pkt, Pkts, Requests, Errors

-------------------------------------------------------------------------------
(* The server.                                                             *)

\* Nothing of the server changes.
LEMMA ServerKept ==
    ASSUME ServerInv, UNCHANGED <<srv, starts, same, ssess, tokens, sring>>,
           DOMAIN csess \subseteq DOMAIN csess'
    PROVE  ServerInv'
BY DEF ServerInv, LiveServer

\* An accepted connect request: a new session under a new token.
LEMMA ServerAccept ==
    ASSUME ServerInv, NEW p \in Pkts, p.c \in DOMAIN csess, p.c \notin DOMAIN tokens,
           have_ring_entries(sring), accept(p), UNCHANGED <<srv, starts, same, csess>>
    PROVE  ServerInv'
<1>0. PICK r, k : r = [st |-> "connected", c |-> p.c] /\ k = Len(ssess) + 1
  BY Zenon
<1>1. /\ ssess \in Seq(SSession) /\ sring \in Nat /\ sring + Cardinality(Live(ssess)) = ServerRing
      /\ \A t \in DOMAIN tokens : tokens[t] \in DOMAIN ssess /\ ssess[tokens[t]].c = t
      /\ \A j \in DOMAIN ssess : ssess[j].c \in DOMAIN tokens /\ tokens[ssess[j].c] = j
  BY DEF ServerInv, LiveServer, Live
<1>2. r \in SSession /\ r.st # "buried" /\ r.c = p.c
  BY <1>0 DEF SSession, SStates, Pkts
<1>3. /\ ssess' = Append(ssess, r) /\ sring' = sring - 1 /\ sring > 0
      /\ tokens' = [t \in DOMAIN tokens \cup {p.c} |-> IF t = p.c THEN k ELSE tokens[t]]
  BY <1>0 DEF accept, have_ring_entries
<1>4. /\ ssess' \in Seq(SSession) /\ DOMAIN ssess' = (DOMAIN ssess) \cup {k}
      /\ ssess'[k] = r /\ \A j \in DOMAIN ssess : ssess'[j] = ssess[j]
  BY <1>0, <1>1, <1>2, <1>3
<1>5. /\ DOMAIN tokens' = (DOMAIN tokens) \cup {p.c} /\ tokens'[p.c] = k
      /\ \A t \in DOMAIN tokens : tokens'[t] = tokens[t]
  BY <1>3
<1>6. /\ \A t \in DOMAIN tokens' : tokens'[t] \in DOMAIN ssess' /\ ssess'[tokens'[t]].c = t
      /\ \A j \in DOMAIN ssess' : ssess'[j].c \in DOMAIN tokens' /\ tokens'[ssess'[j].c] = j
  BY <1>1, <1>2, <1>4, <1>5
<1>7. sring' \in Nat /\ sring' + Cardinality(Live(ssess')) = ServerRing
  <2>1. Cardinality(Live(ssess)) \in Nat
    BY <1>1, LiveFinite
  <2>2. Cardinality(Live(ssess')) = Cardinality(Live(ssess)) + 1
    BY <1>1, <1>2, <1>3, LiveAppend
  <2>3. sring \in Nat /\ sring + Cardinality(Live(ssess)) = ServerRing
    BY <1>1
  <2>4. sring' = sring - 1 /\ sring > 0
    BY <1>3
  <2> QED
    BY <2>1, <2>2, <2>3, <2>4
<1> QED
  BY <1>4, <1>5, <1>6, <1>7 DEF ServerInv, LiveServer, Live

\* A buried session returns its ring entries and keeps its token.
LEMMA ServerBury ==
    ASSUME ServerInv, NEW k \in DOMAIN ssess, ssess[k].st # "buried",
           ssess' = Buried(ssess, k), sring' = sring + 1,
           UNCHANGED <<srv, starts, same, tokens, csess>>
    PROVE  ServerInv'
<1>1. /\ ssess \in Seq(SSession) /\ sring \in Nat /\ sring + Cardinality(Live(ssess)) = ServerRing
      /\ \A t \in DOMAIN tokens : tokens[t] \in DOMAIN ssess /\ ssess[tokens[t]].c = t
      /\ \A j \in DOMAIN ssess : ssess[j].c \in DOMAIN tokens /\ tokens[ssess[j].c] = j
  BY DEF ServerInv, LiveServer, Live
<1>2. ssess[k] \in SSession
  BY <1>1
<1>3. PICK r : r = [ssess[k] EXCEPT !.st = "buried"]
  BY Zenon
<1>4. r \in SSession /\ r.st = "buried" /\ r.c = ssess[k].c
  BY <1>2, <1>3 DEF SSession, SStates
<1>5. ssess' = [ssess EXCEPT ![k] = r]
  BY <1>3 DEF Buried
<1>6. /\ ssess' \in Seq(SSession) /\ DOMAIN ssess' = DOMAIN ssess
      /\ \A j \in DOMAIN ssess : ssess'[j].c = ssess[j].c
  BY <1>1, <1>4, <1>5
<1>7. /\ \A j \in DOMAIN ssess' : ssess'[j].c \in DOMAIN tokens /\ tokens[ssess'[j].c] = j
      /\ \A t \in DOMAIN tokens : tokens[t] \in DOMAIN ssess' /\ ssess'[tokens[t]].c = t
  BY Zenon, <1>1, <1>6
<1>8. sring' \in Nat /\ sring' + Cardinality(Live(ssess')) = ServerRing
  <2>1. Cardinality(Live(ssess)) \in Nat
    BY <1>1, LiveFinite
  <2>2. Cardinality(Live(ssess')) = Cardinality(Live(ssess)) - 1
    <3>1. ssess'[k].st = "buried" /\ \A j \in DOMAIN ssess : j # k => ssess'[j].st = ssess[j].st
      BY <1>1, <1>4, <1>5
    <3> QED
      BY <1>1, <1>6, <3>1, LiveBury
  <2> QED
    BY <1>1, <2>1, <2>2
<1> QED
  BY <1>6, <1>7, <1>8 DEF ServerInv, LiveServer, Live

-------------------------------------------------------------------------------
(* The steps.                                                              *)

\* The initial states satisfy the invariant.
LEMMA InvInit == Init => IInv
<1> SUFFICES ASSUME Init PROVE IInv
  OBVIOUS
<1>1. ClientInv
  <2>1. LiveClient = {}
    BY DEF Init, LiveClient
  <2> QED
    BY <2>1, FS_EmptySet, RingAssumption DEF Init, ClientInv, CallbackOrder
<1>2. ServerInv
  <2>1. LiveServer = {}
    BY DEF Init, LiveServer
  <2> QED
    BY <2>1, FS_EmptySet, RingAssumption DEF Init, ServerInv
<1>3. NetInv
  BY DEF Init, NetInv, Items, Flying
<1> QED
  BY <1>1, <1>2, <1>3 DEF IInv

\* create_session_st
LEMMA InvCreate == ASSUME IInv, create_session_st PROVE IInv' /\ Onward
<1>1. ClientInv'
  BY ClientCreate DEF IInv
<1>2. csess \in Seq(CSession)
  BY DEF IInv, ClientInv
<1>3. PICK r : r = [st |-> "connecting", srv |-> 0, cb |-> <<>>]
  BY Zenon
<1>4. /\ csess' = Append(csess, r) /\ udp' = udp \cup {SmReq(Len(csess) + 1, "connecting", 0)}
      /\ UNCHANGED <<cqueue, svars>>
  BY <1>3 DEF create_session_st, send_sm_req_st
<1>5. r \in CSession
  BY <1>3 DEF CSession, CStates
<1>6. /\ DOMAIN csess' = (DOMAIN csess) \cup {Len(csess) + 1} /\ Len(csess) + 1 \in Nat
      /\ \A m \in DOMAIN csess : csess'[m] = csess[m]
  BY <1>2, <1>4, <1>5
<1>7. Onward
  BY <1>6 DEF Onward, Ended
<1>8. ServerInv'
  BY <1>4, <1>7, ServerKept DEF IInv, svars, Onward
<1>9. NetInv'
  <2>1. PICK q : q = SmReq(Len(csess) + 1, "connecting", 0)
    OBVIOUS
  <2>2. q \in Pkts /\ q.c = Len(csess) + 1 /\ q.type = "ConnectReq"
    BY <1>6, <2>1, ReqPacket
  <2>3. PacketInv(q)'
    BY <1>6, <2>2 DEF PacketInv
  <2>4. /\ NetInv /\ cqueue' = cqueue /\ squeue' = squeue
        /\ udp' = udp \cup {q} /\ cqueue \in Seq(Pkts) /\ squeue \in Seq(Pkts)
    BY <1>4, <2>1 DEF IInv, NetInv, svars
  <2> QED
    BY <1>7, <2>3, <2>4, NetStep
<1> QED
  BY <1>1, <1>7, <1>8, <1>9 DEF IInv

\* One session of the client changes, perhaps with a request sent for it.
LEMMA SessionStep ==
    ASSUME IInv, NEW n \in DOMAIN csess, NEW r \in CSession,
           csess' = [csess EXCEPT ![n] = r], csess[n].st # "buried",
           Ended(n) => r.st \in {"disconnecting", "buried"},
           r.cb \in Callbacks(r.st), pending' \subseteq DOMAIN csess,
           \/ r.st # "buried" /\ cring' = cring
           \/ r.st = "buried" /\ cring' = cring + 1,
           \/ udp' = udp
           \/ r.st = "disconnecting" /\ \E k \in Nat : udp' = udp \cup {SmReq(n, "disconnecting", k)},
           cqueue' \in Seq(Pkts), Items(cqueue') \subseteq Items(cqueue), UNCHANGED svars
    PROVE  IInv' /\ Onward
<1>1. ClientInv'
  BY Zenon, ClientModify DEF IInv
<1>2. csess \in Seq(CSession) /\ NetInv
  BY DEF IInv, ClientInv
<1>3. /\ DOMAIN csess' = DOMAIN csess /\ csess'[n] = r /\ n \in Nat
      /\ \A m \in DOMAIN csess : m # n => csess'[m] = csess[m]
  BY <1>2
<1>4. Onward
  BY <1>3 DEF Onward, Ended
<1>5. ServerInv'
  BY <1>3, ServerKept DEF IInv, svars
<1>6. squeue' = squeue /\ squeue \in Seq(Pkts)
  BY <1>2 DEF svars, NetInv
<1>7. CASE udp' = udp
  BY <1>1, <1>2, <1>4, <1>5, <1>6, <1>7, NetStep DEF IInv
<1>8. CASE udp' # udp
  <2>1. PICK k \in Nat : udp' = udp \cup {SmReq(n, "disconnecting", k)}
    BY <1>8
  <2>2. PICK q : q = SmReq(n, "disconnecting", k)
    OBVIOUS
  <2>3. q \in Pkts /\ q.c = n /\ q.type = "DisconnectReq"
    BY <1>3, <2>2, ReqPacket
  <2>4. PacketInv(q)'
    BY <1>3, <1>8, <2>3 DEF PacketInv, Ended
  <2>5. \A p \in udp' : p \in udp \/ p = q
    BY <2>1, <2>2
  <2>6. NetInv'
    BY <1>2, <1>4, <1>6, <2>4, <2>5, NetStep
  <2> QED
    BY <1>1, <1>4, <1>5, <2>6 DEF IInv
<1> QED
  BY <1>7, <1>8

\* A step that leaves the client's sessions alone: what is left to show.
LEMMA QuietStep ==
    ASSUME IInv, UNCHANGED <<csess, cring, pending>>, ServerInv',
           cqueue' \in Seq(Pkts), squeue' \in Seq(Pkts),
           \A p \in Items(cqueue') : p \in Items(cqueue) \/ (p \in udp /\ p.type \in Responses),
           \A p \in Items(squeue') : p \in Items(squeue) \/ (p \in udp /\ p.type \in Requests),
           \A p \in udp' : p \in udp \/ PacketInv(p)'
    PROVE  IInv' /\ Onward
<1>1. Onward
  BY DEF Onward, Ended
<1> QED
  BY <1>1, ClientKept, NetStep DEF IInv

\* destroy_session_st
LEMMA InvDestroy ==
    ASSUME IInv, NEW n \in DOMAIN csess, destroy_session_st(n) PROVE IInv' /\ Onward
<1>1. csess \in Seq(CSession) /\ csess[n] \in CSession /\ pending \subseteq DOMAIN csess
  BY DEF IInv, ClientInv
<1>2. PICK r : r = [csess[n] EXCEPT !.st = "disconnecting"]
  BY Zenon
<1>3. r \in CSession /\ r.st = "disconnecting" /\ r.cb = csess[n].cb
  BY <1>1, <1>2 DEF CSession, CStates
<1>4. /\ csess[n].st = "connected" /\ csess' = [csess EXCEPT ![n] = r]
      /\ pending' = pending \cup {n}
      /\ udp' = udp \cup {SmReq(n, "disconnecting", csess[n].srv)}
      /\ UNCHANGED <<cring, cqueue, svars>>
  BY <1>2 DEF destroy_session_st, send_sm_req_st
<1>5. r.cb \in Callbacks(r.st)
  <2>1. csess[n].cb \in Callbacks("connected")
    BY <1>4 DEF IInv, ClientInv, CallbackOrder
  <2> QED
    BY <1>3, <2>1 DEF Callbacks
<1>6. csess[n].srv \in Nat /\ cqueue' \in Seq(Pkts)
  BY <1>1, <1>4 DEF CSession, IInv, NetInv
<1>7. pending' \subseteq DOMAIN csess /\ Items(cqueue') \subseteq Items(cqueue) /\ ~ Ended(n)
  BY <1>1, <1>4 DEF Ended
<1> QED
  BY Zenon, <1>3, <1>4, <1>5, <1>6, <1>7, SessionStep

\* The SM threads.
LEMMA InvDatagram ==
    ASSUME IInv, NEW p \in udp, sm_thread_client(p) \/ sm_thread_server(p)
    PROVE  IInv' /\ Onward
<1>0. /\ NetInv /\ ServerInv /\ cqueue \in Seq(Pkts) /\ squeue \in Seq(Pkts)
      /\ PacketInv(p) /\ p \in Pkts
  BY DEF IInv, NetInv, Flying, PacketInv
<1>1. /\ UNCHANGED <<csess, cring, pending>> /\ UNCHANGED <<srv, starts, same, ssess, tokens, sring>>
  BY DEF sm_thread_client, sm_thread_server, cvars, svars
<1>2. ServerInv'
  BY <1>0, <1>1, ServerKept
<1>3. CASE sm_thread_client(p)
  <2>1. /\ p.type \in Responses /\ cqueue' = Append(cqueue, p) /\ squeue' = squeue
        /\ udp' \subseteq udp
    BY <1>3 DEF sm_thread_client, Received, svars
  <2>2. cqueue' \in Seq(Pkts) /\ Items(cqueue') = Items(cqueue) \cup {p}
    BY <1>0, <2>1, ItemsAppend
  <2> QED
    BY <1>0, <1>1, <1>2, <2>1, <2>2, QuietStep
<1>4. CASE sm_thread_server(p) /\ squeue' = squeue
  <2>1. p.type \in Requests /\ cqueue' = cqueue
    BY <1>4 DEF sm_thread_server, cvars
  <2>2. PICK q : q = sm_construct_resp(p, "kInvalidRemoteRpcId")
    OBVIOUS
  <2>3. \A x \in udp' : x \in udp \/ x = q
    BY <1>4, <2>2 DEF sm_thread_server, Received
  <2>4. PacketInv(q)'
    <3>1. q = Pkt(IF p.type = "ConnectReq" THEN "ConnectResp" ELSE "DisconnectResp",
                  p.c, p.s, "kInvalidRemoteRpcId")
      BY <1>0, <2>2, RespPacket DEF Errors
    <3>2. /\ q \in Pkts /\ q.c = p.c
          /\ q.type = (IF p.type = "ConnectReq" THEN "ConnectResp" ELSE "DisconnectResp")
      BY <1>0, <3>1 DEF Pkts, Pkt, Responses, Errors
    <3> QED
      BY <1>0, <1>1, <2>1, <3>2 DEF PacketInv, Ended, Requests
  <2> QED
    BY <1>0, <1>1, <1>2, <1>4, <2>1, <2>3, <2>4, QuietStep
<1>5. CASE sm_thread_server(p) /\ squeue' # squeue
  <2>1. /\ p.type \in Requests /\ squeue' = Append(squeue, p) /\ cqueue' = cqueue
        /\ udp' \subseteq udp
    BY <1>5 DEF sm_thread_server, Received, cvars
  <2>2. squeue' \in Seq(Pkts) /\ Items(squeue') = Items(squeue) \cup {p}
    BY <1>0, <2>1, ItemsAppend
  <2> QED
    BY <1>0, <1>1, <1>2, <2>1, <2>2, QuietStep
<1> QED
  BY <1>3, <1>4, <1>5

\* The life of the server Rpc.
LEMMA InvLife ==
    ASSUME IInv, start_server \/ stop_server \/ unregister_hook PROVE IInv' /\ Onward
<1>0. cqueue \in Seq(Pkts) /\ squeue \in Seq(Pkts)
  BY DEF IInv, NetInv
<1>1. UNCHANGED <<csess, cring, pending, cqueue, udp>>
  BY DEF start_server, stop_server, unregister_hook, cvars
<1>2. squeue' = squeue \/ squeue' = <<>>
  BY DEF start_server, stop_server, unregister_hook
<1>3. squeue' \in Seq(Pkts) /\ \A p \in Items(squeue') : p \in Items(squeue)
  <2>1. CASE squeue' = squeue
    BY <1>0, <2>1
  <2>2. CASE squeue' = <<>>
    <3>1. Items(<<>>) = {}
      BY DEF Items
    <3> QED
      BY <2>2, <3>1
  <2> QED
    BY <1>2, <2>1, <2>2
<1>4. ServerInv'
  <2>1. CASE start_server
    BY <1>1, <2>1, ChoiceAssumption DEF start_server, IInv, ServerInv, LiveServer
  <2>2. CASE stop_server
    <3>1. ssess' = <<>> /\ LiveServer' = {}
      BY <2>2 DEF stop_server, LiveServer
    <3>2. Cardinality(LiveServer') = 0
      BY <3>1, FS_EmptySet
    <3> QED
      BY <1>1, <2>2, <3>1, <3>2, RingAssumption DEF stop_server, IInv, ServerInv
  <2>3. CASE unregister_hook
    BY <1>1, <2>3 DEF unregister_hook, IInv, ServerInv, LiveServer
  <2> QED
    BY <2>1, <2>2, <2>3
<1> QED
  BY <1>0, <1>1, <1>3, <1>4, QuietStep

\* The server answers a request with p's session number or another.
LEMMA AnswerPacket ==
    ASSUME IInv, NEW p \in Items(squeue), NEW k \in Nat, NEW err \in Errors, csess' = csess
    PROVE  /\ p \in Pkts /\ p.c \in DOMAIN csess /\ p.s \in Nat
           /\ PacketInv(sm_construct_resp(p, err))'
           /\ PacketInv([sm_construct_resp(p, err) EXCEPT !.s = k])'
<1>1. PacketInv(p) /\ p \in Pkts /\ p.type \in Requests
  BY DEF IInv, NetInv, Flying, PacketInv
<1>2. PICK ty : ty = IF p.type = "ConnectReq" THEN "ConnectResp" ELSE "DisconnectResp"
  OBVIOUS
<1>3. p.c \in Nat /\ p.s \in Nat /\ ty \in Responses
  BY <1>1, <1>2 DEF Pkts, Responses
<1>4. sm_construct_resp(p, err) = Pkt(ty, p.c, p.s, err)
  BY <1>1, <1>2, RespPacket
<1>5. [sm_construct_resp(p, err) EXCEPT !.s = k] = Pkt(ty, p.c, k, err)
  BY <1>3, <1>4, RespFields
<1>6. ASSUME NEW j \in Nat PROVE PacketInv(Pkt(ty, p.c, j, err))'
  <2>1. /\ Pkt(ty, p.c, j, err) \in Pkts /\ Pkt(ty, p.c, j, err).type = ty
        /\ Pkt(ty, p.c, j, err).c = p.c
    BY <1>3, RespFields
  <2>2. ty = "DisconnectResp" => p.type = "DisconnectReq"
    BY <1>1, <1>2 DEF Requests
  <2>3. ty \notin {"DisconnectReq"}
    BY <1>2
  <2> QED
    BY <1>1, <2>1, <2>2, <2>3 DEF PacketInv, Ended
<1> QED
  BY <1>1, <1>3, <1>4, <1>5, <1>6 DEF PacketInv

\* handle_sm_rx_st at the server
LEMMA InvServer == ASSUME IInv, handle_sm_rx_server PROVE IInv' /\ Onward
<1>0. PICK p : p = Head(squeue)
  OBVIOUS
<1>1. /\ squeue \in Seq(Pkts) /\ cqueue \in Seq(Pkts) /\ squeue # <<>> /\ squeue' = Tail(squeue)
      /\ ServerInv
      /\ UNCHANGED <<starts, same, csess, cring, pending, cqueue>>
  BY DEF IInv, NetInv, handle_sm_rx_server, cvars
<1>2. squeue' \in Seq(Pkts) /\ p \in Items(squeue) /\ Items(squeue') \subseteq Items(squeue)
  BY <1>0, <1>1, ItemsTail
<1>3. p \in Pkts /\ p.c \in DOMAIN csess /\ p.s \in Nat
  BY Zenon, <1>1, <1>2, AnswerPacket DEF Errors
<1>4. ASSUME NEW err \in Errors, send_resp(p, err)
      PROVE  \A x \in udp' : x \in udp \/ PacketInv(x)'
  BY Zenon, <1>1, <1>2, <1>4, AnswerPacket DEF send_resp
<1>5. ASSUME NEW k \in Nat, udp' = udp \cup {[sm_construct_resp(p, "kNoError") EXCEPT !.s = k]}
      PROVE  \A x \in udp' : x \in udp \/ PacketInv(x)'
  BY Zenon, <1>1, <1>2, <1>5, AnswerPacket DEF Errors
<1>6. CASE handle_connect_req_st(p)
  <2>0. srv' = srv
    BY <1>6 DEF handle_connect_req_st
  <2>1. CASE connect_req_duplicate(p)
    <3>1. ServerInv'
      BY SMTT(30), <1>1, <2>0, <2>1, ServerKept DEF connect_req_duplicate
    <3>2. tokens[p.c] \in DOMAIN ssess /\ tokens[p.c] \in Nat
      BY <1>1, <2>1 DEF connect_req_duplicate, ServerInv
    <3>3. \A x \in udp' : x \in udp \/ PacketInv(x)'
      <4>1. CASE udp' = udp
        BY <4>1
      <4>2. CASE udp' # udp
        BY <1>5, <2>1, <3>2, <4>2 DEF connect_req_duplicate
      <4> QED
        BY <4>1, <4>2
    <3> QED
      BY <1>1, <1>2, <3>1, <3>3, QuietStep
  <2>2. CASE connect_req_refused(p)
    <3>1. ServerInv'
      BY <1>1, <2>0, <2>2, ServerKept DEF connect_req_refused
    <3>2. PICK err \in Errors : send_resp(p, err)
      BY Zenon, <2>2 DEF connect_req_refused, Errors
    <3>3. \A x \in udp' : x \in udp \/ PacketInv(x)'
      BY <1>4, <3>2
    <3> QED
      BY <1>1, <1>2, <3>1, <3>3, QuietStep
  <2>3. CASE connect_req_accepted(p)
    <3>1. accept(p) /\ p.c \notin DOMAIN tokens /\ have_ring_entries(sring)
      BY <2>3 DEF connect_req_accepted
    <3>2. ServerInv'
      BY <1>1, <1>3, <2>0, <3>1, ServerAccept
    <3>3. Len(ssess) + 1 \in Nat
      BY <1>1 DEF ServerInv
    <3>4. \A x \in udp' : x \in udp \/ PacketInv(x)'
      BY <1>5, <3>1, <3>3 DEF accept
    <3> QED
      BY <1>1, <1>2, <3>2, <3>4, QuietStep
  <2> QED
    BY <1>6, <2>1, <2>2, <2>3 DEF handle_connect_req_st
<1>7. CASE handle_disconnect_req_st(p)
  <2>0. tokens' = tokens
    BY <1>7 DEF handle_disconnect_req_st
  <2>1. CASE srv' = "crashed" /\ UNCHANGED <<ssess, sring, udp>>
    <3>1. ServerInv'
      BY <1>1, <2>0, <2>1 DEF ServerInv, LiveServer
    <3> QED
      BY <1>1, <1>2, <2>1, <3>1, QuietStep
  <2>2. CASE ~ (srv' = "crashed" /\ UNCHANGED <<ssess, sring, udp>>)
    <3>1. /\ p.s \in DOMAIN ssess /\ send_resp(p, "kNoError") /\ srv' = srv
          /\ IF ssess[p.s].st = "buried" THEN UNCHANGED <<ssess, sring>>
             ELSE ssess' = Buried(ssess, p.s) /\ sring' = sring + 1
      BY <1>7, <2>2 DEF handle_disconnect_req_st
    <3>2. ServerInv'
      <4>1. CASE ssess[p.s].st = "buried"
        BY <1>1, <2>0, <3>1, <4>1, ServerKept
      <4>2. CASE ssess[p.s].st # "buried"
        BY <1>1, <2>0, <3>1, <4>2, ServerBury
      <4> QED
        BY <4>1, <4>2
    <3>3. \A x \in udp' : x \in udp \/ PacketInv(x)'
      BY <1>4, <3>1 DEF Errors
    <3> QED
      BY <1>1, <1>2, <3>2, <3>3, QuietStep
  <2> QED
    BY <2>1, <2>2
<1> QED
  BY <1>0, <1>6, <1>7 DEF handle_sm_rx_server

\* What Finished does to the session.
LEMMA FinishedStep ==
    ASSUME csess \in Seq(CSession), NEW n \in DOMAIN csess, NEW event \in Events,
           Finished(n, event)
    PROVE  \E r \in CSession : /\ csess' = [csess EXCEPT ![n] = r] /\ cring' = cring + 1
                               /\ r.st = "buried" /\ r.cb = Append(csess[n].cb, event)
<1>0. csess[n] \in CSession
  OBVIOUS
<1>1. csess[n] \in CSession /\ csess[n].cb \in Seq(Events)
  BY <1>0 DEF CSession
<1>2. PICK r1 : r1 = [csess[n] EXCEPT !.st = "buried"]
  BY Zenon
<1>3. r1 \in CSession /\ r1.st = "buried" /\ r1.cb = csess[n].cb
  BY <1>1, <1>2 DEF CSession, CStates
<1>4. PICK r : r = [r1 EXCEPT !.cb = Append(r1.cb, event)]
  BY Zenon
<1>5. r \in CSession /\ r.st = "buried" /\ r.cb = Append(csess[n].cb, event)
  <2>1. Append(csess[n].cb, event) \in Seq(Events)
    BY <1>1
  <2> QED
    BY Zenon, <1>3, <1>4, <2>1 DEF CSession
<1>6. Buried(csess, n) = [csess EXCEPT ![n] = r1]
  BY <1>2 DEF Buried
<1>7. csess' = [[csess EXCEPT ![n] = r1] EXCEPT ![n] = r] /\ cring' = cring + 1
  BY <1>4, <1>6 DEF Finished
<1>8. csess' = [csess EXCEPT ![n] = r]
  BY Zenon, <1>7
<1> QED
  BY Zenon, <1>5, <1>7, <1>8

\* A connect response with a session number: the client records it.
LEMMA RecordStep ==
    ASSUME csess \in Seq(CSession), NEW n \in DOMAIN csess, NEW k \in Nat,
           csess' = [csess EXCEPT ![n].srv = k, ![n].st = "disconnecting"]
    PROVE  \E r \in CSession : /\ csess' = [csess EXCEPT ![n] = r]
                               /\ r.st = "disconnecting" /\ r.srv = k /\ r.cb = csess[n].cb
<1>1. csess[n] \in CSession
  OBVIOUS
<1>2. PICK r1 : r1 = [csess[n] EXCEPT !.srv = k]
  BY Zenon
<1>3. r1 \in CSession /\ r1.srv = k /\ r1.cb = csess[n].cb
  BY Zenon, <1>1, <1>2 DEF CSession
<1>4. PICK r : r = [r1 EXCEPT !.st = "disconnecting"]
  BY Zenon
<1>5. r \in CSession /\ r.st = "disconnecting" /\ r.srv = k /\ r.cb = csess[n].cb
  BY Zenon, <1>3, <1>4 DEF CSession, CStates
<1>6. csess' = [csess EXCEPT ![n] = r]
  BY Zenon, <1>2, <1>4
<1> QED
  BY Zenon, <1>5, <1>6

\* ... and calls the application's handler.
LEMMA ConnectStep ==
    ASSUME csess \in Seq(CSession), NEW n \in DOMAIN csess, NEW k \in Nat,
           csess' = [csess EXCEPT ![n].srv = k, ![n].st = "connected",
                                  ![n].cb = Append(@, "kConnected")]
    PROVE  \E r \in CSession : /\ csess' = [csess EXCEPT ![n] = r] /\ r.st = "connected"
                               /\ r.srv = k /\ r.cb = Append(csess[n].cb, "kConnected")
<1>1. csess[n] \in CSession
  OBVIOUS
<1>2. PICK r1 : r1 = [csess[n] EXCEPT !.srv = k]
  BY Zenon
<1>3. r1 \in CSession /\ r1.srv = k /\ r1.cb = csess[n].cb
  BY Zenon, <1>1, <1>2 DEF CSession
<1>4. PICK r2 : r2 = [r1 EXCEPT !.st = "connected"]
  BY Zenon
<1>5. r2 \in CSession /\ r2.st = "connected" /\ r2.srv = k /\ r2.cb = csess[n].cb
  BY Zenon, <1>3, <1>4 DEF CSession, CStates
<1>6. PICK r : r = [r2 EXCEPT !.cb = Append(r2.cb, "kConnected")]
  BY Zenon
<1>7. Append(r2.cb, "kConnected") \in Seq(Events)
  BY <1>5 DEF CSession, Events
<1>8. /\ r \in CSession /\ r.st = "connected" /\ r.srv = k
      /\ r.cb = Append(csess[n].cb, "kConnected")
  BY Zenon, <1>5, <1>6, <1>7 DEF CSession
<1>9. csess' = [csess EXCEPT ![n] = r]
  BY Zenon, <1>2, <1>4, <1>6
<1> QED
  BY Zenon, <1>8, <1>9

\* handle_sm_rx_st at the client
LEMMA InvClient == ASSUME IInv, handle_sm_rx_client PROVE IInv' /\ Onward
<1>0. PICK p, pend, n : p = Head(cqueue) /\ pend = pending \ {p.c} /\ n = p.c
  BY Zenon
<1>1. /\ cqueue \in Seq(Pkts) /\ squeue \in Seq(Pkts) /\ cqueue # <<>> /\ cqueue' = Tail(cqueue)
      /\ csess \in Seq(CSession) /\ pending \subseteq DOMAIN csess /\ UNCHANGED svars
  BY DEF IInv, NetInv, ClientInv, handle_sm_rx_client
<1>2. cqueue' \in Seq(Pkts) /\ p \in Items(cqueue) /\ Items(cqueue') \subseteq Items(cqueue)
  BY <1>0, <1>1, ItemsTail
<1>3. PacketInv(p)
  BY <1>2 DEF IInv, NetInv, Flying
<1>4. n \in DOMAIN csess /\ p.s \in Nat /\ csess[n] \in CSession /\ pend \subseteq DOMAIN csess
  BY <1>0, <1>1, <1>3 DEF PacketInv, Pkts
<1>5. csess[n].cb \in Callbacks(csess[n].st)
  BY <1>4 DEF IInv, ClientInv, CallbackOrder
<1>6. handle_connect_resp_st(p, pend) \/ handle_disconnect_resp_st(p, pend)
  BY <1>0, Zenon DEF handle_sm_rx_client
<1>7. ASSUME UNCHANGED <<csess, cring, udp>>, pending' \subseteq DOMAIN csess PROVE IInv' /\ Onward
  <2>1. ClientInv'
    BY Zenon, <1>7 DEF IInv, ClientInv, LiveClient, CallbackOrder, Callbacks
  <2>2. Onward
    BY <1>7 DEF Onward, Ended
  <2>3. ServerInv'
    BY <1>1, <1>7, ServerKept DEF IInv, svars
  <2>4. squeue' = squeue
    BY <1>1 DEF svars
  <2>5. NetInv'
    BY <1>1, <1>2, <1>7, <2>2, <2>4, NetStep DEF IInv
  <2> QED
    BY <2>1, <2>2, <2>3, <2>5 DEF IInv
<1>8. CASE connect_resp_duplicate(p, pend)
  BY <1>4, <1>7, <1>8 DEF connect_resp_duplicate
<1>9. CASE connect_resp_error(p, pend)
  <2>1. csess[n].st = "connecting" /\ udp' = udp
    BY <1>0, <1>9 DEF connect_resp_error
  <2>2. CASE Retried(p)
    <3>1. UNCHANGED <<csess, cring>> /\ pending' = pend \cup {n}
      BY <1>0, <1>9, <2>2 DEF connect_resp_error
    <3> QED
      BY <1>4, <1>7, <2>1, <3>1
  <2>3. CASE ~ Retried(p)
    <3>1. pending' = pend /\ Finished(n, "kConnectFailed")
      BY <1>0, <1>9, <2>3 DEF connect_resp_error
    <3>2. PICK r \in CSession : /\ csess' = [csess EXCEPT ![n] = r] /\ cring' = cring + 1
                                /\ r.st = "buried" /\ r.cb = Append(csess[n].cb, "kConnectFailed")
      BY <1>1, <1>4, <3>1, FinishedStep DEF Events
    <3>3. r.cb \in Callbacks(r.st)
      <4>1. csess[n].cb = <<>>
        BY <1>5, <2>1 DEF Callbacks
      <4> QED
        BY <3>2, <4>1 DEF Callbacks
    <3> QED
      BY Zenon, <1>1, <1>2, <1>4, <2>1, <3>1, <3>2, <3>3, SessionStep
  <2> QED
    BY <2>2, <2>3
<1>10. CASE connect_resp_unresolved(p, pend)
  <2>1. /\ csess[n].st = "connecting" /\ cring' = cring
        /\ csess' = [csess EXCEPT ![n].srv = p.s, ![n].st = "disconnecting"]
        /\ pending' = pend \cup {n} /\ udp' = udp \cup {SmReq(n, "disconnecting", p.s)}
    BY <1>0, <1>10 DEF connect_resp_unresolved, send_sm_req_st
  <2>2. PICK r \in CSession : /\ csess' = [csess EXCEPT ![n] = r]
                              /\ r.st = "disconnecting" /\ r.srv = p.s /\ r.cb = csess[n].cb
    BY Zenon, <1>1, <1>4, <2>1, RecordStep
  <2>3. r.cb \in Callbacks(r.st)
    BY <1>5, <2>1, <2>2 DEF Callbacks
  <2>4. pending' \subseteq DOMAIN csess /\ csess[n].st # "buried"
    BY <1>4, <2>1
  <2> QED
    BY Zenon, <1>1, <1>2, <1>4, <2>1, <2>2, <2>3, <2>4, SessionStep
<1>11. CASE connect_resp_ok(p, pend)
  <2>1. /\ csess[n].st = "connecting" /\ cring' = cring /\ pending' = pend /\ udp' = udp
        /\ csess' = [csess EXCEPT ![n].srv = p.s, ![n].st = "connected",
                                  ![n].cb = Append(@, "kConnected")]
    BY <1>0, <1>11 DEF connect_resp_ok
  <2>2. PICK r \in CSession : /\ csess' = [csess EXCEPT ![n] = r] /\ r.st = "connected"
                              /\ r.srv = p.s /\ r.cb = Append(csess[n].cb, "kConnected")
    BY Zenon, <1>1, <1>4, <2>1, ConnectStep
  <2>3. r.cb \in Callbacks(r.st) /\ csess[n].st # "buried" /\ ~ Ended(n)
    <3>1. csess[n].cb = <<>>
      BY <1>5, <2>1 DEF Callbacks
    <3> QED
      BY <2>1, <2>2, <3>1 DEF Callbacks, Ended
  <2> QED
    BY Zenon, <1>1, <1>2, <1>4, <2>1, <2>2, <2>3, SessionStep
<1>12. CASE handle_disconnect_resp_st(p, pend)
  <2>1. pending' = pend /\ udp' = udp /\ p.type = "DisconnectResp"
    BY <1>12 DEF handle_disconnect_resp_st
  <2>2. CASE csess[n].st = "buried"
    BY <1>0, <1>4, <1>7, <1>12, <2>1, <2>2 DEF handle_disconnect_resp_st
  <2>3. CASE csess[n].st # "buried"
    <3>1. Finished(n, "kDisconnected")
      BY <1>0, <1>12, <2>3 DEF handle_disconnect_resp_st
    <3>2. csess[n].st = "disconnecting"
      BY <1>0, <1>3, <2>1, <2>3 DEF PacketInv, Ended
    <3>3. PICK r \in CSession : /\ csess' = [csess EXCEPT ![n] = r] /\ cring' = cring + 1
                                /\ r.st = "buried" /\ r.cb = Append(csess[n].cb, "kDisconnected")
      BY <1>1, <1>4, <3>1, FinishedStep DEF Events
    <3>4. r.cb \in Callbacks(r.st)
      <4>1. csess[n].cb = <<>> \/ csess[n].cb = <<"kConnected">>
        BY <1>5, <3>2 DEF Callbacks
      <4>2. Append(<<>>, "kDisconnected") = <<"kDisconnected">>
        OBVIOUS
      <4>3. Append(<<"kConnected">>, "kDisconnected") = <<"kConnected", "kDisconnected">>
        <5>1. PICK q : q = Append(<<"kConnected">>, "kDisconnected")
          BY Zenon
        <5>2. <<"kConnected">> \in Seq(Events) /\ "kDisconnected" \in Events
          BY DEF Events
        <5>3. q \in Seq(Events) /\ Len(q) = 2 /\ q[1] = "kConnected" /\ q[2] = "kDisconnected"
          BY <5>1, <5>2
        <5>4. q = <<"kConnected", "kDisconnected">>
          BY <5>3
        <5> QED
          BY Zenon, <5>1, <5>4
      <4> QED
        BY Zenon, <3>3, <4>1, <4>2, <4>3 DEF Callbacks
    <3> QED
      BY Zenon, <1>1, <1>2, <1>4, <2>1, <2>3, <3>3, <3>4, SessionStep
  <2> QED
    BY <2>2, <2>3
<1> QED
  BY <1>6, <1>8, <1>9, <1>10, <1>11, <1>12 DEF handle_connect_resp_st

\* Every step preserves the invariant, whatever the network and the server do.
LEMMA InvNext == IInv /\ [Next]_vars => IInv' /\ Onward
<1> SUFFICES ASSUME IInv, [Next]_vars PROVE IInv' /\ Onward
  OBVIOUS
<1>1. CASE UNCHANGED vars
  <2>1. UNCHANGED <<csess, cring, pending, cqueue, srv, starts, same, ssess, tokens, sring,
                    squeue, udp>>
    BY <1>1 DEF vars, cvars, svars
  <2>2. ServerInv' /\ cqueue \in Seq(Pkts) /\ squeue \in Seq(Pkts)
    BY <2>1, ServerKept DEF IInv, NetInv
  <2> QED
    BY <2>1, <2>2, QuietStep
<1>2. CASE \E p \in udp : sm_thread_client(p) \/ sm_thread_server(p)
  BY <1>2, InvDatagram
<1>3. CASE \E n \in DOMAIN csess : destroy_session_st(n)
  BY <1>3, InvDestroy
<1> QED
  BY <1>1, <1>2, <1>3, InvCreate, InvServer, InvClient, InvLife DEF Next

(* Every reachable state satisfies the invariant.                          *)
THEOREM Invariance == Spec => []IInv
<1>1. IInv /\ [Next]_vars => IInv'
  BY InvNext
<1> QED
  BY <1>1, InvInit, PTL DEF Spec

(* The numbers and states of sessions, the packets and the token map stay  *)
(* in their ranges; in particular no ring counter goes below zero.         *)
THEOREM TypeCorrect == Spec => []TypeOK
<1>1. IInv => TypeOK
  <2> SUFFICES ASSUME IInv PROVE TypeOK
    OBVIOUS
  <2>1. udp \subseteq Pkts /\ \A p \in udp : p.c \in DOMAIN csess
    BY DEF IInv, NetInv, Flying, PacketInv
  <2> QED
    BY <2>1 DEF IInv, ClientInv, ServerInv, NetInv, TypeOK
<1> QED
  BY <1>1, Invariance, PTL

(* No path of create_session_st and of the four handlers leaks ring        *)
(* entries or frees them twice, even if the server Rpc is restarted.       *)
THEOREM RingAccounted == Spec => []RingAccounting
<1>1. IInv => RingAccounting
  BY DEF IInv, ClientInv, ServerInv, RingAccounting
<1> QED
  BY <1>1, Invariance, PTL

(* conn_req_token_map_ recognises every duplicate of a connect request.    *)
THEOREM TokensUnique == Spec => []OneSessionPerToken
<1>1. IInv => OneSessionPerToken
  BY DEF IInv, ServerInv, OneSessionPerToken
<1> QED
  BY <1>1, Invariance, PTL

(* The application's sm_handler_ is called in order, and for every session *)
(* that ends.                                                              *)
THEOREM CallbacksOrdered == Spec => []CallbackOrder
<1>1. IInv => CallbackOrder
  BY DEF IInv, ClientInv
<1> QED
  BY <1>1, Invariance, PTL
-------------------------------------------------------------------------------
(* While one server Rpc lives.                                             *)

\* The server only gains sessions, and they keep their tokens.
Steady == \A k \in DOMAIN ssess : k \in DOMAIN ssess' /\ ssess'[k].c = ssess[k].c

\* What a step has to show of new packets, changed client and server sessions.
LEMMA StableStep ==
    ASSUME IInv, StableInv, Onward, Steady,
           \A p \in Flying' : p \in Flying \/ (Names(p) => ServedBy(p.c, p.s)'),
           \A n \in DOMAIN csess' : csess'[n].st \in {"connected", "disconnecting"} =>
              \/ /\ n \in DOMAIN csess /\ csess[n].st \in {"connected", "disconnecting"}
                 /\ csess'[n].srv = csess[n].srv
              \/ (ServedBy(n, csess[n].srv))',
           \A k \in DOMAIN ssess' : ssess'[k].st = "buried" =>
              \/ k \in DOMAIN ssess /\ ssess[k].st = "buried"
              \/ (Ended(ssess[k].c))'
    PROVE  StableInv'
<1>1. \A n, k : ServedBy(n, k) => ServedBy(n, k)'
  BY DEF ServedBy, Steady
<1>2. \A p \in Flying' : Names(p) => ServedBy(p.c, p.s)'
  BY <1>1 DEF StableInv
<1>3. \A n \in DOMAIN csess' : csess'[n].st \in {"connected", "disconnecting"}
         => (ServedBy(n, csess[n].srv))'
  <2> SUFFICES ASSUME NEW n \in DOMAIN csess', csess'[n].st \in {"connected", "disconnecting"}
               PROVE  (ServedBy(n, csess[n].srv))'
    OBVIOUS
  <2>1. CASE /\ n \in DOMAIN csess /\ csess[n].st \in {"connected", "disconnecting"}
             /\ csess'[n].srv = csess[n].srv
    <3>1. ServedBy(n, csess[n].srv)
      BY <2>1 DEF StableInv
    <3> QED
      BY <2>1, <3>1 DEF ServedBy, Steady
  <2> QED
    BY <2>1
<1>4. ASSUME NEW k \in DOMAIN ssess', ssess'[k].st = "buried" PROVE (Ended(ssess[k].c))'
  <2>1. CASE k \in DOMAIN ssess /\ ssess[k].st = "buried"
    <3>1. ssess'[k].c = ssess[k].c /\ ssess[k].c \in DOMAIN csess
      BY <2>1 DEF Steady, IInv, ServerInv
    <3>2. Ended(ssess[k].c)
      BY <2>1 DEF StableInv
    <3> QED
      BY <3>1, <3>2 DEF Onward, Ended
  <2> QED
    BY <1>4, <2>1
<1> QED
  BY <1>2, <1>3, <1>4 DEF StableInv, Names

\* The same for a step of the client or the network, which leaves the server alone.
LEMMA StableAway ==
    ASSUME IInv, StableInv, Onward, ssess' = ssess,
           \A p \in Flying' : p \in Flying \/ (Names(p) => ServedBy(p.c, p.s)),
           \A n \in DOMAIN csess' : csess'[n].st \in {"connected", "disconnecting"} =>
              \/ /\ n \in DOMAIN csess /\ csess[n].st \in {"connected", "disconnecting"}
                 /\ csess'[n].srv = csess[n].srv
              \/ ServedBy(n, csess'[n].srv)
    PROVE  StableInv'
<1>1. Steady
  BY DEF Steady
<1>2. \A n, k : ServedBy(n, k)' <=> ServedBy(n, k)
  BY DEF ServedBy
<1>3. \A k \in DOMAIN ssess' : ssess'[k].st = "buried" => k \in DOMAIN ssess /\ ssess[k].st = "buried"
  OBVIOUS
<1>4. \A p \in Flying' : p \in Flying \/ (Names(p) => ServedBy(p.c, p.s)')
  BY <1>2
<1>5. \A n \in DOMAIN csess' : csess'[n].st \in {"connected", "disconnecting"} =>
              \/ /\ n \in DOMAIN csess /\ csess[n].st \in {"connected", "disconnecting"}
                 /\ csess'[n].srv = csess[n].srv
              \/ (ServedBy(n, csess[n].srv))'
  BY DEF ServedBy
<1> QED
  BY <1>1, <1>3, <1>4, <1>5, StableStep

\* create_session_st
LEMMA StableCreate == ASSUME IInv, StableInv, Onward, create_session_st PROVE StableInv'
<1>1. csess \in Seq(CSession)
  BY DEF IInv, ClientInv
<1>2. PICK r : r = [st |-> "connecting", srv |-> 0, cb |-> <<>>]
  BY Zenon
<1>3. /\ csess' = Append(csess, r) /\ udp' = udp \cup {SmReq(Len(csess) + 1, "connecting", 0)}
      /\ cqueue' = cqueue /\ squeue' = squeue /\ ssess' = ssess
  BY <1>2 DEF create_session_st, send_sm_req_st, svars
<1>4. r \in CSession
  BY <1>2 DEF CSession, CStates
<1>5. /\ DOMAIN csess' = (DOMAIN csess) \cup {Len(csess) + 1} /\ Len(csess) + 1 \in Nat
      /\ \A m \in DOMAIN csess : csess'[m] = csess[m]
      /\ csess'[Len(csess) + 1] = r
  BY <1>1, <1>3, <1>4
<1>6. \A n \in DOMAIN csess' : csess'[n].st \in {"connected", "disconnecting"} =>
         /\ n \in DOMAIN csess /\ csess[n].st \in {"connected", "disconnecting"}
         /\ csess'[n].srv = csess[n].srv
  BY <1>2, <1>5
<1>7. ~ Names(SmReq(Len(csess) + 1, "connecting", 0))
  BY DEF Names, SmReq, Pkt
<1>8. \A p \in Flying' : p \in Flying \/ ~ Names(p)
  BY <1>3, <1>7 DEF Flying
<1> QED
  BY <1>3, <1>6, <1>8, StableAway

\* One session of the client changes, perhaps with a request sent for it.
LEMMA StableSession ==
    ASSUME IInv, StableInv, Onward, NEW n \in DOMAIN csess, NEW r \in CSession,
           csess' = [csess EXCEPT ![n] = r], UNCHANGED svars,
           r.st = "buried" \/ ServedBy(n, r.srv),
           \/ udp' = udp
           \/ udp' = udp \cup {SmReq(n, "disconnecting", r.srv)} /\ r.st = "disconnecting",
           Items(cqueue') \subseteq Items(cqueue)
    PROVE  StableInv'
<1>1. csess \in Seq(CSession) /\ r.srv \in Nat /\ ssess' = ssess /\ squeue' = squeue
  BY DEF IInv, ClientInv, CSession, svars
<1>2. \A m \in DOMAIN csess' : csess'[m].st \in {"connected", "disconnecting"} =>
         \/ /\ m \in DOMAIN csess /\ csess[m].st \in {"connected", "disconnecting"}
            /\ csess'[m].srv = csess[m].srv
         \/ ServedBy(m, csess'[m].srv)
  BY <1>1
<1>3. PICK q : q = SmReq(n, "disconnecting", r.srv)
  OBVIOUS
<1>4. q.c = n /\ q.s = r.srv
  BY <1>3 DEF SmReq, Pkt
<1>5. \A p \in Flying' : p \in Flying \/ (Names(p) => ServedBy(p.c, p.s))
  <2>1. CASE udp' = udp
    BY <1>1, <2>1 DEF Flying
  <2>2. CASE udp' = udp \cup {q} /\ r.st = "disconnecting"
    <3>1. ServedBy(q.c, q.s)
      BY <1>4, <2>2
    <3>2. \A p \in Flying' : p \in Flying \/ p = q
      BY <1>1, <2>2 DEF Flying
    <3> QED
      BY <3>1, <3>2
  <2> QED
    BY <1>3, <2>1, <2>2
<1> QED
  BY <1>1, <1>2, <1>5, StableAway

\* destroy_session_st
LEMMA StableDestroy ==
    ASSUME IInv, StableInv, Onward, NEW n \in DOMAIN csess, destroy_session_st(n) PROVE StableInv'
<1>1. csess \in Seq(CSession) /\ csess[n] \in CSession
  BY DEF IInv, ClientInv
<1>2. PICK r : r = [csess[n] EXCEPT !.st = "disconnecting"]
  BY Zenon
<1>3. r \in CSession /\ r.st = "disconnecting" /\ r.srv = csess[n].srv
  BY <1>1, <1>2 DEF CSession, CStates
<1>4. /\ csess[n].st = "connected" /\ csess' = [csess EXCEPT ![n] = r]
      /\ udp' = udp \cup {SmReq(n, "disconnecting", csess[n].srv)}
      /\ cqueue' = cqueue /\ UNCHANGED svars
  BY <1>2 DEF destroy_session_st, send_sm_req_st
<1>5. ServedBy(n, r.srv)
  BY <1>3, <1>4 DEF StableInv
<1>6. udp' = udp \cup {SmReq(n, "disconnecting", r.srv)} /\ Items(cqueue') \subseteq Items(cqueue)
  BY <1>3, <1>4
<1> QED
  BY Zenon, <1>3, <1>4, <1>5, <1>6, StableSession

\* The SM threads.
LEMMA StableDatagram ==
    ASSUME IInv, StableInv, Onward, NEW p \in udp,
           sm_thread_client(p) \/ sm_thread_server(p)
    PROVE  StableInv'
<1>0. cqueue \in Seq(Pkts) /\ squeue \in Seq(Pkts) /\ p \in Pkts
  BY DEF IInv, NetInv, Flying, PacketInv
<1>1. csess' = csess /\ ssess' = ssess
  BY DEF sm_thread_client, sm_thread_server, cvars, svars
<1>2. PICK q : q = sm_construct_resp(p, "kInvalidRemoteRpcId")
  OBVIOUS
<1>3. \A x \in Flying' : x \in Flying \/ x = q
  <2>1. Items(cqueue') \subseteq Items(cqueue) \cup {p}
    <3>1. cqueue' = cqueue \/ cqueue' = Append(cqueue, p)
      BY DEF sm_thread_client, sm_thread_server, cvars
    <3>2. Items(Append(cqueue, p)) = Items(cqueue) \cup {p}
      BY <1>0, ItemsAppend
    <3>3. CASE cqueue' = cqueue
      BY <3>3
    <3>4. CASE cqueue' = Append(cqueue, p)
      BY <3>2, <3>4
    <3> QED
      BY <3>1, <3>3, <3>4
  <2>2. Items(squeue') \subseteq Items(squeue) \cup {p}
    <3>1. squeue' = squeue \/ squeue' = Append(squeue, p)
      BY DEF sm_thread_client, sm_thread_server, svars
    <3>2. Items(Append(squeue, p)) = Items(squeue) \cup {p}
      BY <1>0, ItemsAppend
    <3>3. CASE squeue' = squeue
      BY <3>3
    <3>4. CASE squeue' = Append(squeue, p)
      BY <3>2, <3>4
    <3> QED
      BY <3>1, <3>3, <3>4
  <2>3. udp' \subseteq udp \cup {q}
    BY <1>2 DEF sm_thread_client, sm_thread_server, Received
  <2> QED
    BY <2>1, <2>2, <2>3 DEF Flying
<1>4. ~ Names(q)
  <2>1. q = Pkt(IF p.type = "ConnectReq" THEN "ConnectResp" ELSE "DisconnectResp",
                p.c, p.s, "kInvalidRemoteRpcId")
    BY <1>0, <1>2, RespPacket DEF Errors
  <2> QED
    BY <2>1 DEF Names, Pkt
<1>5. \A x \in Flying' : x \in Flying \/ (Names(x) => ServedBy(x.c, x.s))
  BY <1>3, <1>4
<1> QED
  BY <1>1, <1>5, StableAway

\* The life of the server Rpc, once it is not stopped.
LEMMA StableLife ==
    ASSUME IInv, StableInv, Onward, start_server \/ unregister_hook PROVE StableInv'
<1>1. csess' = csess /\ cqueue' = cqueue /\ udp' = udp /\ ssess' = ssess
  BY DEF start_server, unregister_hook, cvars
<1>2. Items(squeue') \subseteq Items(squeue)
  <2>1. Items(<<>>) = {}
    BY DEF Items
  <2> QED
    BY <2>1 DEF start_server, unregister_hook
<1>3. \A x \in Flying' : x \in Flying
  BY <1>1, <1>2 DEF Flying
<1> QED
  BY <1>1, <1>3, StableAway

\* The server sends one packet, or none, and keeps or changes its sessions.
LEMMA StableServe ==
    ASSUME IInv, StableInv, Onward, Steady, NEW q, csess' = csess, cqueue' = cqueue,
           Items(squeue') \subseteq Items(squeue), udp' = udp \/ udp' = udp \cup {q},
           Names(q) => ServedBy(q.c, q.s)',
           \A k \in DOMAIN ssess' : ssess'[k].st = "buried" =>
              \/ k \in DOMAIN ssess /\ ssess[k].st = "buried"
              \/ (Ended(ssess[k].c))'
    PROVE  StableInv'
<1>1. \A p \in Flying' : p \in Flying \/ p = q
  BY DEF Flying
<1>2. \A p \in Flying' : p \in Flying \/ (Names(p) => ServedBy(p.c, p.s)')
  BY <1>1
<1> QED
  BY <1>2, StableStep

\* handle_sm_rx_st at the server
LEMMA StableServer == ASSUME IInv, StableInv, Onward, handle_sm_rx_server PROVE StableInv'
<1>0. PICK p : p = Head(squeue)
  OBVIOUS
<1>1. /\ squeue \in Seq(Pkts) /\ squeue # <<>> /\ squeue' = Tail(squeue)
      /\ ServerInv /\ ssess \in Seq(SSession) /\ csess' = csess /\ cqueue' = cqueue
  BY DEF IInv, NetInv, ServerInv, handle_sm_rx_server, cvars
<1>2. p \in Items(squeue) /\ Items(squeue') \subseteq Items(squeue)
  BY <1>0, <1>1, ItemsTail
<1>3. p \in Flying /\ PacketInv(p) /\ p \in Pkts
  BY <1>2 DEF Flying, IInv, NetInv, PacketInv
<1>4. p.c \in Nat /\ p.s \in Nat
  BY <1>3 DEF Pkts
<1>5. ASSUME NEW err \in Errors
      PROVE  /\ sm_construct_resp(p, err).type \in Responses
             /\ sm_construct_resp(p, err).err = err
             /\ p.type # "ConnectReq" => sm_construct_resp(p, err).type = "DisconnectResp"
  <2>1. PICK ty : ty = IF p.type = "ConnectReq" THEN "ConnectResp" ELSE "DisconnectResp"
    OBVIOUS
  <2>2. sm_construct_resp(p, err) = Pkt(ty, p.c, p.s, err) /\ ty \in Responses
    BY <1>3, <2>1, RespPacket DEF Responses
  <2> QED
    BY <1>4, <2>1, <2>2, RespFields
<1>6. CASE handle_connect_req_st(p)
  <2>0. p.type = "ConnectReq"
    BY <1>6 DEF handle_connect_req_st
  <2>1. ASSUME NEW k \in Nat
        PROVE  [sm_construct_resp(p, "kNoError") EXCEPT !.s = k]
                 = Pkt("ConnectResp", p.c, k, "kNoError")
    <3>1. sm_construct_resp(p, "kNoError") = Pkt("ConnectResp", p.c, p.s, "kNoError")
      BY <1>3, <2>0, RespPacket DEF Errors
    <3> QED
      BY <3>1 DEF Pkt
  <2>2. CASE connect_req_duplicate(p)
    <3>1. PICK k, q : k = tokens[p.c] /\ q = Pkt("ConnectResp", p.c, k, "kNoError")
      OBVIOUS
    <3>2. k \in Nat /\ k \in DOMAIN ssess /\ ssess[k].c = p.c
      BY <1>1, <2>2, <3>1 DEF connect_req_duplicate, ServerInv
    <3>3. q.c = p.c /\ q.s = k
      BY <3>1 DEF Pkt
    <3>4. ssess' = ssess /\ (udp' = udp \/ udp' = udp \cup {q})
      BY <2>1, <2>2, <3>1, <3>2 DEF connect_req_duplicate
    <3>5. ServedBy(q.c, q.s)'
      BY <3>2, <3>3, <3>4 DEF ServedBy
    <3>6. Steady
      BY <3>4 DEF Steady
    <3> QED
      BY <1>1, <1>2, <3>4, <3>5, <3>6, StableServe
  <2>3. CASE connect_req_refused(p)
    <3>1. PICK err \in Errors \ {"kNoError"} : send_resp(p, err)
      BY Zenon, <2>3 DEF connect_req_refused, Errors
    <3>2. PICK q : q = sm_construct_resp(p, err)
      OBVIOUS
    <3>3. udp' = udp \cup {q} /\ ssess' = ssess
      BY <2>3, <3>1, <3>2 DEF send_resp, connect_req_refused
    <3>4. ~ Names(q)
      BY <1>5, <3>1, <3>2 DEF Names, Responses
    <3>5. Steady
      BY <3>3 DEF Steady
    <3> QED
      BY <1>1, <1>2, <3>3, <3>4, <3>5, StableServe
  <2>4. CASE connect_req_accepted(p)
    <3>1. PICK r, k, q : /\ r = [st |-> "connected", c |-> p.c] /\ k = Len(ssess) + 1
                         /\ q = Pkt("ConnectResp", p.c, k, "kNoError")
      BY Zenon
    <3>2. r \in SSession /\ r.st = "connected" /\ r.c = p.c /\ k \in Nat
      BY <1>1, <1>4, <3>1 DEF SSession, SStates
    <3>3. ssess' = Append(ssess, r) /\ udp' = udp \cup {q}
      BY Zenon, <2>1, <2>4, <3>1, <3>2 DEF connect_req_accepted, accept
    <3>4. /\ DOMAIN ssess' = (DOMAIN ssess) \cup {k}
          /\ ssess'[k] = r /\ \A j \in DOMAIN ssess : ssess'[j] = ssess[j]
      BY <1>1, <3>1, <3>2, <3>3
    <3>5. Steady
      BY <3>4 DEF Steady
    <3>6. ServedBy(q.c, q.s)'
      <4>1. q.c = p.c /\ q.s = k
        BY <3>1 DEF Pkt
      <4> QED
        BY <3>2, <3>4, <4>1 DEF ServedBy
    <3>7. \A j \in DOMAIN ssess' : ssess'[j].st = "buried"
             => j \in DOMAIN ssess /\ ssess[j].st = "buried"
      BY <3>2, <3>4
    <3> QED
      BY <1>1, <1>2, <3>3, <3>5, <3>6, <3>7, StableServe
  <2> QED
    BY <1>6, <2>2, <2>3, <2>4 DEF handle_connect_req_st
<1>7. CASE handle_disconnect_req_st(p)
  <2>1. p.type = "DisconnectReq" /\ Ended(p.c) /\ ServedBy(p.c, p.s)
    BY <1>3, <1>7 DEF handle_disconnect_req_st, PacketInv, StableInv, Names
  <2>2. PICK q : q = sm_construct_resp(p, "kNoError")
    OBVIOUS
  <2>3. ~ Names(q)
    BY <1>5, <2>1, <2>2 DEF Names, Errors
  <2>4. /\ p.s \in DOMAIN ssess /\ udp' = udp \cup {q}
        /\ ssess' = ssess \/ ssess' = Buried(ssess, p.s)
    BY <1>7, <2>1, <2>2 DEF handle_disconnect_req_st, ServedBy, send_resp
  <2>5. CASE ssess' = ssess
    <3>1. Steady
      BY <2>5 DEF Steady
    <3> QED
      BY <1>1, <1>2, <2>3, <2>4, <2>5, <3>1, StableServe
  <2>6. CASE ssess' = Buried(ssess, p.s)
    <3>1. \A j \in DOMAIN ssess : ssess[j] \in SSession
      BY <1>1
    <3>2. PICK r : r = [ssess[p.s] EXCEPT !.st = "buried"]
      BY Zenon
    <3>3. r.c = ssess[p.s].c
      BY <2>4, <3>1, <3>2 DEF SSession
    <3>4. ssess' = [ssess EXCEPT ![p.s] = r]
      BY <2>6, <3>2 DEF Buried
    <3>5. /\ DOMAIN ssess' = DOMAIN ssess /\ \A j \in DOMAIN ssess : ssess'[j].c = ssess[j].c
          /\ \A j \in DOMAIN ssess : j # p.s => ssess'[j] = ssess[j]
      BY <2>4, <3>3, <3>4
    <3>6. Steady
      BY <3>5 DEF Steady
    <3>7. ASSUME NEW j \in DOMAIN ssess', ssess'[j].st = "buried"
          PROVE  \/ j \in DOMAIN ssess /\ ssess[j].st = "buried"
                 \/ (Ended(ssess[j].c))'
      <4>1. CASE j # p.s
        BY <3>5, <3>7, <4>1
      <4>2. CASE j = p.s
        <5>1. ssess'[j].c = p.c
          BY <2>1, <2>4, <3>5, <4>2 DEF ServedBy
        <5> QED
          BY <1>1, <2>1, <5>1 DEF Ended
      <4> QED
        BY <4>1, <4>2
    <3> QED
      BY <1>1, <1>2, <2>3, <2>4, <3>6, <3>7, StableServe
  <2> QED
    BY <2>4, <2>5, <2>6
<1> QED
  BY <1>0, <1>6, <1>7 DEF handle_sm_rx_server

\* handle_sm_rx_st at the client
LEMMA StableClient == ASSUME IInv, StableInv, Onward, handle_sm_rx_client PROVE StableInv'
<1>0. PICK p, pend, n : p = Head(cqueue) /\ pend = pending \ {p.c} /\ n = p.c
  BY Zenon
<1>1. /\ cqueue \in Seq(Pkts) /\ cqueue # <<>> /\ cqueue' = Tail(cqueue)
      /\ csess \in Seq(CSession) /\ UNCHANGED svars
  BY DEF IInv, NetInv, ClientInv, handle_sm_rx_client
<1>2. p \in Items(cqueue) /\ Items(cqueue') \subseteq Items(cqueue)
  BY <1>0, <1>1, ItemsTail
<1>3. p \in Flying /\ PacketInv(p)
  BY <1>2 DEF IInv, NetInv, Flying
<1>4. n \in DOMAIN csess /\ p.s \in Nat
  BY <1>0, <1>3 DEF PacketInv, Pkts
<1>5. handle_connect_resp_st(p, pend) \/ handle_disconnect_resp_st(p, pend)
  BY <1>0, Zenon DEF handle_sm_rx_client
<1>6. ASSUME UNCHANGED <<csess, udp>> PROVE StableInv'
  <2>1. ssess' = ssess /\ squeue' = squeue
    BY <1>1 DEF svars
  <2>2. \A x \in Flying' : x \in Flying
    BY <1>2, <1>6, <2>1 DEF Flying
  <2> QED
    BY <1>6, <2>1, <2>2, StableAway
<1>7. ASSUME NEW event \in Events, Finished(n, event), udp' = udp PROVE StableInv'
  <2>1. PICK r \in CSession : csess' = [csess EXCEPT ![n] = r] /\ r.st = "buried"
    BY <1>1, <1>4, <1>7, FinishedStep
  <2> QED
    BY Zenon, <1>1, <1>2, <1>4, <1>7, <2>1, StableSession
<1>8. CASE handle_disconnect_resp_st(p, pend)
  BY <1>0, <1>6, <1>7, <1>8 DEF handle_disconnect_resp_st, Events
<1>9. CASE handle_connect_resp_st(p, pend)
  <2>1. CASE connect_resp_duplicate(p, pend)
    BY <1>6, <2>1 DEF connect_resp_duplicate
  <2>2. CASE connect_resp_error(p, pend)
    BY <1>0, <1>6, <1>7, <2>2 DEF connect_resp_error, Events
  <2>3. ASSUME p.err = "kNoError" PROVE ServedBy(n, p.s)
    BY <1>0, <1>3, <1>9, <2>3 DEF handle_connect_resp_st, StableInv, Names
  <2>4. CASE connect_resp_unresolved(p, pend)
    <3>1. /\ csess' = [csess EXCEPT ![n].srv = p.s, ![n].st = "disconnecting"]
          /\ udp' = udp \cup {SmReq(n, "disconnecting", p.s)} /\ p.err = "kNoError"
      BY <1>0, <2>4 DEF connect_resp_unresolved, send_sm_req_st
    <3>a. csess' = [csess EXCEPT ![n].srv = p.s, ![n].st = "disconnecting"]
      BY <3>1
    <3>2. PICK r \in CSession :
             /\ csess' = [csess EXCEPT ![n] = r]
             /\ r.st = "disconnecting" /\ r.srv = p.s /\ r.cb = csess[n].cb
      BY Zenon, <1>1, <1>4, <3>a, RecordStep
    <3>3. ServedBy(n, r.srv) /\ udp' = udp \cup {SmReq(n, "disconnecting", r.srv)}
      BY <2>3, <3>1, <3>2
    <3> QED
      BY Zenon, <1>1, <1>2, <1>4, <3>2, <3>3, StableSession
  <2>5. CASE connect_resp_ok(p, pend)
    <3>1. /\ csess' = [csess EXCEPT ![n].srv = p.s, ![n].st = "connected",
                                    ![n].cb = Append(@, "kConnected")]
          /\ udp' = udp /\ p.err = "kNoError"
      BY <1>0, <2>5 DEF connect_resp_ok
    <3>a. csess' = [csess EXCEPT ![n].srv = p.s, ![n].st = "connected",
                                 ![n].cb = Append(@, "kConnected")]
      BY <3>1
    <3>2. PICK r \in CSession :
             /\ csess' = [csess EXCEPT ![n] = r] /\ r.st = "connected"
             /\ r.srv = p.s /\ r.cb = Append(csess[n].cb, "kConnected")
      BY Zenon, <1>1, <1>4, <3>a, ConnectStep
    <3>3. ServedBy(n, r.srv)
      BY <2>3, <3>1, <3>2
    <3> QED
      BY Zenon, <1>1, <1>2, <1>4, <3>1, <3>2, <3>3, StableSession
  <2> QED
    BY <1>9, <2>1, <2>2, <2>4, <2>5 DEF handle_connect_resp_st
<1> QED
  BY <1>5, <1>8, <1>9

LEMMA StableInit == Init => StableInv
<1>1. Init => Flying = {}
  BY DEF Init, Flying, Items
<1> QED
  BY <1>1 DEF Init, StableInv

LEMMA StableNext ==
    ASSUME ~ CanStop, IInv, StableInv, Onward, [Next]_vars PROVE StableInv'
<1>1. CASE UNCHANGED vars
  <2>1. UNCHANGED <<csess, cqueue, ssess, squeue, udp>>
    BY <1>1 DEF vars, cvars, svars
  <2>2. \A p \in Flying' : p \in Flying
    BY <2>1 DEF Flying
  <2> QED
    BY <2>1, <2>2, StableAway
<1>2. CASE \E p \in udp : sm_thread_client(p) \/ sm_thread_server(p)
  BY <1>2, StableDatagram
<1>3. CASE \E n \in DOMAIN csess : destroy_session_st(n)
  BY <1>3, StableDestroy
<1>4. ~ stop_server
  BY DEF stop_server
<1> QED
  BY <1>1, <1>2, <1>3, <1>4, StableCreate, StableServer, StableClient, StableLife
     DEF Next

(* While one server Rpc lives, every packet and every client session that  *)
(* names a server session names the one made for it.                       *)
THEOREM Stability == ASSUME ~ CanStop PROVE Spec => []StableInv
<1>1. IInv /\ StableInv /\ [Next]_vars => StableInv'
  BY InvNext, StableNext
<1> QED
  BY <1>1, Invariance, StableInit, PTL DEF Spec

(* A connected client session has a connected server session made for it,  *)
(* whatever is lost, duplicated or late, as long as the server Rpc lives.  *)
THEOREM Agreed == ASSUME ~ CanStop PROVE Spec => []Agreement
<1>1. IInv /\ StableInv => Agreement
  <2> SUFFICES ASSUME IInv, StableInv, NEW n \in DOMAIN csess, csess[n].st = "connected"
               PROVE  /\ csess[n].srv \in DOMAIN ssess
                      /\ ssess[csess[n].srv] = [st |-> "connected", c |-> n]
    BY DEF Agreement
  <2>1. PICK k : k = csess[n].srv
    OBVIOUS
  <2>2. k \in DOMAIN ssess /\ ssess[k].c = n
    BY <2>1 DEF StableInv, ServedBy
  <2>3. ssess[k] \in SSession
    BY <2>2 DEF IInv, ServerInv
  <2>4. ssess[k].st # "buried"
    BY <2>2 DEF StableInv, Ended
  <2>5. ssess[k] = [st |-> "connected", c |-> n]
    BY <2>2, <2>3, <2>4 DEF SSession, SStates
  <2> QED
    BY <2>1, <2>2, <2>5
<1> QED
  BY <1>1, Invariance, Stability, PTL

(* handle_disconnect_req_st always finds the session its client was        *)
(* connected to, and its answer a session that asked for it.               *)
THEOREM DisconnectsMatched == ASSUME ~ CanStop PROVE Spec => []DisconnectsMatch
<1>1. IInv /\ StableInv => DisconnectsMatch
  <2> SUFFICES ASSUME IInv, StableInv PROVE DisconnectsMatch
    OBVIOUS
  <2>1. \A i \in DOMAIN squeue : squeue[i] \in Flying
    BY DEF Flying, Items
  <2>2. \A i \in DOMAIN cqueue : cqueue[i] \in Flying
    BY DEF Flying, Items
  <2>3. \A i \in DOMAIN squeue : squeue[i].type = "DisconnectReq" =>
           ServedBy(squeue[i].c, squeue[i].s)
    BY <2>1 DEF StableInv, Names
  <2>4. \A i \in DOMAIN cqueue : cqueue[i].type = "DisconnectResp" => Ended(cqueue[i].c)
    BY <2>2 DEF IInv, NetInv, PacketInv
  <2> QED
    BY <2>3, <2>4 DEF DisconnectsMatch, ServedBy, Ended
<1> QED
  BY <1>1, Invariance, Stability, PTL
-------------------------------------------------------------------------------
(* While no packet is sent or received twice.                              *)

\* Of session n, packet q alone is on its way after the step.
Replaces(n, q) == \A x \in Flying' : (x \in Flying /\ x.c # n) \/ x = q

\* A session that had no packet on its way sends one.
LEMMA SendAlone ==
    ASSUME Alone, NEW q, \A p \in Flying : p.c # q.c, udp' = udp \cup {q},
           cqueue' = cqueue, squeue' = squeue
    PROVE  Alone' /\ Replaces(q.c, q)
<1>1. /\ Items(cqueue') = Items(cqueue) /\ Items(squeue') = Items(squeue)
      /\ \A p \in udp \cup Items(cqueue) \cup Items(squeue) : p.c # q.c
  BY DEF Flying
<1>2. Alone'
  BY <1>1 DEF Alone
<1> QED
  BY <1>1, <1>2 DEF Replaces, Flying

\* Packets are lost, or answered by the thread that received them.
LEMMA AnswerAlone ==
    ASSUME Alone, NEW p \in udp, NEW q, q.c = p.c,
           udp' = udp \ {p} \/ udp' = (udp \ {p}) \cup {q}, cqueue' = cqueue, squeue' = squeue
    PROVE  Alone' /\ Replaces(p.c, q)
<1>1. /\ Items(cqueue') = Items(cqueue) /\ Items(squeue') = Items(squeue)
      /\ \A x \in udp' : (x \in udp /\ x.c # p.c) \/ x = q
  BY DEF Alone
<1>2. Alone'
  BY <1>1 DEF Alone
<1>3. \A x \in Items(cqueue) \cup Items(squeue) : x.c # p.c
  BY DEF Alone
<1> QED
  BY <1>1, <1>2, <1>3 DEF Replaces, Flying

\* A queue in which every packet is of another session keeps that when one is appended ...
LEMMA AppendAlone ==
    ASSUME NEW S, NEW s \in Seq(S), NEW p \in S, \A x \in Items(s) : x.c # p.c,
           \A i, j \in DOMAIN s : s[i].c = s[j].c => i = j
    PROVE  \A i, j \in DOMAIN Append(s, p) : Append(s, p)[i].c = Append(s, p)[j].c => i = j
<1>1. \A i \in DOMAIN s : s[i].c # p.c
  BY DEF Items
<1>2. DOMAIN Append(s, p) = DOMAIN s \cup {Len(s) + 1} /\ Append(s, p)[Len(s) + 1] = p
  OBVIOUS
<1>3. \A i \in DOMAIN s : Append(s, p)[i] = s[i]
  OBVIOUS
<1> QED
  BY <1>1, <1>2, <1>3

\* ... and when one is removed, whose session then has no packet left there.
LEMMA TailAlone ==
    ASSUME NEW S, NEW s \in Seq(S), s # <<>>,
           \A i, j \in DOMAIN s : s[i].c = s[j].c => i = j
    PROVE  /\ \A i, j \in DOMAIN Tail(s) : Tail(s)[i].c = Tail(s)[j].c => i = j
           /\ \A x \in Items(Tail(s)) : x \in Items(s) /\ x.c # Head(s).c
<1>1. \A i \in DOMAIN Tail(s) : i + 1 \in DOMAIN s /\ Tail(s)[i] = s[i + 1] /\ i \in Nat
  OBVIOUS
<1>2. \A i \in DOMAIN Tail(s) : i + 1 # 1
  BY <1>1
<1>3. 1 \in DOMAIN s /\ Head(s) = s[1]
  OBVIOUS
<1>4. \A i \in DOMAIN Tail(s) : Tail(s)[i].c # Head(s).c
  BY <1>1, <1>2, <1>3
<1>5. \A i, j \in DOMAIN Tail(s) : Tail(s)[i].c = Tail(s)[j].c => i + 1 = j + 1
  BY <1>1
<1>6. \A i, j \in DOMAIN Tail(s) : Tail(s)[i].c = Tail(s)[j].c => i = j
  BY <1>1, <1>5
<1> QED
  BY <1>1, <1>4, <1>6 DEF Items

\* An SM thread puts a packet into a queue.
LEMMA QueueAlone ==
    ASSUME Alone, NEW p \in udp, p \in Pkts, cqueue \in Seq(Pkts), squeue \in Seq(Pkts),
           udp' = udp \ {p},
           \/ cqueue' = Append(cqueue, p) /\ squeue' = squeue
           \/ squeue' = Append(squeue, p) /\ cqueue' = cqueue
    PROVE  Alone' /\ Replaces(p.c, p)
<1>1. /\ \A x \in udp' : x \in udp /\ x.c # p.c
      /\ \A x \in Items(cqueue) \cup Items(squeue) : x.c # p.c
  BY DEF Alone
<1>2. CASE cqueue' = Append(cqueue, p) /\ squeue' = squeue
  <2>1. Items(cqueue') = Items(cqueue) \cup {p} /\ Items(squeue') = Items(squeue)
    BY <1>2, ItemsAppend
  <2>2. \A i, j \in DOMAIN cqueue' : cqueue'[i].c = cqueue'[j].c => i = j
    BY <1>1, <1>2, AppendAlone DEF Alone
  <2>3. Alone'
    BY <1>1, <1>2, <2>1, <2>2 DEF Alone
  <2> QED
    BY <1>1, <2>1, <2>3 DEF Replaces, Flying
<1>3. CASE squeue' = Append(squeue, p) /\ cqueue' = cqueue
  <2>1. Items(squeue') = Items(squeue) \cup {p} /\ Items(cqueue') = Items(cqueue)
    BY <1>3, ItemsAppend
  <2>2. \A i, j \in DOMAIN squeue' : squeue'[i].c = squeue'[j].c => i = j
    BY <1>1, <1>3, AppendAlone DEF Alone
  <2>3. Alone'
    BY <1>1, <1>3, <2>1, <2>2 DEF Alone
  <2> QED
    BY <1>1, <2>1, <2>3 DEF Replaces, Flying
<1> QED
  BY <1>2, <1>3

\* An event loop takes a packet out of its queue and sends another, or none.
LEMMA HandleAlone ==
    ASSUME Alone, NEW p, NEW q, q.c = p.c, cqueue \in Seq(Pkts), squeue \in Seq(Pkts),
           udp' = udp \/ udp' = udp \cup {q},
           \/ cqueue # <<>> /\ p = Head(cqueue) /\ cqueue' = Tail(cqueue) /\ squeue' = squeue
           \/ squeue # <<>> /\ p = Head(squeue) /\ squeue' = Tail(squeue) /\ cqueue' = cqueue
    PROVE  Alone' /\ Replaces(p.c, q)
<1>2. CASE cqueue # <<>> /\ p = Head(cqueue) /\ cqueue' = Tail(cqueue) /\ squeue' = squeue
  <2>0. p \in Items(cqueue)
    BY <1>2, ItemsTail
  <2>1. /\ \A x \in Items(cqueue') : x \in Items(cqueue) /\ x.c # p.c
        /\ \A i, j \in DOMAIN cqueue' : cqueue'[i].c = cqueue'[j].c => i = j
    BY <1>2, TailAlone DEF Alone
  <2>2. Items(squeue') = Items(squeue) /\ \A x \in udp \cup Items(squeue) : x.c # p.c
    BY <1>2, <2>0 DEF Alone
  <2>3. Alone'
    BY <1>2, <2>1, <2>2 DEF Alone
  <2> QED
    BY <2>1, <2>2, <2>3 DEF Replaces, Flying
<1>3. CASE squeue # <<>> /\ p = Head(squeue) /\ squeue' = Tail(squeue) /\ cqueue' = cqueue
  <2>0. p \in Items(squeue)
    BY <1>3, ItemsTail
  <2>1. /\ \A x \in Items(squeue') : x \in Items(squeue) /\ x.c # p.c
        /\ \A i, j \in DOMAIN squeue' : squeue'[i].c = squeue'[j].c => i = j
    BY <1>3, TailAlone DEF Alone
  <2>2. Items(cqueue') = Items(cqueue) /\ \A x \in udp \cup Items(cqueue) : x.c # p.c
    BY <1>3, <2>0 DEF Alone
  <2>3. Alone'
    BY <1>3, <2>1, <2>2 DEF Alone
  <2> QED
    BY <2>1, <2>2, <2>3 DEF Replaces, Flying
<1> QED
  BY <1>2, <1>3

\* The server sessions of client session n are the same, or fewer, or buried.
Shrinks(n) == \A k \in DOMAIN ssess' : ssess'[k].c = n =>
    /\ k \in DOMAIN ssess /\ ssess[k].c = n
    /\ ssess[k].st = "buried" => ssess'[k].st = "buried"

\* A packet says as much of its session as before.
LEMMA PhaseKept ==
    ASSUME NEW p, Phase(p), Shrinks(p.c), csess'[p.c].st = csess[p.c].st
    PROVE  Phase(p)'
BY DEF Phase, Names, Shrinks, Absent, Gone, Only

\* The client's half of the invariant, for one session.
ClientOnce(n) ==
    /\ csess[n].st \in {"connected", "disconnecting"} => Only(n, csess[n].srv)
    /\ csess[n].st = "buried" => Gone(n)

\* A step that is about session n alone has to show what becomes of n.
LEMMA OnceStep ==
    ASSUME IInv, OnceInv, Alone', NEW n, NEW q, Replaces(n, q), q \in Flying' => Phase(q)',
           \A m \in DOMAIN csess : m # n => m \in DOMAIN csess' /\ csess'[m] = csess[m],
           \A m \in DOMAIN csess' : m # n => m \in DOMAIN csess,
           \A m : m # n => Shrinks(m),
           n \in DOMAIN csess' => ClientOnce(n)',
           (srv \in {"none", "closing"} => ssess = <<>>)'
    PROVE  OnceInv'
<1>1. ASSUME NEW p \in Flying' PROVE Phase(p)'
  <2>1. CASE p = q
    BY <2>1
  <2>2. CASE p \in Flying /\ p.c # n
    <3>1. Phase(p) /\ p.c \in DOMAIN csess
      BY <2>2 DEF OnceInv, IInv, NetInv, PacketInv
    <3>2. csess'[p.c] = csess[p.c] /\ Shrinks(p.c)
      BY <2>2, <3>1
    <3> QED
      BY <3>1, <3>2, PhaseKept
  <2> QED
    BY <2>1, <2>2 DEF Replaces
<1>2. ASSUME NEW m \in DOMAIN csess' PROVE ClientOnce(m)'
  <2>1. CASE m # n
    <3>1. m \in DOMAIN csess /\ csess'[m] = csess[m] /\ Shrinks(m) /\ ClientOnce(m)
      BY <2>1 DEF OnceInv, ClientOnce
    <3> QED
      BY SMTT(30), <3>1 DEF ClientOnce, Shrinks, Gone, Only
  <2> QED
    BY <2>1
<1> QED
  BY <1>1, <1>2 DEF OnceInv, ClientOnce

\* The same, for steps that leave the server's sessions alone.
LEMMA OnceClientStep ==
    ASSUME IInv, OnceInv, Alone', NEW n, NEW q, Replaces(n, q), q \in Flying' => Phase(q)',
           \A m \in DOMAIN csess : m # n => m \in DOMAIN csess' /\ csess'[m] = csess[m],
           \A m \in DOMAIN csess' : m # n => m \in DOMAIN csess,
           n \in DOMAIN csess' => ClientOnce(n)', ssess' = ssess, srv' = srv
    PROVE  OnceInv'
<1>1. \A m : Shrinks(m)
  BY DEF Shrinks
<1>2. (srv \in {"none", "closing"} => ssess = <<>>)'
  BY DEF OnceInv
<1> QED
  BY <1>1, <1>2, OnceStep

\* The same, for steps that change no session.
LEMMA OnceQuietStep ==
    ASSUME IInv, OnceInv, Alone', NEW n, NEW q, Replaces(n, q), q \in Flying' => Phase(q),
           csess' = csess, ssess' = ssess, srv \in {"none", "closing"} \/ srv' = srv
    PROVE  OnceInv'
<1>1. \A m : Shrinks(m) /\ Absent(m)' = Absent(m) /\ Gone(m)' = Gone(m)
  BY DEF Shrinks, Absent, Gone
<1>2. \A m, k : Only(m, k)' = Only(m, k)
  BY DEF Only
<1>3. (srv \in {"none", "closing"} => ssess = <<>>)'
  BY DEF OnceInv
<1>4. q \in Flying' => Phase(q)'
  BY <1>1, PhaseKept
<1>5. n \in DOMAIN csess' => ClientOnce(n)'
  BY <1>1, <1>2 DEF OnceInv, ClientOnce
<1> QED
  BY <1>1, <1>3, <1>4, <1>5, OnceStep

LEMMA OnceInit == Init => OnceInv
<1>1. Init => Flying = {} /\ Alone
  BY DEF Init, Flying, Items, Alone
<1> QED
  BY <1>1 DEF Init, OnceInv

\* create_session_st
LEMMA OnceCreate == ASSUME IInv, OnceInv, create_session_st PROVE OnceInv'
<1>1. csess \in Seq(CSession) /\ ServerInv
  BY DEF IInv, ClientInv
<1>2. PICK r, n, q : /\ r = [st |-> "connecting", srv |-> 0, cb |-> <<>>] /\ n = Len(csess) + 1
                     /\ q = SmReq(n, "connecting", 0)
  BY Zenon
<1>3. /\ csess' = Append(csess, r) /\ udp' = udp \cup {q} /\ cqueue' = cqueue
      /\ squeue' = squeue /\ ssess' = ssess /\ srv' = srv /\ tokens' = tokens
  BY <1>2 DEF create_session_st, send_sm_req_st, svars
<1>4. /\ r.st = "connecting" /\ r \in CSession /\ q.c = n /\ q.type = "ConnectReq"
  BY <1>2 DEF SmReq, Pkt, CSession, CStates
<1>5. /\ DOMAIN csess' = (DOMAIN csess) \cup {n} /\ n \notin DOMAIN csess
      /\ \A m \in DOMAIN csess : csess'[m] = csess[m]
      /\ csess'[n] = r
  BY <1>1, <1>2, <1>3, <1>4
<1>6. Alone' /\ Replaces(n, q)
  <2>1. \A p \in Flying : p.c # q.c
    BY <1>4, <1>5 DEF IInv, NetInv, PacketInv
  <2>2. Alone
    BY DEF OnceInv
  <2> QED
    BY <1>3, <1>4, <2>1, <2>2, SendAlone
<1>7. Phase(q)'
  <2>1. (Absent(n))'
    BY <1>1, <1>3, <1>5 DEF Absent, ServerInv
  <2> QED
    BY <1>4, <1>5, <2>1 DEF Phase, Names
<1>8. ClientOnce(n)'
  BY <1>4, <1>5 DEF ClientOnce
<1> QED
  BY <1>3, <1>5, <1>6, <1>7, <1>8, OnceClientStep

\* destroy_session_st
LEMMA OnceDestroy ==
    ASSUME IInv, OnceInv, NEW n \in DOMAIN csess, destroy_session_st(n) PROVE OnceInv'
<1>1. csess \in Seq(CSession) /\ csess[n] \in CSession
  BY DEF IInv, ClientInv
<1>2. PICK r, q : /\ r = [csess[n] EXCEPT !.st = "disconnecting"]
                  /\ q = SmReq(n, "disconnecting", csess[n].srv)
  BY Zenon
<1>3. r.st = "disconnecting" /\ r.srv = csess[n].srv
  BY <1>1, <1>2 DEF CSession
<1>4. q.c = n /\ q.s = r.srv /\ q.type = "DisconnectReq"
  BY <1>2, <1>3 DEF SmReq, Pkt
<1>5. /\ csess[n].st = "connected" /\ csess' = [csess EXCEPT ![n] = r]
      /\ udp' = udp \cup {q} /\ cqueue' = cqueue
      /\ squeue' = squeue /\ ssess' = ssess /\ srv' = srv
  BY <1>2 DEF destroy_session_st, send_sm_req_st, svars
<1>6. /\ DOMAIN csess' = DOMAIN csess /\ csess'[n] = r
      /\ \A m \in DOMAIN csess : m # n => csess'[m] = csess[m]
  BY <1>5
<1>7. Alone' /\ Replaces(n, q)
  <2>1. \A p \in Flying : p.type \in Requests \cup Responses /\ Phase(p)
    BY DEF OnceInv, IInv, NetInv, PacketInv, Pkts
  <2>2. \A p \in Flying : p.c # q.c
    BY <1>4, <1>5, <2>1 DEF Phase, Requests, Responses
  <2>3. Alone
    BY DEF OnceInv
  <2> QED
    BY <1>4, <1>5, <2>2, <2>3, SendAlone
<1>8. (Only(n, r.srv))'
  BY <1>3, <1>5 DEF OnceInv, Only
<1>9. Phase(q)' /\ ClientOnce(n)'
  BY <1>3, <1>4, <1>6, <1>8 DEF Phase, Names, ClientOnce
<1> QED
  BY <1>5, <1>6, <1>7, <1>9, OnceClientStep

\* One datagram received.
LEMMA OnceDatagram ==
    ASSUME ~ Duplicates, IInv, OnceInv, NEW p \in udp,
           sm_thread_client(p) \/ sm_thread_server(p)
    PROVE  OnceInv'
<1>0. /\ cqueue \in Seq(Pkts) /\ squeue \in Seq(Pkts) /\ p \in Pkts
      /\ Alone /\ Phase(p)
  BY DEF IInv, NetInv, Flying, PacketInv, OnceInv
<1>1. csess' = csess /\ ssess' = ssess /\ srv' = srv
  BY DEF sm_thread_client, sm_thread_server, cvars, svars
<1>2. CASE /\ udp' = udp \ {p}
           /\ \/ cqueue' = Append(cqueue, p) /\ squeue' = squeue
              \/ squeue' = Append(squeue, p) /\ cqueue' = cqueue
  <2>1. Alone' /\ Replaces(p.c, p)
    BY <1>0, <1>2, QueueAlone
  <2> QED
    BY <1>0, <1>1, <2>1, OnceQuietStep
<1>3. CASE sm_thread_client(p)
  BY <1>2, <1>3 DEF sm_thread_client, Received, svars
<1>4. CASE sm_thread_server(p)
  <2>1. p.type \in Requests /\ cqueue' = cqueue
    BY <1>4 DEF sm_thread_server, cvars
  <2>2. CASE squeue' = Append(squeue, p) /\ udp' = Received(p)
    BY <1>2, <2>1, <2>2 DEF Received
  <2>3. CASE /\ srv = "none" /\ squeue' = squeue
             /\ udp' = Received(p) \cup {sm_construct_resp(p, "kInvalidRemoteRpcId")}
    <3>1. PICK ty : ty = IF p.type = "ConnectReq" THEN "ConnectResp" ELSE "DisconnectResp"
      OBVIOUS
    <3>2. PICK q : q = sm_construct_resp(p, "kInvalidRemoteRpcId")
      OBVIOUS
    <3>3. q = Pkt(ty, p.c, p.s, "kInvalidRemoteRpcId")
      BY <1>0, <3>1, <3>2, RespPacket DEF Errors
    <3>4. q.c = p.c /\ q.type = ty /\ q.err = "kInvalidRemoteRpcId"
      BY <3>3 DEF Pkt
    <3>5. Alone' /\ Replaces(p.c, q)
      <4>1. udp' = (udp \ {p}) \cup {q}
        BY <2>3, <3>2 DEF Received
      <4> QED
        BY <1>0, <2>1, <2>3, <3>4, <4>1, AnswerAlone
    <3>6. Absent(p.c) /\ Gone(p.c)
      BY <2>3 DEF OnceInv, Absent, Gone
    <3>7. Phase(q)
      BY <1>0, <2>1, <3>1, <3>4, <3>6 DEF Phase, Names, Requests
    <3> QED
      BY <1>1, <3>5, <3>7, OnceQuietStep
  <2> QED
    BY <1>4, <2>2, <2>3 DEF sm_thread_server
<1> QED
  BY <1>3, <1>4

\* The constructor and the destructor of the server Rpc.
LEMMA OnceLife ==
    ASSUME IInv, OnceInv, start_server \/ stop_server \/ unregister_hook PROVE OnceInv'
<1>1. csess' = csess /\ cqueue' = cqueue /\ udp' = udp
  BY DEF start_server, stop_server, unregister_hook, cvars
<1>2. \A m : Shrinks(m)
  BY DEF start_server, stop_server, unregister_hook, Shrinks
<1>3. (srv \in {"none", "closing"} => ssess = <<>>)'
  BY DEF OnceInv, start_server, stop_server, unregister_hook
<1>4. squeue' = squeue \/ squeue' = <<>>
  BY DEF start_server, stop_server, unregister_hook
<1>5. Alone' /\ \A x \in Flying' : x \in Flying
  <2>1. Items(<<>>) = {}
    BY DEF Items
  <2>2. Items(squeue') \subseteq Items(squeue) /\ Items(cqueue') = Items(cqueue)
    BY <1>1, <1>4, <2>1
  <2>3. Alone
    BY DEF OnceInv
  <2>4. \A i, j \in DOMAIN squeue' : squeue'[i].c = squeue'[j].c => i = j
    BY <1>4, <2>3 DEF Alone
  <2>5. Alone'
    BY <1>1, <2>2, <2>3, <2>4 DEF Alone
  <2> QED
    BY <1>1, <2>2, <2>5 DEF Flying
<1>6. csess \in Seq(CSession)
  BY DEF IInv, ClientInv
<1>7. 0 \notin DOMAIN csess /\ \A x \in Flying : x.c # 0
  BY <1>6 DEF IInv, NetInv, PacketInv
<1>8. PICK q : q.c = 0
  <2>1. Pkt("ConnectReq", 0, 0, "kNoError").c = 0
    BY DEF Pkt
  <2> QED
    BY <2>1
<1>9. Replaces(0, q)
  BY <1>5, <1>7 DEF Replaces
<1> QED
  <2>1. q \notin Flying'
    BY <1>5, <1>7, <1>8
  <2> QED
    BY <1>1, <1>2, <1>3, <1>5, <1>7, <1>9, <2>1, OnceStep

\* handle_sm_rx_st at the server
LEMMA OnceServer == ASSUME IInv, OnceInv, handle_sm_rx_server PROVE OnceInv'
<1>0. PICK p, n : p = Head(squeue) /\ n = p.c
  BY SMTT(30)
<1>1. /\ squeue \in Seq(Pkts) /\ cqueue \in Seq(Pkts) /\ squeue # <<>> /\ squeue' = Tail(squeue)
      /\ ServerInv /\ ssess \in Seq(SSession) /\ csess' = csess /\ cqueue' = cqueue
      /\ srv' \in {"up", "crashed"} /\ Alone
  BY Zenon DEF IInv, NetInv, ServerInv, handle_sm_rx_server, cvars, OnceInv, handle_connect_req_st,
         handle_disconnect_req_st
<1>2. p \in Flying
  <2>1. p \in Items(squeue)
    BY SMTT(30), <1>0, <1>1, ItemsTail
  <2> QED
    BY <2>1 DEF Flying
<1>3. p \in Pkts /\ Phase(p) /\ n \in DOMAIN csess /\ ClientOnce(n)
  BY <1>0, <1>2 DEF IInv, NetInv, PacketInv, OnceInv, ClientOnce
<1>4. n \in Nat /\ p.s \in Nat
  BY SMTT(30), <1>0, <1>3 DEF Pkts
<1>5. ASSUME NEW q, q.c = n, udp' = udp \/ udp' = udp \cup {q}, q \in Flying' => Phase(q)',
             \A m : m # n => Shrinks(m), ClientOnce(n)'
      PROVE  OnceInv'
  <2>1. Alone' /\ Replaces(n, q)
    BY <1>0, <1>1, <1>5, HandleAlone
  <2>2. (srv \in {"none", "closing"} => ssess = <<>>)'
    BY <1>1
  <2> QED
    BY <1>1, <1>5, <2>1, <2>2, OnceStep
<1>6. CASE handle_connect_req_st(p)
  <2>1. /\ p.type = "ConnectReq" /\ csess[n].st = "connecting" /\ Absent(n)
    BY <1>0, <1>3, <1>6 DEF handle_connect_req_st, Phase, Names
  <2>2. n \notin DOMAIN tokens
    BY <1>1, <2>1 DEF ServerInv, Absent
  <2>3. ClientOnce(n)'
    BY <1>1, <2>1 DEF ClientOnce
  <2>4. CASE connect_req_refused(p)
    <3>1. PICK err \in Errors \ {"kNoError"} : send_resp(p, err)
      BY Zenon, <2>4 DEF connect_req_refused, Errors
    <3>2. PICK q : q = Pkt("ConnectResp", n, p.s, err)
      OBVIOUS
    <3>3. q.c = n /\ q.type = "ConnectResp" /\ q.err = err
      BY <3>2 DEF Pkt
    <3>4. udp' = udp \cup {q} /\ ssess' = ssess
      <4>1. sm_construct_resp(p, err) = q
        BY <1>0, <1>3, <2>1, <3>2, RespPacket
      <4> QED
        BY <2>4, <3>1, <4>1 DEF send_resp, connect_req_refused
    <3>5. Phase(q)'
      BY <1>1, <2>1, <3>1, <3>3, <3>4 DEF Phase, Names, Absent
    <3>6. \A m : Shrinks(m)
      BY <3>4 DEF Shrinks
    <3> QED
      BY <1>5, <2>3, <3>3, <3>4, <3>5, <3>6
  <2>5. CASE connect_req_accepted(p)
    <3>1. PICK r, k, q : /\ r = [st |-> "connected", c |-> n] /\ k = Len(ssess) + 1
                         /\ q = Pkt("ConnectResp", n, k, "kNoError")
      BY Zenon
    <3>2. r \in SSession /\ r.c = n /\ k \in Nat
      BY <1>1, <1>4, <3>1 DEF SSession, SStates
    <3>3. q.c = n /\ q.s = k /\ q.type = "ConnectResp" /\ q.err = "kNoError"
      BY <3>1 DEF Pkt
    <3>4. ssess' = Append(ssess, r) /\ udp' = udp \cup {q}
      <4>1. sm_construct_resp(p, "kNoError") = Pkt("ConnectResp", n, p.s, "kNoError")
        BY <1>0, <1>3, <2>1, RespPacket DEF Errors
      <4>2. [sm_construct_resp(p, "kNoError") EXCEPT !.s = k] = q
        BY <3>1, <4>1 DEF Pkt
      <4> QED
        BY <1>0, <2>5, <3>1, <4>2 DEF connect_req_accepted, accept
    <3>5. /\ DOMAIN ssess' = (DOMAIN ssess) \cup {k}
          /\ ssess'[k] = r /\ \A j \in DOMAIN ssess : ssess'[j] = ssess[j]
      BY <1>1, <3>1, <3>2, <3>4
    <3>6. \A m : m # n => Shrinks(m)
      BY <3>2, <3>5 DEF Shrinks
    <3>7. (Only(n, k))'
      BY <2>1, <3>5 DEF Only, Absent
    <3>8. Phase(q)'
      BY <1>1, <2>1, <3>3, <3>7 DEF Phase, Names
    <3> QED
      BY <1>5, <2>3, <3>3, <3>4, <3>6, <3>8
  <2> QED
    BY SMTT(30), <1>0, <1>6, <2>2, <2>4, <2>5 DEF handle_connect_req_st, connect_req_duplicate
<1>7. CASE handle_disconnect_req_st(p)
  <2>1. p.type = "DisconnectReq" /\ csess[n].st = "disconnecting" /\ Only(n, p.s)
    BY <1>0, <1>3, <1>7 DEF handle_disconnect_req_st, Phase, Names
  <2>2. CASE ssess' = ssess /\ udp' = udp
    <3>1. \A m : Shrinks(m)
      BY SMTT(30), <2>2 DEF Shrinks
    <3>2. ClientOnce(n)'
      BY SMTT(30), <1>1, <1>3, <2>1, <2>2 DEF ClientOnce, Only
    <3>3. Phase(p)'
      BY <1>0, <1>1, <1>3, <3>1, PhaseKept
    <3> QED
      BY <1>0, <1>5, <2>2, <3>1, <3>2, <3>3
  <2>3. CASE /\ p.s \in DOMAIN ssess /\ send_resp(p, "kNoError")
             /\ IF ssess[p.s].st = "buried" THEN ssess' = ssess ELSE ssess' = Buried(ssess, p.s)
    <3>1. PICK q : q = Pkt("DisconnectResp", n, p.s, "kNoError")
      OBVIOUS
    <3>2. q.c = n /\ q.type = "DisconnectResp"
      BY <3>1 DEF Pkt
    <3>3. udp' = udp \cup {q}
      <4>1. sm_construct_resp(p, "kNoError") = q
        BY <1>0, <1>3, <2>1, <3>1, RespPacket DEF Errors
      <4> QED
        BY <2>3, <4>1 DEF send_resp
    <3>4. /\ DOMAIN ssess' = DOMAIN ssess /\ ssess'[p.s].st = "buried"
          /\ \A j \in DOMAIN ssess : ssess'[j].c = ssess[j].c
          /\ \A j \in DOMAIN ssess : j # p.s => ssess'[j] = ssess[j]
      <4>1. CASE ssess' = ssess /\ ssess[p.s].st = "buried"
        BY <4>1
      <4>2. CASE ssess' = Buried(ssess, p.s)
        <5>1. PICK r : r = [ssess[p.s] EXCEPT !.st = "buried"]
          BY Zenon
        <5>2. ssess[p.s] \in SSession
          BY <1>1, <2>3
        <5>3. r.c = ssess[p.s].c /\ r.st = "buried"
          BY <5>1, <5>2 DEF SSession
        <5>4. ssess' = [ssess EXCEPT ![p.s] = r]
          BY <4>2, <5>1 DEF Buried
        <5> QED
          BY <2>3, <5>3, <5>4
      <4> QED
        BY <2>3, <4>1, <4>2
    <3>5. \A m : Shrinks(m)
      BY <3>4 DEF Shrinks
    <3>6. (Gone(n))'
      BY <2>1, <3>4 DEF Gone, Only
    <3>7. Phase(q)'
      BY SMTT(30), <1>1, <2>1, <3>2, <3>6 DEF Phase, Names
    <3>8. ClientOnce(n)'
      BY <1>1, <1>3, <2>1, <3>4 DEF ClientOnce, Only
    <3> QED
      BY <1>5, <3>2, <3>3, <3>5, <3>7, <3>8
  <2> QED
    BY SMTT(30), <1>7, <2>2, <2>3 DEF handle_disconnect_req_st
<1> QED
  BY <1>0, <1>6, <1>7 DEF handle_sm_rx_server

\* handle_sm_rx_st at the client
LEMMA OnceClient == ASSUME IInv, OnceInv, handle_sm_rx_client PROVE OnceInv'
<1>0. PICK p, pend, n : p = Head(cqueue) /\ pend = pending \ {p.c} /\ n = p.c
  BY Zenon
<1>1. /\ squeue \in Seq(Pkts) /\ cqueue \in Seq(Pkts) /\ cqueue # <<>> /\ cqueue' = Tail(cqueue)
      /\ csess \in Seq(CSession) /\ squeue' = squeue /\ ssess' = ssess /\ srv' = srv /\ Alone
  BY DEF IInv, NetInv, ClientInv, handle_sm_rx_client, svars, OnceInv
<1>2. p \in Flying
  <2>1. p \in Items(cqueue)
    BY SMTT(30), <1>0, <1>1, ItemsTail
  <2> QED
    BY <2>1 DEF Flying
<1>3. p \in Pkts /\ Phase(p) /\ n \in DOMAIN csess /\ p.s \in Nat
  BY <1>0, <1>2 DEF IInv, NetInv, PacketInv, OnceInv, Pkts
<1>4. handle_connect_resp_st(p, pend) \/ handle_disconnect_resp_st(p, pend)
  BY <1>0, Zenon DEF handle_sm_rx_client
<1>5. ASSUME csess' = csess, udp' = udp PROVE OnceInv'
  <2>1. Alone' /\ Replaces(n, p)
    BY <1>0, <1>1, <1>5, HandleAlone
  <2> QED
    BY <1>1, <1>3, <1>5, <2>1, OnceQuietStep
<1>6. ASSUME NEW r \in CSession, csess' = [csess EXCEPT ![n] = r], NEW q, q.c = n,
             \/ udp' = udp
             \/ udp' = udp \cup {q} /\ Phase(q)',
             r.st \in {"connected", "disconnecting"} => Only(n, r.srv),
             r.st = "buried" => Gone(n)
      PROVE  OnceInv'
  <2>1. Alone' /\ Replaces(n, q)
    BY <1>0, <1>1, <1>6, HandleAlone
  <2>2. /\ DOMAIN csess' = DOMAIN csess /\ csess'[n] = r
        /\ \A m \in DOMAIN csess : m # n => csess'[m] = csess[m]
    BY <1>3, <1>6
  <2>3. ClientOnce(n)'
    BY <1>1, <1>6, <2>2 DEF ClientOnce, Only, Gone
  <2>4. CASE udp' = udp
    <3>2. q \notin Flying'
      <4>1. \A x \in udp \cup Items(squeue) : x.c # n
        <5>1. p \in Items(cqueue)
          BY <1>0, <1>1, ItemsTail
        <5> QED
          BY <1>0, <1>1, <5>1 DEF Alone
      <4>2. \A x \in Items(cqueue') : x.c # n
        BY <1>0, <1>1, TailAlone DEF Alone
      <4> QED
        BY <1>1, <1>6, <2>4, <4>1, <4>2 DEF Flying
    <3> QED
      BY <1>1, <2>1, <2>2, <2>3, <3>2, OnceClientStep
  <2>5. CASE udp' = udp \cup {q} /\ Phase(q)'
    BY SMTT(30), <1>1, <2>1, <2>2, <2>3, <2>5, OnceClientStep
  <2> QED
    BY <1>6, <2>4, <2>5
<1>7. ASSUME NEW event \in Events, Finished(n, event), udp' = udp, Gone(n) PROVE OnceInv'
  <2>1. PICK r \in CSession : csess' = [csess EXCEPT ![n] = r] /\ r.st = "buried"
    BY <1>1, <1>3, <1>7, FinishedStep
  <2> QED
    BY Zenon, <1>0, <1>6, <1>7, <2>1
<1>8. CASE handle_disconnect_resp_st(p, pend)
  <2>1. Gone(n)
    BY <1>0, <1>3, <1>8 DEF handle_disconnect_resp_st, Phase
  <2> QED
    BY <1>0, <1>5, <1>7, <1>8, <2>1 DEF handle_disconnect_resp_st, Events
<1>9. CASE handle_connect_resp_st(p, pend)
  <2>0. p.type = "ConnectResp"
    BY <1>9 DEF handle_connect_resp_st
  <2>1. CASE connect_resp_duplicate(p, pend)
    BY SMTT(30), <1>5, <2>1 DEF connect_resp_duplicate
  <2>2. CASE connect_resp_error(p, pend)
    <3>1. Gone(n)
      BY SMTT(30), <1>0, <1>3, <2>0, <2>2 DEF connect_resp_error, Phase, Names, Absent, Gone
    <3> QED
      BY SMTT(30), <1>0, <1>5, <1>7, <2>2, <3>1 DEF connect_resp_error, Events
  <2>3. ASSUME p.err = "kNoError" PROVE Only(n, p.s)
    BY SMTT(30), <1>0, <1>3, <2>0, <2>3 DEF Phase, Names
  <2>4. CASE connect_resp_unresolved(p, pend)
    <3>1. PICK q : q = SmReq(n, "disconnecting", p.s)
      OBVIOUS
    <3>2. q.c = n /\ q.s = p.s /\ q.type = "DisconnectReq"
      BY <3>1 DEF SmReq, Pkt
    <3>3. csess' = [csess EXCEPT ![n].srv = p.s, ![n].st = "disconnecting"]
      BY <1>0, <2>4 DEF connect_resp_unresolved
    <3>4. udp' = udp \cup {q} /\ p.err = "kNoError"
      BY SMTT(30), <1>0, <2>4, <3>1 DEF connect_resp_unresolved, send_sm_req_st
    <3>5. PICK r \in CSession :
             /\ csess' = [csess EXCEPT ![n] = r]
             /\ r.st = "disconnecting" /\ r.srv = p.s /\ r.cb = csess[n].cb
      BY Zenon, <1>1, <1>3, <3>3, RecordStep
    <3>6. csess'[n].st = "disconnecting"
      BY <1>3, <3>5
    <3>7. Phase(q)'
      BY <1>1, <2>3, <3>2, <3>4, <3>6 DEF Phase, Names, Only
    <3>8. Only(n, r.srv) /\ r.st # "buried"
      BY SMTT(30), <2>3, <3>4, <3>5
    <3> QED
      BY Zenon, <1>6, <3>2, <3>4, <3>5, <3>7, <3>8
  <2>5. CASE connect_resp_ok(p, pend)
    <3>1. csess' = [csess EXCEPT ![n].srv = p.s, ![n].st = "connected",
                                 ![n].cb = Append(@, "kConnected")]
      BY <1>0, <2>5 DEF connect_resp_ok
    <3>2. udp' = udp /\ p.err = "kNoError"
      BY <2>5 DEF connect_resp_ok
    <3>3. PICK r \in CSession :
             /\ csess' = [csess EXCEPT ![n] = r] /\ r.st = "connected"
             /\ r.srv = p.s /\ r.cb = Append(csess[n].cb, "kConnected")
      BY Zenon, <1>1, <1>3, <3>1, ConnectStep
    <3>4. Only(n, r.srv) /\ r.st # "buried"
      BY <2>3, <3>2, <3>3
    <3> QED
      BY Zenon, <1>0, <1>6, <3>2, <3>3, <3>4
  <2> QED
    BY <1>9, <2>1, <2>2, <2>4, <2>5 DEF handle_connect_resp_st
<1> QED
  BY <1>4, <1>8, <1>9

LEMMA OnceNext ==
    ASSUME ~ Duplicates, IInv, OnceInv, [Next]_vars PROVE OnceInv'
<1>1. CASE UNCHANGED vars
  <2>1. UNCHANGED <<csess, cqueue, ssess, squeue, udp, srv>>
    BY <1>1 DEF vars, cvars, svars
  <2>2. Flying' = Flying /\ Alone' = Alone
    BY <2>1 DEF Flying, Alone
  <2>3. \A p : Phase(p)' = Phase(p)
    BY <2>1 DEF Phase, Absent, Only, Gone
  <2>4. \A n \in DOMAIN csess : ClientOnce(n) => ClientOnce(n)'
    BY <2>1 DEF ClientOnce, Only, Gone
  <2> QED
    BY <2>1, <2>2, <2>3, <2>4 DEF OnceInv, ClientOnce
<1>2. CASE \E p \in udp : sm_thread_client(p) \/ sm_thread_server(p)
  BY <1>2, OnceDatagram
<1>3. CASE \E n \in DOMAIN csess : destroy_session_st(n)
  BY <1>3, OnceDestroy
<1> QED
  BY SMTT(30), <1>1, <1>2, <1>3, OnceCreate, OnceServer, OnceClient, OnceLife DEF Next

(* If the network duplicates no management packet, a session that the      *)
(* client has buried is not live at the server, even if packets are lost   *)
(* and the server Rpc is restarted.                                        *)
THEOREM NoneOrphaned == ASSUME ~ Duplicates PROVE Spec => []NoOrphan
<1>1. IInv /\ OnceInv /\ [Next]_vars => OnceInv'
  BY OnceNext
<1>2. IInv /\ OnceInv => NoOrphan
  <2> SUFFICES ASSUME IInv, OnceInv, NEW k \in DOMAIN ssess, ssess[k].st = "connected"
               PROVE  csess[ssess[k].c].st # "buried"
    BY DEF NoOrphan
  <2>1. ssess[k].c \in DOMAIN csess
    BY DEF IInv, ServerInv
  <2> QED
    BY <2>1 DEF OnceInv, Gone
<1> QED
  BY <1>1, <1>2, Invariance, OnceInit, PTL DEF Spec
================================================================================
