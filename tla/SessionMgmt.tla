------------------------------ MODULE SessionMgmt ------------------------------
(***************************************************************************)
(* Session management: a client Rpc that creates and destroys sessions to  *)
(* a server Rpc, the two handlers at each end, the Nexus SM thread that    *)
(* moves UDP datagrams into an Rpc's sm_rx_queue_, and the datagrams       *)
(* themselves, which may be lost, duplicated and reordered.                *)
(*                                                                         *)
(* Session numbers are indices into session_vec_; here they start at 1 and *)
(* 0 is kInvalidSessionNum.  session_vec_ never shrinks: a destroyed       *)
(* session leaves a null pointer ("buried").  The unique token of a client *)
(* session is 64 random bits; it is taken to identify the session, so the  *)
(* token of client session n is n.                                         *)
(*                                                                         *)
(* The server Rpc may be created after the client has sent its requests,   *)
(* and destroyed while sessions exist; a new Rpc may then take its id.     *)
(* Nothing sends a request again: pkt_loss_scan_st, which would, is called *)
(* by nobody (rpc_ev_loop.cc:41-45).  Assertions do nothing (NDEBUG) and   *)
(* are stated as properties.                                               *)
(***************************************************************************)
EXTENDS Integers, Sequences, FiniteSets

CONSTANTS
    ClientRing,     \* sessions for which the client's RX ring has entries
    ServerRing,     \* the same at the server
    MaxSessions,    \* bound: create_session calls
    MaxStarts,      \* bound: server Rpc objects created, one after another
    MaxQueue,       \* bound: items in an sm_rx_queue_
    CanStop,        \* may the server Rpc be destroyed?
    Transports,     \* subset of BOOLEAN: does the server use the client's transport?
    Resolves,       \* subset of BOOLEAN: outcomes of resolve_remote_routing_info
    Retry,          \* retry_connect_on_invalid_rpc_id_
    Duplicates      \* may UDP deliver a datagram twice?

ASSUME RingAssumption == ClientRing \in Nat /\ ServerRing \in Nat
ASSUME LimitAssumption == MaxSessions \in Nat /\ MaxStarts \in Nat /\ MaxQueue \in Nat
ASSUME ChoiceAssumption ==
    /\ {CanStop, Retry, Duplicates} \subseteq BOOLEAN
    /\ Transports \subseteq BOOLEAN /\ Resolves \subseteq BOOLEAN

VARIABLES
    \* the client Rpc
    csess,      \* session_vec_: state_, server_.session_num_, callbacks made so far
    cring,      \* ring entries left, in sessions
    pending,    \* sm_pending_reqs_
    cqueue,     \* nexus_hook_.sm_rx_queue_
    \* the server Rpc
    srv,        \* its life: "none" (no hook), "up", "closing", "crashed"
    starts,     \* Rpc objects created so far
    same,       \* its transport type is the client's
    ssess,      \* session_vec_: state_ and the client's session number (and token)
    tokens,     \* conn_req_token_map_
    sring,      \* ring entries left, in sessions
    squeue,     \* nexus_hook_.sm_rx_queue_
    \* datagrams in flight (identical ones are one element); one that is never
    \* received is lost
    udp

cvars == <<csess, cring, pending, cqueue>>
svars == <<srv, starts, same, ssess, tokens, sring, squeue>>
vars == <<cvars, svars, udp>>

CStates == {"connecting", "connected", "disconnecting", "buried"}
SStates == {"connected", "buried"}
Events == {"kConnected", "kConnectFailed", "kDisconnected"}
Errors == {"kNoError", "kInvalidRemoteRpcId", "kInvalidTransport",
           "kRingExhausted", "kRoutingResolutionFailure"}
CSession == [st : CStates, srv : Nat, cb : Seq(Events)]
SSession == [st : SStates, c : Nat]
Requests == {"ConnectReq", "DisconnectReq"}
Responses == {"ConnectResp", "DisconnectResp"}

\* An SmPkt: its type, client_.session_num_ (and token), server_.session_num_, error.
Pkts == [type : Requests \cup Responses, c : Nat, s : Nat, err : Errors]
Pkt(type, c, s, err) == [type |-> type, c |-> c, s |-> s, err |-> err]

(* Session numbers, states, tokens and ring entries stay in their ranges:  *)
(* in particular ring_entries_available_, an unsigned that the connect     *)
(* handler decrements, never goes below zero (rpc_connect_handlers.cc).    *)
TypeOK ==
    /\ csess \in Seq(CSession)
    /\ cring \in Nat /\ sring \in Nat
    /\ pending \subseteq DOMAIN csess
    /\ cqueue \in Seq(Pkts) /\ squeue \in Seq(Pkts)
    /\ srv \in {"none", "up", "closing", "crashed"}
    /\ starts \in Nat /\ same \in BOOLEAN
    /\ ssess \in Seq(SSession)
    /\ DOMAIN tokens \subseteq DOMAIN csess
    /\ \A t \in DOMAIN tokens : tokens[t] \in DOMAIN ssess
    /\ udp \subseteq Pkts
    /\ \A p \in udp : p.c \in DOMAIN csess

Init ==
    /\ csess = <<>> /\ cring = ClientRing /\ pending = {} /\ cqueue = <<>>
    /\ srv = "none" /\ starts = 0 /\ same = TRUE
    /\ ssess = <<>> /\ tokens = <<>> /\ sring = ServerRing /\ squeue = <<>>
    /\ udp = {}

-----------------------------------------------------------------------------
(* Helpers of both ends. *)

have_ring_entries(ring) == ring > 0

\* sm_construct_resp: the request packet with its type flipped and an error type.
sm_construct_resp(p, err) ==
    [p EXCEPT !.type = IF p.type = "ConnectReq" THEN "ConnectResp" ELSE "DisconnectResp",
              !.err = err]

\* The packet send_sm_req_st builds for client session n in state st.
SmReq(n, st, srvnum) ==
    Pkt(IF st = "connecting" THEN "ConnectReq" ELSE "DisconnectReq", n, srvnum, "kNoError")

\* send_sm_req_st(session): record the request as outstanding and send it.
send_sm_req_st(n, st, srvnum, pend) ==
    /\ pending' = pend \cup {n}
    /\ udp' = udp \cup {SmReq(n, st, srvnum)}

\* bury_session_st: the session's entry becomes a null pointer.
Buried(sess, n) == [sess EXCEPT ![n].st = "buried"]

-----------------------------------------------------------------------------
(* The client's API. *)

create_session_st ==
    /\ Len(csess) < MaxSessions
    /\ have_ring_entries(cring)
    /\ csess' = Append(csess, [st |-> "connecting", srv |-> 0, cb |-> <<>>])
    /\ cring' = cring - 1
    /\ send_sm_req_st(Len(csess) + 1, "connecting", 0, pending)
    /\ UNCHANGED <<cqueue, svars>>

\* Every other state, and a session with pending RPCs, returns an error.
destroy_session_st(n) ==
    /\ csess[n].st = "connected"
    /\ csess' = [csess EXCEPT ![n].st = "disconnecting"]
    /\ send_sm_req_st(n, "disconnecting", csess[n].srv, pending)
    /\ UNCHANGED <<cring, cqueue, svars>>

-----------------------------------------------------------------------------
(* The SM threads: one datagram off the socket. *)

\* What is left in flight when p has been received.  A datagram that UDP may
\* duplicate stays, and is received again any number of times or not at all.
Received(p) == IF Duplicates THEN udp ELSE udp \ {p}

sm_thread_client(p) ==
    /\ p.type \in Responses
    /\ Len(cqueue) < MaxQueue
    /\ udp' = Received(p)
    /\ cqueue' = Append(cqueue, p)
    /\ UNCHANGED <<csess, cring, pending, svars>>

sm_thread_server(p) ==
    /\ p.type \in Requests
    /\ \/ /\ srv \in {"up", "closing"}
          /\ Len(squeue) < MaxQueue
          /\ squeue' = Append(squeue, p)
          /\ udp' = Received(p)
       \/ /\ srv = "none"
          /\ udp' = Received(p) \cup {sm_construct_resp(p, "kInvalidRemoteRpcId")}
          /\ UNCHANGED squeue
    /\ UNCHANGED <<srv, starts, same, ssess, tokens, sring, cvars>>

-----------------------------------------------------------------------------
(* handle_sm_rx_st at the server: one item of the queue. *)

send_resp(p, err) == udp' = udp \cup {sm_construct_resp(p, err)}

\* Mutant: a duplicate is never answered.
connect_req_duplicate_silent(p) ==
    /\ p.c \in DOMAIN tokens
    /\ UNCHANGED <<udp, ssess, tokens, sring>>

\* A duplicate: answered again if the session is still connected, else ignored.
connect_req_duplicate(p) ==
    /\ p.c \in DOMAIN tokens
    /\ udp' = IF ssess[tokens[p.c]].st = "connected"
              THEN udp \cup {[sm_construct_resp(p, "kNoError") EXCEPT !.s = tokens[p.c]]}
              ELSE udp
    /\ UNCHANGED <<ssess, tokens, sring>>

\* Mutant: a refused connect request is not answered.
connect_req_refused_silent(p) ==
    /\ p.c \notin DOMAIN tokens
    /\ ~(same /\ have_ring_entries(sring))
    /\ UNCHANGED <<udp, ssess, tokens, sring>>

connect_req_refused(p) ==
    /\ p.c \notin DOMAIN tokens
    /\ \/ ~same /\ send_resp(p, "kInvalidTransport")
       \/ same /\ ~have_ring_entries(sring) /\ send_resp(p, "kRingExhausted")
       \/ /\ same /\ have_ring_entries(sring) /\ FALSE \in Resolves
          /\ send_resp(p, "kRoutingResolutionFailure")
    /\ UNCHANGED <<ssess, tokens, sring>>

\* Mutant: the response carries the previous session's number.
accept_previous(p) ==
    /\ ssess' = Append(ssess, [st |-> "connected", c |-> p.c])
    /\ tokens' = [t \in DOMAIN tokens \cup {p.c} |->
                     IF t = p.c THEN Len(ssess) + 1 ELSE tokens[t]]
    /\ sring' = sring - 1
    /\ udp' = udp \cup {[sm_construct_resp(p, "kNoError") EXCEPT !.s = Len(ssess)]}

\* Accept connect request p: a new session, its token, its ring entries.
accept(p) ==
    /\ ssess' = Append(ssess, [st |-> "connected", c |-> p.c])
    /\ tokens' = [t \in DOMAIN tokens \cup {p.c} |->
                     IF t = p.c THEN Len(ssess) + 1 ELSE tokens[t]]
    /\ sring' = sring - 1
    /\ udp' = udp \cup {[sm_construct_resp(p, "kNoError") EXCEPT !.s = Len(ssess) + 1]}

\* Mutant: duplicates are not recognised.
connect_req_accepted_duplicate(p) ==
    same /\ have_ring_entries(sring) /\ TRUE \in Resolves /\ accept(p)

\* Mutant: the ring is not checked.
connect_req_accepted_ringless(p) ==
    p.c \notin DOMAIN tokens /\ same /\ TRUE \in Resolves /\ accept(p)

connect_req_accepted(p) ==
    /\ p.c \notin DOMAIN tokens
    /\ same /\ have_ring_entries(sring) /\ TRUE \in Resolves
    /\ accept(p)

handle_connect_req_st(p) ==
    /\ p.type = "ConnectReq"
    /\ connect_req_duplicate(p) \/ connect_req_refused(p) \/ connect_req_accepted(p)
    /\ UNCHANGED srv

\* Mutant: the null check is gone, a duplicate frees the ring entries again.
handle_disconnect_req_again(p) ==
    /\ p.type = "DisconnectReq"
    /\ p.s \in DOMAIN ssess
    /\ send_resp(p, "kNoError")
    /\ ssess' = Buried(ssess, p.s) /\ sring' = sring + 1
    /\ UNCHANGED <<srv, tokens>>

\* Mutant: the session is buried without a response.
handle_disconnect_req_silent(p) ==
    /\ p.type = "DisconnectReq"
    /\ p.s \in DOMAIN ssess
    /\ ssess' = Buried(ssess, p.s) /\ sring' = sring + 1
    /\ UNCHANGED <<udp, srv, tokens>>

\* session_vec_.at() throws if the number is not one of this Rpc's.
handle_disconnect_req_st(p) ==
    /\ p.type = "DisconnectReq"
    /\ UNCHANGED tokens
    /\ \/ p.s \notin DOMAIN ssess /\ srv' = "crashed" /\ UNCHANGED <<ssess, sring, udp>>
       \/ /\ p.s \in DOMAIN ssess
          /\ send_resp(p, "kNoError")
          /\ UNCHANGED srv
          /\ IF ssess[p.s].st = "buried" THEN UNCHANGED <<ssess, sring>>
             ELSE ssess' = Buried(ssess, p.s) /\ sring' = sring + 1

handle_sm_rx_server ==
    /\ srv = "up" /\ squeue # <<>>
    /\ squeue' = Tail(squeue)
    /\ handle_connect_req_st(Head(squeue)) \/ handle_disconnect_req_st(Head(squeue))
    /\ UNCHANGED <<starts, same, cvars>>

-----------------------------------------------------------------------------
(* handle_sm_rx_st at the client: one item of the queue. *)

\* The sm_handler_ callback for session n, then nothing more of the session.
Finished(n, event) ==
    /\ csess' = [Buried(csess, n) EXCEPT ![n].cb = Append(@, event)]
    /\ cring' = cring + 1

\* Mutant: a successful response revives the session whatever its state.
connect_resp_duplicate_revives(p, pend) ==
    /\ csess[p.c].st # "connecting" /\ p.err = "kNoError"
    /\ csess' = [csess EXCEPT ![p.c].st = "connected", ![p.c].cb = Append(@, "kConnected")]
    /\ pending' = pend
    /\ UNCHANGED <<cring, udp>>

\* A response for a session that is no longer connecting is ignored.
connect_resp_duplicate(p, pend) ==
    /\ csess[p.c].st # "connecting"
    /\ pending' = pend
    /\ UNCHANGED <<csess, cring, udp>>

Retried(p) == p.err = "kInvalidRemoteRpcId" /\ Retry

connect_resp_error(p, pend) ==
    /\ csess[p.c].st = "connecting" /\ p.err # "kNoError"
    /\ UNCHANGED udp
    /\ \/ Retried(p) /\ pending' = pend \cup {p.c} /\ UNCHANGED <<csess, cring>>
       \/ ~Retried(p) /\ pending' = pend /\ Finished(p.c, "kConnectFailed")

\* Mutant: the session is dropped as after an error response.
connect_resp_unresolved_dropped(p, pend) ==
    /\ csess[p.c].st = "connecting" /\ p.err = "kNoError" /\ FALSE \in Resolves
    /\ Finished(p.c, "kConnectFailed")
    /\ pending' = pend
    /\ UNCHANGED udp

\* The server's address cannot be resolved: disconnect, with no callback.
connect_resp_unresolved(p, pend) ==
    /\ csess[p.c].st = "connecting" /\ p.err = "kNoError" /\ FALSE \in Resolves
    /\ csess' = [csess EXCEPT ![p.c].srv = p.s, ![p.c].st = "disconnecting"]
    /\ send_sm_req_st(p.c, "disconnecting", p.s, pend)
    /\ UNCHANGED cring

connect_resp_ok(p, pend) ==
    /\ csess[p.c].st = "connecting" /\ p.err = "kNoError" /\ TRUE \in Resolves
    /\ csess' = [csess EXCEPT ![p.c].srv = p.s, ![p.c].st = "connected",
                              ![p.c].cb = Append(@, "kConnected")]
    /\ pending' = pend
    /\ UNCHANGED <<cring, udp>>

handle_connect_resp_st(p, pend) ==
    /\ p.type = "ConnectResp"
    /\ \/ connect_resp_duplicate(p, pend)
       \/ connect_resp_error(p, pend)
       \/ connect_resp_unresolved(p, pend)
       \/ connect_resp_ok(p, pend)

\* Mutant: a response for a session that is gone is not ignored.
handle_disconnect_resp_again(p, pend) ==
    /\ p.type = "DisconnectResp"
    /\ pending' = pend
    /\ UNCHANGED udp
    /\ Finished(p.c, "kDisconnected")

handle_disconnect_resp_st(p, pend) ==
    /\ p.type = "DisconnectResp"
    /\ pending' = pend
    /\ UNCHANGED udp
    /\ IF csess[p.c].st = "buried" THEN UNCHANGED <<csess, cring>>
       ELSE Finished(p.c, "kDisconnected")

handle_sm_rx_client ==
    /\ cqueue # <<>>
    /\ cqueue' = Tail(cqueue)
    /\ LET p == Head(cqueue)
           pend == pending \ {p.c}  \* a response: the request is no longer outstanding
       IN  handle_connect_resp_st(p, pend) \/ handle_disconnect_resp_st(p, pend)
    /\ UNCHANGED svars

-----------------------------------------------------------------------------
(* The life of the server Rpc. *)

\* The constructor; register_hook makes the Rpc known to the SM thread.
start_server ==
    /\ srv = "none" /\ starts < MaxStarts
    /\ srv' = "up" /\ starts' = starts + 1
    /\ same' \in Transports
    /\ UNCHANGED <<ssess, tokens, sring, squeue, cvars, udp>>

\* The destructor deletes the sessions while the hook is still registered ...
stop_server ==
    /\ CanStop /\ srv = "up"
    /\ srv' = "closing"
    /\ ssess' = <<>> /\ tokens' = <<>> /\ sring' = ServerRing
    /\ UNCHANGED <<starts, same, squeue, cvars, udp>>

\* ... and unregisters it last; the queue goes with the Rpc object.
unregister_hook ==
    /\ srv = "closing"
    /\ srv' = "none" /\ squeue' = <<>>
    /\ UNCHANGED <<starts, same, ssess, tokens, sring, cvars, udp>>

Next ==
    \/ create_session_st
    \/ \E n \in DOMAIN csess : destroy_session_st(n)
    \/ \E p \in udp : sm_thread_client(p) \/ sm_thread_server(p)
    \/ handle_sm_rx_server
    \/ handle_sm_rx_client
    \/ start_server \/ stop_server \/ unregister_hook

Spec == Init /\ [][Next]_vars

\* The event loops and SM threads keep running, an Rpc that is to be created is
\* created, and the network loses nothing: every datagram is received at last.
Arrives(n, type) ==
    \E p \in udp : p.c = n /\ p.type = type /\ (sm_thread_client(p) \/ sm_thread_server(p))
Fairness ==
    /\ WF_vars(handle_sm_rx_client) /\ WF_vars(handle_sm_rx_server)
    /\ WF_vars(start_server)
    /\ \A n \in 1 .. MaxSessions, type \in Requests \cup Responses : WF_vars(Arrives(n, type))
FairSpec == Spec /\ Fairness

-----------------------------------------------------------------------------
(* Properties. *)

\* The packets on their way.
Items(q) == {q[i] : i \in DOMAIN q}
Flying == udp \cup Items(cqueue) \cup Items(squeue)

LiveClient == {n \in DOMAIN csess : csess[n].st # "buried"}
LiveServer == {k \in DOMAIN ssess : ssess[k].st # "buried"}

\* Ring entries are neither leaked nor freed twice: what is left plus one share
\* per live session is the whole ring, at both ends, on every path of
\* create_session_st and of the four handlers (alloc_ring_entries and
\* free_ring_entries).
RingAccounting ==
    /\ cring + Cardinality(LiveClient) = ClientRing
    /\ sring + Cardinality(LiveServer) = ServerRing

\* However often a connect request is duplicated or retried, the server creates
\* at most one session for it (conn_req_token_map_, rpc_connect_handlers.cc:22).
OneSessionPerToken ==
    \A j, k \in DOMAIN ssess : ssess[j].c = ssess[k].c => j = k

\* While the server Rpc lives, a connected client session has a connected server
\* session made for it: no late, duplicated or reordered packet takes it away.
Agreement ==
    \A n \in DOMAIN csess : csess[n].st = "connected" =>
        /\ csess[n].srv \in DOMAIN ssess
        /\ ssess[csess[n].srv] = [st |-> "connected", c |-> n]

\* "The server didn't allocate session resources, so we can just destroy"
\* (rpc_connect_handlers.cc:155): a session the client has buried is not live at
\* the server.
NoOrphan ==
    \A k \in DOMAIN ssess : ssess[k].st = "connected" => csess[ssess[k].c].st # "buried"

\* The callbacks that the sm_handler_ of a session in state st may have seen.
Callbacks(st) ==
    CASE st = "connecting"    -> {<<>>}
      [] st = "connected"     -> {<<"kConnected">>}
      [] st = "disconnecting" -> {<<>>, <<"kConnected">>}
      [] st = "buried"        -> {<<"kConnectFailed">>, <<"kDisconnected">>,
                                  <<"kConnected", "kDisconnected">>}

\* The application's sm_handler_ sees kConnected or kConnectFailed at most once,
\* kDisconnected at most once and last, and hears of every session that ends.
CallbackOrder == \A n \in DOMAIN csess : csess[n].cb \in Callbacks(csess[n].st)

\* "We don't need to check remote arguments since the session was already
\* connected successfully" (rpc_disconnect_handlers.cc:9): the session a
\* disconnect request names is the one this client session was connected to, and
\* the answer finds a session that asked for it.
DisconnectsMatch ==
    /\ srv = "up" => \A i \in DOMAIN squeue : squeue[i].type = "DisconnectReq" =>
          /\ squeue[i].s \in DOMAIN ssess
          /\ ssess[squeue[i].s].c = squeue[i].c
    /\ \A i \in DOMAIN cqueue : cqueue[i].type = "DisconnectResp" =>
          csess[cqueue[i].c].st \in {"disconnecting", "buried"}

In(n, st) == n \in DOMAIN csess /\ csess[n].st = st

\* Over a network that loses nothing every create_session is answered: the
\* session connects or is buried.
ConnectAnswered ==
    \A n \in 1 .. MaxSessions :
        In(n, "connecting") ~> (In(n, "connected") \/ In(n, "disconnecting") \/ In(n, "buried"))

\* "Invalid remote Rpc ID. Dropping. Scan will retry later."
\* (rpc_connect_handlers.cc:147): a session whose connect request was refused
\* because the server Rpc did not exist yet sends it again.
Dropped(n) ==
    In(n, "connecting") /\ \A p \in Flying : p.c # n
RetriedLater == \A n \in 1 .. MaxSessions : Dropped(n) ~> ~Dropped(n)

\* Every destroy_session ends: the session is buried at the client.
DisconnectAnswered ==
    \A n \in 1 .. MaxSessions :
        In(n, "disconnecting") ~> In(n, "buried")

-----------------------------------------------------------------------------
(* The inductive invariant, in three parts: the client, the server, and the *)
(* packets on their way between them. *)

Ended(n) == csess[n].st \in {"disconnecting", "buried"}

ClientInv ==
    /\ csess \in Seq(CSession)
    /\ pending \subseteq DOMAIN csess
    /\ cring \in Nat /\ cring + Cardinality(LiveClient) = ClientRing
    /\ CallbackOrder

\* The token map is the inverse of the sessions' tokens.
ServerInv ==
    /\ ssess \in Seq(SSession)
    /\ srv \in {"none", "up", "closing", "crashed"} /\ starts \in Nat /\ same \in BOOLEAN
    /\ DOMAIN tokens \subseteq DOMAIN csess
    /\ \A t \in DOMAIN tokens : tokens[t] \in DOMAIN ssess /\ ssess[tokens[t]].c = t
    /\ \A k \in DOMAIN ssess : ssess[k].c \in DOMAIN tokens /\ tokens[ssess[k].c] = k
    /\ sring \in Nat /\ sring + Cardinality(LiveServer) = ServerRing

\* Only a session that has given up its connection has disconnect packets.
PacketInv(p) ==
    /\ p \in Pkts /\ p.c \in DOMAIN csess
    /\ p.type \in {"DisconnectReq", "DisconnectResp"} => Ended(p.c)

NetInv ==
    /\ cqueue \in Seq(Pkts) /\ squeue \in Seq(Pkts)
    /\ \A p \in Items(cqueue) : p.type \in Responses
    /\ \A p \in Items(squeue) : p.type \in Requests
    /\ \A p \in Flying : PacketInv(p)

IInv == ClientInv /\ ServerInv /\ NetInv

(* While one server Rpc lives: whoever names a server session names the one *)
(* made for that client session, which is buried only at the client's wish. *)
ServedBy(n, k) == k \in DOMAIN ssess /\ ssess[k].c = n

\* Packets whose server session number counts.
Names(p) == p.type = "DisconnectReq" \/ (p.type = "ConnectResp" /\ p.err = "kNoError")

StableInv ==
    /\ \A p \in Flying : Names(p) => ServedBy(p.c, p.s)
    /\ \A n \in DOMAIN csess :
          csess[n].st \in {"connected", "disconnecting"} => ServedBy(n, csess[n].srv)
    /\ \A k \in DOMAIN ssess : ssess[k].st = "buried" => Ended(ssess[k].c)

(* While no packet is sent or received twice: a session has at most one      *)
(* packet on its way, and that packet tells how far both ends have come.     *)
Alone ==
    /\ \A p, q \in udp : p.c = q.c => p = q
    /\ \A i, j \in DOMAIN cqueue : cqueue[i].c = cqueue[j].c => i = j
    /\ \A i, j \in DOMAIN squeue : squeue[i].c = squeue[j].c => i = j
    /\ \A p \in udp, q \in Items(cqueue) \cup Items(squeue) : p.c # q.c
    /\ \A p \in Items(cqueue), q \in Items(squeue) : p.c # q.c

\* The server has no session for n, none but k, none that is connected.
Absent(n) == \A k \in DOMAIN ssess : ssess[k].c # n
Only(n, k) == \A j \in DOMAIN ssess : ssess[j].c = n => j = k
Gone(n) == \A k \in DOMAIN ssess : ssess[k].c = n => ssess[k].st = "buried"

Phase(p) ==
    /\ p.type \in {"ConnectReq", "ConnectResp"} => csess[p.c].st = "connecting"
    /\ p.type \in {"DisconnectReq", "DisconnectResp"} => csess[p.c].st = "disconnecting"
    /\ p.type \in {"ConnectReq", "ConnectResp"} /\ ~ Names(p) => Absent(p.c)
    /\ p.type = "DisconnectResp" => Gone(p.c)
    /\ Names(p) => Only(p.c, p.s)

OnceInv ==
    /\ Alone
    /\ \A p \in Flying : Phase(p)
    /\ \A n \in DOMAIN csess :
          /\ csess[n].st \in {"connected", "disconnecting"} => Only(n, csess[n].srv)
          /\ csess[n].st = "buried" => Gone(n)
    /\ srv \in {"none", "closing"} => ssess = <<>>

================================================================================
