# A TLA+ verification of zRPC

zRPC is a fork of eRPC: a datacenter RPC library whose messages are serialised, zero-copy
scatter lists (`src/src/huibuffer`) sent over InfiniBand/RoCE datagrams.  This directory holds
TLA+ models of its parts, the TLC configurations that check them on small instances, and TLAPS
proofs about them.

## 1. The system and its parts

An application creates one `Nexus` per process and one `Rpc` per thread.  The Nexus runs a session
management (SM) thread, which receives UDP datagrams and queues them for the Rpc they are for, and
optionally background threads for long request handlers.  An Rpc creates *sessions* to remote Rpcs
over UDP, then exchanges packets on them through the NIC.  All work of an Rpc happens in the event
loop of its thread: handle SM packets, receive packets, look at the stall queue, look at the queues
the background threads fill.  Buffers come from a hugepage allocator.

| Part | Source (under `src/src`) | Module |
|------|--------------------------|--------|
| Datapath of a session, client and server | `rpc_impl/rpc_{req,resp,kick,cr,rfr,queues}.cc`, `session.h`, `sslot.h` | `Datapath` |
| Event loop, packet dispatch | `rpc_impl/rpc_ev_loop.cc`, `rpc_rx.cc` | `Datapath` (partly) |
| Session management | `rpc_impl/rpc_sm_{api,helpers}.cc`, `rpc_{connect,disconnect}_handlers.cc`, `sm_types.h` | `SessionMgmt` |
| SM thread, registration of Rpcs | `nexus_impl/nexus_sm_thread.cc`, `nexus.cc`, `rpc_impl/rpc.cc` | `SessionMgmt` (partly) |
| Hugepage allocator | `util/huge_alloc.{h,cc}`, `util/math_utils.h` | `HugeAlloc` |
| Packet loss scan | `rpc_impl/rpc_pkt_loss.cc` | not modelled: its only call is commented out |
| Background threads, `MtQueue`, TLS registry | `nexus_impl/nexus_bg_thread.cc`, `util/mt_queue.h`, `util/tls_registry.*` | `Datapath` (handlers only) |
| TX batch, control headers, InfiniBand transport | `rpc.h`, `rpc_impl/rpc_{cr,rfr}.cc`, `transport_impl/infiniband/*` | `IbTransport` (device set-up left out) |
| Replicated key-value service | `../apps/smr` with its copy of willemt/raft | `Raft` (without snapshots and membership) |
| MICA hash table | `../mica/src/mica/table/fixedtable*` | `FixedTable` |
| Heartbeats | `heartbeat_mgr.h` | not modelled: no thread calls it |
| Timing wheel, memory pool | `cc/timing_wheel.h`, `util/mempool.h` | not modelled: the wheel is never filled |
| Message framing, serialisation, iovectors, buffers | `huibuffer/*`, `msg_buffer.h`, `our_msg_buf.h` | not modelled: layout in bytes |
| Session reset | `rpc_impl/rpc_reset_handlers.cc` | not modelled: reached only under `if (false)` |
| Timely rate control | `cc/timely.h` | not modelled: one floating-point formula |
| Other transports, utilities, fault injection | `transport_impl/{dpdk,raw,fake}`, `util/*` | not modelled: driver calls, I/O, test hooks |
| Other applications, tests, generated code | `../apps`, `../tests`, ... | not modelled |

Four modules say what a part promises, and the detailed module is checked to implement them:

| Abstract module | Promise | Implemented by |
|-----------------|---------|----------------|
| `RpcService` | a request is executed once, on the message sent, and its continuation sees the response; once no more are issued, all come to an end | `Datapath` (mapping in `DatapathService`) |
| `PacketFlow` | packets leave once, in order, unchanged, and eventually | `IbTransport` |
| `CommitLog` | one growing log of requests; servers execute prefixes of it; success is told only for what was executed | `Raft` (mapping in `RaftService`) |
| `KeyValueMap` | calls that act on one map at one moment | `FixedTable` |

`PROJECT.json` lists every part with its sources, the hazards each is exposed to, the lines every
definition models, and the mutants that show that the properties can fail.

The build that the repository measures is `-DPERF=ON`, which defines NDEBUG.  Assertions are
therefore not guards: where one matters it is stated as a property.  A dereference of a null
pointer ends the process (`dead`, `crashed`).

## 2. Datapath

One connected session: the client half and the server half of `Rpc<TTr>` and the network between
them.  A client sends a request of several packets in one of `kSessionReqWindow` slots; each packet
uses one of the `kSessionCredits` credits of the session.  The server returns a credit (CR) for
every request packet but the last; the response's first packet returns the last credit.  The
remaining response packets are pulled by requests-for-response (RFRs), one credit each.

| Model | Code |
|-------|------|
| `EnqueueRequest`, `EnqueueBacklog`, `EnqueueRequestInBackground` | `enqueue_request`, by where it returns |
| `ProcessCreditStallQueue` | one iteration of the loop of `process_credit_stall_queue_st` |
| `ProcessExplCr`, `ProcessSmallResp`, `ProcessLargeResp`, `CompleteRequest` | `process_expl_cr_st`, `process_resp_one_st` |
| `ProcessSmallReq`, `ProcessLargeReq`, `ProcessRfr` | the server's packet handlers |
| `EnqueueResponse` | `enqueue_response` in the dispatch thread |
| `ProcessBgEnqueueRequest`, `RunBackgroundHandler`, `ProcessBgEnqueueResponse` | the background queues |

Data abstraction.  A message is its number of packets; what a receiver has assembled is the sequence
of packet numbers in the order of their bodies.  A request number is the pair (slot, count).  The
transmit batch and the timing wheel are part of the network: a packet handed to them is in flight.
The network is a set of packets for each direction; `InOrder` restricts delivery to the oldest
packet of a slot, which is what one queue pair over RoCE gives.  The code itself has no check of
the order left on these paths, so most properties are stated for that network.

### Properties

* `CreditConservation`: credits in hand, packets in flight and responses being computed add up to
  `kSessionCredits` in every state.
* `SlotDiscipline`: free list, active list and stall queue hold each slot at most once, and a slot
  is free exactly if it has no request.
* `NoLostWakeup`: an unfinished request always has a packet in flight, a place in the stall queue or
  a response pending, so that something will restart it.
* `PacketsInOrder`: both ends accept packets in order and only for the current request, although
  their checks of the order are commented out.
* `NoNullDereference`.
* `ImplementsRpcService`: the refinement of `RpcService`.  The mapping takes the request of a slot
  from the client's half (`ctx`, `cnum`), whether it has been executed and answered from the
  server's (`req_type_` and `tx_msgbuf_`), what the handler sees from the server's iovector while a
  handler runs, and the result from the client's at completion.  It includes the liveness of
  `RpcService`: once the application issues no more requests (`NoMoreRequests`), every request that
  has a slot is executed, answered and returned, although nothing but a packet that arrives or the
  stall queue makes a slot go on.  While the application goes on issuing requests no such promise
  is made, since the code does not keep it: continuations run before the stall queue is looked at,
  and those that issue the next request may take every credit (section 9).  The mapping is for
  handlers in the dispatch thread; background handlers are not served (section 9).

### Runs

| Run | Question | Result |
|-----|----------|--------|
| `dp_fg` | all of the above, two slots sharing three credits, requests of up to four and responses of up to three packets | holds |
| `dp_all` | the inductive invariant `IInv` (section 8) with background handlers and a backlog | holds |
| `dp_backlog` | is a backlogged request served? | violated: `process_resp_one_st` re-issues it without a header, and the client dies |

Bounds.  Two slots are the fewest that compete for credits.  Three credits and requests of four
packets cut a burst short and leave several packets of a slot in flight at once; responses of three
packets have a first, a middle and a last one, so that RFRs, CRs and the stall queue all occur in
one request; `MaxNum` = 2 requests per slot lets state of the first leak into the second.  The proofs
remove these bounds for everything but liveness.

Fairness.  Both event loops poll forever, so a packet of a slot that is deliverable is eventually
processed, the stall queue is looked at in every iteration and so are the background queues; a
request handler is assumed to respond.  These are the conjuncts of `Fairness`, all weak.  Nothing
is assumed about the application issuing requests; that it stops is a premise of what `RpcService`
promises, not of the model, and the requests issued until then are in any order with everything else.

## 3. SessionMgmt

A client Rpc, a server Rpc, the SM threads of both processes and the datagrams between them.  The
server Rpc may be created after the client's first request, be destroyed while sessions exist, and
be replaced by another with the same id.  A session is its state, the server's session number and
the callbacks made so far; ring entries are counted in sessions; a token is the session's number at
the client (the code draws 64 random bits).

| Model | Code |
|-------|------|
| `create_session_st`, `destroy_session_st` | `rpc_sm_api.cc` |
| `send_sm_req_st`, `sm_construct_resp` | `rpc_sm_helpers.cc`, `sm_types.h` |
| `sm_thread_client`, `sm_thread_server` | `nexus_sm_thread.cc` and UDP: queue the packet for its Rpc, or answer that there is none |
| `handle_sm_rx_client`, `handle_sm_rx_server` | `handle_sm_rx_st` and the four handlers, one operator per early return |
| `start_server`, `stop_server`, `unregister_hook` | constructor and destructor of `Rpc`; the destructor's two steps are separate, since the SM thread runs between them |

With `Duplicates`, a datagram stays in `udp` for ever, so every datagram may arrive any number of
times, in any order, arbitrarily late, or never; this covers loss and reordering as well.  Without
it, a datagram is removed when it arrives.  Nothing sends a request again: the packet loss scan,
which would, is called by nothing, and `sm_pending_reqs_` (`pending`) has no other reader.

| Run | Question | Result |
|-----|----------|--------|
| `sm_dup` | under every loss, duplication and reordering: ring entries accounted for at both ends (`RingAccounting`), one server session per token, two connected ends agree (`Agreement`), callbacks in a legal order, disconnect requests name the sender's session and their answers find a session that asked (`DisconnectsMatch`) | holds |
| `sm_restart` | accounting and callbacks when the server Rpc is destroyed and replaced | holds |
| `sm_live` | without loss, every connect and disconnect is answered, no server session is orphaned | holds |
| `sm_retry` | with `retry_connect_on_invalid_rpc_id_`, is a connect request that met no server Rpc sent again? (`RetriedLater`: "Scan will retry later", `rpc_connect_handlers.cc:147`) | violated: the request is dropped, and the session stays in `kConnectInProgress` for ever |

Bounds.  Two or three sessions against a ring for fewer make requests be refused and let one session
take the entries another has freed; a queue of one or two packets suffices for a packet to wait
behind another, since a longer queue only delays, and what is delayed may as well stay in `udp`.  Two
server objects are one replacement.

Fairness.  The two event loops read their queues (weak fairness), the server Rpc is eventually
created, and the SM thread receives every datagram that is in flight (weak, for each session and
type; the bounded queue, of which the event loop makes room, does not keep one out).  So `sm_live` is
about a network that loses nothing; over one that does, a lost request is lost for good.  The same
fairness holds in `sm_retry`, whose counterexample therefore is not a datagram that never arrives.

## 4. HugeAlloc

`alloc`, `free_buf`, `split` and `reserve_hugepages` on memory measured in units of the smallest
class.  Free lists are sequences, as in the code, because the last Buffer is the one taken.  The
SHM system calls are one operator, `alloc_raw_succeeds`, true while `Hugepages` last.  The largest
size is twice the size of the largest class, as in the header (16 MB and 8 MB).  What happens after
an index outside `freelist_` is undefined behaviour; the model stops there with `corrupt` set.

`msb_index(0)`, which every allocation of at most 64 bytes computes (`Rpc::alloc_buffer` makes such
ones, `rpc.h:152`), is 0 in its comment (`math_utils.h:34`); but `bsrl` leaves its destination
undefined for 0.  `BsrlOfZero` is the set of outcomes.  g++ (-O0 to -O3) gives source and destination
the same register, which the processors then leave unchanged, so the run has 0 alone.  With {0, 1}
`Conserved` and `LargeEnough` fail: the code depends on it.

| Run | Question | Result |
|-----|----------|--------|
| `ha_mixed` | Buffers never overlap, memory is conserved and the statistics agree with it, every Buffer is large enough, `get_class` agrees with `get_class_slow` for sizes above the smallest class | holds |

Bounds.  Three classes are the fewest in which a Buffer is split twice; 48 units allow two
reservations and the failure of a third; three Buffers with the user leave mixed free lists behind
when they are freed in any order.

## 5. IbTransport

One Rpc's dispatch thread, its TX batch and control headers, and the NIC's two queues.  The thread
runs the event loop in program order (`pc`); the NIC takes steps of its own at any moment.

| Model | Code |
|-------|------|
| `EnqueueData`, `Enqueue` | `enqueue_pkt_tx_burst_st`, `enqueue_hdr_tx_burst_st`: a full batch is sent at once |
| `RxBurst`, `ProcessPacket`, `PostRecvs` | `process_comps_st`, `rx_burst`, `post_recvs` |
| `enqueue_cr_st`, `enqueue_rfr_st`, `EnqueueHeader` | the functions of these names, which take turns with the control headers |
| `Drain`, `TxBurst` | the end of the event loop, `do_tx_burst_st`, `tx_burst` with `get_signaled_flag` |
| `DrainTxBatch`, `FlushPost`, `FlushPoll` | `drain_tx_batch_and_dma_queue`, `tx_flush`; called by the packet loss scan only, so not at all in this version |
| `NicSend`, `NicRecv`, `NicDrop` | the NIC (external): executes SENDs in order and completes the signaled ones; consumes the oldest RECV for a packet that arrives, and drops the packet when there is none |

Three flows are followed through it.  In the flow `cr` request packets arrive and their credit returns
leave; the packet is identified by its number from the ring entry to the control header to the wire,
so a header or ring entry used twice shows up as a wrong or repeated number.  In the flow `rfr`
requests-for-response leave, which use the same control headers.  In the flow `data` the packets of
messages are handed over and leave; the application hands them over between two iterations of the
event loop, a handler or continuation while packets are processed, and the stall queue after them.

* `SelectiveSignaling`: "*exactly one* *signaled* SEND work request" (comment in `tx_flush`) once a
  packet has been sent, and the SENDs not yet released fit in the SEND queue.
* `ReceiveRing`: the RECVs posted fall behind the credits that are out and the ring entries that
  `have_ring_entries` has not given away by at most `HeldBack` = `kPostlist` + `kRecvSlack` - 1, the
  burst at hand and what `post_recvs` keeps for later; and no RECV is posted for an entry whose packet
  has not been processed.
* `ImplementsFlow`: the refinement of `PacketFlow` with its liveness, so that no busy-wait for a
  completion is in vain.

Run `tx` checks these with a RECV queue of four, a SEND queue of six entries, `kUnsigBatch` 3, batches
and slack of 2, and four credits.  Seven packets turn the RECV ring almost twice and, with an RFR, the
ring of six control headers once and a third; two data packets shift the place of the control packets
in batches and signaling periods; one `tx_flush` resets `nb_tx` at any point of a period.

The credits fill the ring in this run, which `have_ring_entries` (`rpc.h:437`) and
`get_max_num_sessions` (`rpc.h:310`) allow: both count RECVs as if each were posted again at once.
Then packets are dropped (`NicDrop`), and with them their credits, since nothing retransmits.  The
bound of `ReceiveRing` is met with equality in some states.  With the numbers of the code, 32768
entries, 32 credits, bursts of 16 and a slack of 32, up to 47 RECVs may be missing, so an Rpc with 1023 or
1024 sessions may drop packets and one with fewer does not: the theorem `NoneDropped` (section 8).

Fairness.  The dispatch thread keeps running and the NIC executes what is posted (weak).  Nothing is
assumed about packets arriving or `tx_flush` being called.

## 6. Raft

The service of `apps/smr`: `willemt_raft/src/raft_server.c`, the RPC handlers and continuations in
`requestvote.h` and `appendentries.h`, and the server's loop and client handler in `server.h`.  A
handler runs to its end in one thread and is one action.

| Model | Code |
|-------|------|
| `PeriodicElection`, `PeriodicLeader`, `PeriodicApply` | `raft_periodic`, by what is due |
| `recv_requestvote`, `recv_requestvote_response`, `recv_appendentries`, `recv_appendentries_response` | the functions of these names, with the message each one answers or sends |
| `client_req_handler`, `recv_entry` | `client_req_handler`, `raft_recv_entry` |
| `AnswerClient` | the end of the loop in `server_func` |

Messages are RPC requests and responses, delivered in any order since they use different slots.  A
request may be lost (session not connected, or a failed RPC); the set of messages merges two equal
ones.  Time is left open: a server that does not lead may reach its election timeout at any moment.
A server that stops taking steps is a crashed one; nothing restarts, as `kUsePmem` is false.

* `ElectionSafety`, `LeaderCompleteness`, `MatchIsReplicated`: one leader per term; a leader has what
  was committed; what it believes of its peers' logs is so.
* `NoShutdown`: no message in flight leads to `RAFT_ERR_SHUTDOWN`, which ends the process, and
  `raft_recv_entry` never refuses what `client_req_handler` gives it.
* `ImplementsCommitLog`: the refinement of `CommitLog`; the log is that of the server that has
  committed most.

| Run | Question | Result |
|-----|----------|--------|
| `raft` | `LeaderCompleteness`, `NoShutdown`, `ImplementsCommitLog` with three servers, three elections, two requests | holds |
| `raft_stale` | `ElectionSafety`, `MatchIsReplicated`, `ImplementsCommitLog` with two elections, two requests, which start while a message is in flight | holds |

Bounds.  Three servers are the fewest with a majority that is not everyone.  Three elections let a
leader be replaced twice, so that a server comes back with an entry of its own that others lack.  The
case in which an entry of an old term is on a majority, must not be counted, and is overwritten takes
four; the runs do not reach it, and the theorems of section 8 are what covers it.
`MaxMsgs` bounds the messages in flight when an election or a request adds more, and
`MaxMsgsPeriodic` those in flight when a leader sends heartbeats (0 in both runs: only when there is
none); the code has neither bound.  Within these, every order and every loss is explored.  In
`raft` nothing else is under way when an election starts, in `raft_stale` one message is, and
then more are.  Servers are symmetric.  The proofs take both bounds to be any number.  The assertion on
the size of a message (`appendentries.h:194`) is not modelled; messages have any number of entries.

## 7. FixedTable

MICA's `FixedTable` with concurrent readers and writers: `set`, `del` and `get` on buckets with chains
of extra buckets from a shared free list.  One step is one store a reader can see, or one load of a
reader; what a writer only reads is protected by its lock and read in the step that takes it.  The
memory barriers keep the program's order.  A call first has to get the lock of its bucket
(`LockSet`, `LockDel`), for which it spins while another thread has it.

| Model | Code |
|-------|------|
| `Set`, `LockSet`, `NoExtra`, `Alloc`, `Link`, `SetKey`, `SetValue`, `Unlock` | `set`, `lock_bucket`, `get_empty`, `alloc_extra_bucket`, `set_item`, `unlock_bucket` |
| `Del`, `LockDel`, `Erase`, `FillHole`, `MoveKey`, `MoveValue`, `Moved`, `Detach`, `Push` | `del`, `fill_hole`, `free_extra_bucket` |
| `Get`, `GetBegin`, `GetFind`, `GetNext`, `GetFollow`, `GetCopy`, `GetEnd` | `get`, `find_item_index`, `get_extra_bucket`, `read_version_begin`, `read_version_end` |

A reader loads the link of a bucket twice, to see that there is one (`GetNext`, `bucket.h:224`) and to
follow it (`GetFollow`, line 225).  A writer may have cleared it in between; the index 0 is then that of
`extra_buckets_[0]`, which is the last main bucket (`LastMain`, `init.h:60`), and the reader goes on in
there until it finds that the version has changed.

Run `table` checks that a bucket nobody holds contains exactly what the completed calls left
(`ContentsMatch`), that no extra bucket is lost or in two chains (`ExtraInOnePlace`), that the whole
implements `KeyValueMap` (`ImplementsMap`), and that once no more calls are made, every call returns
(`CallsReturn`); as long as others keep taking the lock, a spinning thread may wait for ever.

Bounds.  Two main buckets, one with three keys and one with two, and two extra buckets make the buckets
take them from each other, run out of them, and reuse them under a reader.  Three keys are set before
the table is shared (`Load`): one bucket then has an extra bucket and the other needs one for its next
key.  Two more calls of `set` or `del` and one of `get` by two threads follow, in all interleavings.
Among them are a writer that takes an extra bucket while another frees one, a writer that waits
for a lock, a reader that is led into the other chain, the free list and the last main bucket.  Every
write has its own value, so a reader that mixes two writes is seen.  Buckets hold one item here; the
branches that look at a second item of a bucket are in the model but not reached by this instance.
Versions do not wrap.

Fairness.  A thread inside a call keeps running (weak).

## 8. Proofs

TLAPS proves, for every value of the constants, the safety properties that the runs check of
`Datapath`, `SessionMgmt`, `IbTransport` and `Raft`, and that three of them implement their abstract
modules as far as safety goes.  What is assumed are the named `ASSUME`s of the modules, which TLC
evaluates in the runs, and the hypotheses in the table; a configuration is a choice of constants, so
each of these hypotheses holds in a run.

| Module | Theorem | Statement | Hypotheses |
|--------|---------|-----------|------------|
| `DatapathLemmas` | `TypeCorrect` | `[]TypeOK` | |
| `DatapathProofs` | `Invariance`, `CreditsConserved`, `SlotsDisciplined`, `WakeupsNotLost`, `NoReordering` | `[]IInv`, `[]CreditConservation`, `[]SlotDiscipline`, `[]NoLostWakeup`, `[]PacketsInOrder` | in-order network |
| | `NoNull` | `[]NoNullDereference` | in-order network, no backlog, no background threads |
| | `Refinement` | the safety part of `RpcService` | in-order network, no background threads |
| `SessionMgmtProofs` | `Invariance`, `TypeCorrect`, `RingAccounted`, `TokensUnique`, `CallbacksOrdered` | `[]IInv`, `[]TypeOK`, `[]RingAccounting`, `[]OneSessionPerToken`, `[]CallbackOrder` | |
| | `Stability`, `Agreed`, `DisconnectsMatched` | `[]StableInv`, `[]Agreement`, `[]DisconnectsMatch` | the server Rpc is not destroyed |
| | `NoneOrphaned` | `[]NoOrphan` | no duplicates |
| `IbTransportProofs` | `Invariance`, `TypeCorrect`, `SendsFit`, `RingServes` | `[]IInv`, `[]TypeOK`, `[]SelectiveSignaling`, `[]ReceiveRing` | |
| | `NoneDropped` | `[](dropped = 0)` | the sessions leave `kPostlist` + `kRecvSlack` - 1 ring entries free |
| | `FlowsInOrder` | the safety part of `PacketFlow` | |
| `RaftProofs` | `Invariance`, `TypeCorrect`, `OneLeader`, `LeadersComplete`, `NoServerShutsDown`, `MatchesReplicated` | `[]IInv`, `[]TypeOK`, `[]ElectionSafety`, `[]LeaderCompleteness`, `[]NoShutdown`, `[]MatchIsReplicated` | |
| | `OneLog` | `ImplementsCommitLog` | |

The hypotheses mark where the code is not right, or promises nothing, without them.  An
in-order network is needed because no check of the order is left; a backlogged request kills the
client (`dp_backlog`) and background handlers are not served (section 9); a server Rpc that has been
replaced knows nothing of the sessions of the old one; a connect request that arrives twice can
leave a server session without a client; credits for all ring entries let packets be dropped.

### Datapath

`CreditConservation` is not inductive: whether a packet that arrives takes the branch
that returns a credit depends on the counters of the slot at both ends.  `IInv` therefore says what
a slot looks like.  It is idle, with no packet of it anywhere and the server done with its last
request; or it is busy, and then its packets are numbered by a sliding window: request packets
first, then RFRs, numbered 0 .. `num_tx - 1`, each with one answer (a CR or a response packet).
There is a `lo` such that the answers below `lo` have been received, the answers from `lo` up to
what the server has received are in flight, and the rest of the packets up to `num_tx` are in
flight to the server (`Window`).  On an in-order network the next packet delivered is the first of
the window (`FirstSent`, `FirstReply`), so every handler moves one boundary by one, and every credit
is spent or returned where the window grows or shrinks.  `NoLostWakeup` follows: a busy slot whose
window is empty has packets left to send and is in the stall queue.  So does `PacketsInOrder`: the
first packet of the window is the one each end expects.

`DatapathLemmas` has the types, the facts about windows and the client's actions; `DatapathProofs`
the server's actions and the theorems.  For the refinement the invariant gains what the messages
hold (`RInv`): the packets that either end has assembled are 0, 1, 2, ... up to its counter.  A
handler's step is then a step of `RpcService` for its slot, and every other step a stutter.

### SessionMgmt

`IInv` has three parts: the client's sessions with the share of the ring they hold and the callbacks
made, the same at the server with the token map, and for every packet in flight or queued what it
says about the session it names.  Sessions and callbacks only move forward, so a packet that arrives
late is about a state that has been passed, and the handlers' early returns cover it.  `StableInv`
adds, while the server Rpc lives, that a packet or a client session that names a server session
names the one made for it, and that a server session is buried only after its client has asked for
that.  `OnceInv`, for a network that duplicates nothing, says that each session has at most one packet on
its way, and which one goes with which states of the two ends.

### IbTransport

`IInv` accounts for five things.

* The ring (`RingInv`).  From `rx_ring_head` on there are, in this order, the entries of packets
  that wait, of RECVs posted, and of RECVs to be posted again (left over from earlier bursts, then
  those of this burst), and these are all `kRQDepth` entries.  The entries that wait hold the next
  packets of their flow.
* The control headers (`CtrlInv`).  A header in the batch is at most as old as the batch is long, and
  the ring of headers is twice `kUnsigBatch` long, so the one filled in next is not in the batch.
* The packets (`FlowInv`).  SEND queue and batch together hold of each flow exactly the packets that
  were handed over and have not left, in order.
* The signals (`SendInv`).  Nothing was sent since the last flush; or the one signaled SEND is in the
  queue with at most `kUnsigBatch` SENDs up to it and `Since` behind it; or it has completed and
  `Since` SENDs are outstanding; or the flush's own SEND is.  `Since` is a function of `nb_tx` modulo
  `kUnsigBatch`, so the next signaled SEND finds its completion due.
* The event loop (`LoopInv`): where the thread is, and the types.

All of this follows from the static assertions of the code and from what `have_ring_entries` ensures,
that the credits are no more than the ring entries.  `RingServes` counts: the entries not posted are
those that wait and those to be posted again, of which the first are credits that are not out and
the others at most a burst and the slack.  `NoneDropped` is its corollary where so many
entries are free of credits.

### Raft

The servers forget what the usual argument speaks of: a vote when the term grows, a leader's log when
it steps down, an acknowledgement of an earlier term.  The code keeps no trace of it, and no
history variable was added to `Raft`.  Instead the invariant says that *there is* a history
(`RaftHistory`) of votes, leaders, leaders' logs and acknowledgements that explains the state, and
each handler's lemma gives the history of the next state.  Its parts are `ElectInv` (one vote for
each server and term, a majority for each leader), `LogInv` (log matching, and what append messages
carry), `AckInv` (what has been stored at a leader's request), `KeepInv`, `CommitInv` and
`RequestInv` (no request twice in a log).

`KeepInv` is the heart: an entry that the leader of its term made is *blocked* once a majority has left
that term without it; until then every later leader has it, every server that acknowledged it has
it, and so does every candidate such a server has voted for.  An entry stored by a majority can never
be blocked, since two majorities meet, so it is in every later leader's log; this gives
`LeaderCompleteness`, `NoShutdown` and the agreement of what servers commit.

`OneLog`: the log of the abstract service is that of the server that has committed most.  Committed
prefixes agree and are never truncated (`Keeps`), so it only grows; a server applies entries up to
its own `commit_idx`, so it executes a prefix; the request a client is told about is the entry at
the place noted for it.

`RaftLemmas` has facts about logs, majorities and histories, the periodic steps and the handlers of
votes; `RaftSteps` the election of a leader and what a client's request means for each part of the
invariant; `RaftReplication` the request itself, append messages and their answers; `RaftProofs` the
theorems.

### Only model-checked

* Liveness, which needs fairness and ENABLED: that of `RpcService` and `PacketFlow`,
  `ConnectAnswered`, `DisconnectAnswered`, `CallsReturn`.
* `HugeAlloc`: what `SplitDown` and the sums over free lists compute needs induction over data.
* `FixedTable`: chains of buckets are a recursive operator, which the prover does not take.

## 9. Differences between the code and its comments and tests

Two have a run and are listed as findings: `dp_backlog` and `sm_retry`.  Others that are visible in the lines named,
and in the behaviours of the models:

* A lost packet is never sent again: `pkt_loss_scan_st` is commented out (`rpc_ev_loop.cc:41`), while
  `rpc.h:221` has the event loop "retransmitting lost packets".  `tx_flush` and
  `drain_tx_batch_and_dma_queue` are reached only from there, and `tx_flush` asserts an opcode
  (`ib_transport_datapath.cc:133`) that `init_sends` does not set (`ib_transport.cc:284`).
* A connect request that is refused for want of ring entries and arrives again after some were
  freed is accepted the second time; the client has given up, and the server's session stays
  (`rpc_connect_handlers.cc:155`, `:159`).
* `get_class` of a Buffer of `k_max_class_size` is past the last of the free lists
  (`huge_alloc.h:63`), and `huge_alloc_test.cc:145` frees such Buffers.

* A one-packet request for a background handler is never answered: `process_small_req_st` sets
  `req_type_` and the branch that submits it is commented out (`rpc_req.cc:145`; `sslot.h:96`).
* The previous response is not buried before the handler runs (`rpc_req.cc:128`), against the
  assertion at `rpc_resp.cc:85`.
* `is_next_pkt_same_req` is computed and not used (`rpc_req.cc:169`): a packet that overtakes another
  is appended, where `tests/protocol_tests/rpc_req_test.cc:96` expects it to be dropped.
* A late copy of a connect response removes a session from `sm_pending_reqs_` while its disconnect
  request is outstanding (`rpc_sm_helpers.cc:22`; `rpc.h:980`).
* With `retry_connect_on_invalid_rpc_id_`, which `apps/smr/server.h:179` sets, the retry is left to a
  scan that is not called (`rpc_connect_handlers.cc:149`, `rpc_ev_loop.cc:44`): run `sm_retry`.
* Continuations run in `process_comps_st` and may issue requests, which take the credits just returned
  before `process_credit_stall_queue_st` looks at the slots that wait (`rpc_ev_loop.cc:19`): if they
  always do, a stalled request is never sent.
* A comment at `rpc_req.cc:191` says that there is a problem when a request has three packets and the
  response one.  `dp_fg` and the proofs include that case, as they do every other pair of sizes; in
  the model such a request is answered and its credits return.
* Sessions may be given all ring entries (`rpc.h:437`, `rpc.h:310`) although `post_recvs` holds some back,
  so that the last two sessions of an Rpc may lose packets (section 5).
* `msb_index` relies on a register that the instruction leaves undefined (`math_utils.h:34`, section 4).
* A reader of `FixedTable` may load the index 0 the second time (`bucket.h:225`), against the assertion
  at `bucket.h:46`; without assertions it is harmless (section 7).
* A disconnect request to an Rpc that has gone is answered with an error (`nexus_sm_thread.cc:50`),
  against "Disconnects don't fail" (`rpc_disconnect_handlers.cc:67`); one to an Rpc that has been
  replaced names a session of the old one (`rpc_disconnect_handlers.cc:25`).
* Ring entries are freed when the disconnect response arrives (`rpc_disconnect_handlers.cc:91`), not
  "before sending the disconnect request" (line 60).
* `reserve_hugepages` puts Buffers of 16 MB into the list of the 8 MB class, so every Buffer split
  from them has twice its class size, against the assertion at `huge_alloc.h:188`.

* `process_small_req_st` and `process_large_req_one_st` keep pointers into ring buffers in an
  iovector, and `rpc.h:766` says that ring buffers must not be used after `post_recvs`.
* The timing wheel is never filled: the call is commented out (`rpc_kick.cc:26`).
* A request accepted by a leader whose entry is then replaced fails the assertion at
  `apps/smr/server.h:256`; without assertions its client is never answered.
* `leader_saveinfo` holds one request (`apps/smr/server.h:147`), so one client at a time is served.

## 10. What is not modelled and what is left

About half of the lines in the repository are generated Protobuf and FlatBuffers code and a copy of
rapidjson; they are not modelled, and neither are benchmarks, tests, device set-up and the other
transports.  Of the library and the applications these parts have state that a model could follow:

1. `DisconnectSafe` of `Datapath`: once all slots are free nothing of the session is in flight, which
   is what `destroy_session` and the server's assertion in `handle_disconnect_req_st` rely on; and a
   module that composes the two.
2. The packet loss scan, once it is called again: roll back and retransmit against late answers.
3. `HeartbeatMgr`, `TimingWheel` with `MemPool`, the background threads with `MtQueue`.
4. Framing of messages into packets, serialiser and deserialiser over bounded messages.
5. Snapshots, membership changes and persistence of Raft; `FixedTable` with two items in a bucket.
