------------------------------ MODULE RaftProofs ------------------------------
(***************************************************************************)
(* The theorems about Raft: RaftHistory's invariant holds, and what follows*)
(* from it.                                                                *)
(***************************************************************************)
EXTENDS RaftReplication, RaftService

(* At the start nobody has voted, led or stored anything.                  *)
LEMMA InitInv == Init => IInv
<1> SUFFICES ASSUME Init PROVE IInv
  BY Zenon
<1>0. /\ state = [s \in Servers |-> "follower"] /\ current_term = [s \in Servers |-> 0]
      /\ voted_for = [s \in Servers |-> None] /\ current_leader = [s \in Servers |-> None]
      /\ votes = [s \in Servers |-> {}]
      /\ next_idx = [s \in Servers |-> [p \in Servers |-> 1]]
      /\ match_idx = [s \in Servers |-> [p \in Servers |-> 0]]
      /\ log = [s \in Servers |-> <<>>]
      /\ commit_idx = [s \in Servers |-> 0] /\ applied = [s \in Servers |-> 0]
      /\ sav = [s \in Servers |-> NoReq]
      /\ accepted = 0 /\ elections = 0 /\ msgs = {}
  BY Zenon DEF Init
<1>1. TypeInv
  <2>1. NoReq \in [req : Nat, idx : Nat, term : Nat]
    BY Zenon DEF NoReq
  <2>2. next_idx \in [Servers -> [Servers -> Nat \ {0}]] /\ match_idx \in [Servers -> [Servers -> Nat]]
    BY <1>0
  <2>3. log \in [Servers -> Seq(Entry)] /\ sav \in [Servers -> [req : Nat, idx : Nat, term : Nat]]
    BY <1>0, <2>1
  <2> QED
    BY <1>0, <2>2, <2>3 DEF TypeInv
<1>2. PICK v, l, g, a : /\ v = [p \in Servers |-> [T \in Nat |-> None]] /\ l = [T \in Nat |-> None]
                        /\ g = [T \in Nat |-> <<>>] /\ a = [p \in Servers |-> [T \in Nat |-> 0]]
  BY Zenon
<1>3. PICK h : h = [vote |-> v, lead |-> l, llog |-> g, acc |-> a]
  BY Zenon
<1>4. h \in Hist
  <2>1. /\ v \in [Servers -> [Nat -> Servers \cup {None}]] /\ l \in [Nat -> Servers \cup {None}]
        /\ g \in [Nat -> Seq(Entry)] /\ a \in [Servers -> [Nat -> Nat]]
    BY <1>2
  <2> QED
    BY Zenon, <1>3, <2>1 DEF Hist
<1>5. h.vote = v /\ h.lead = l /\ h.llog = g /\ h.acc = a
  BY Zenon, <1>3
<1>6. /\ \A p \in Servers, T \in Nat : h.vote[p][T] = None /\ h.acc[p][T] = 0
      /\ \A T \in Nat : h.lead[T] = None /\ h.llog[T] = <<>> /\ ~ Elected(h, T)
  BY <1>2, <1>5 DEF Elected
<1>7. \A s \in Servers : /\ state[s] = "follower" /\ current_term[s] = 0 /\ voted_for[s] = None
                         /\ current_leader[s] = None /\ log[s] = <<>> /\ commit_idx[s] = 0
                         /\ applied[s] = 0 /\ sav[s] = NoReq
  BY Zenon, <1>0
<1>8. ElectInv(h)
  BY Zenon, <1>0, <1>6, <1>7, ServerAssumption DEF ElectInv
<1>9. LogInv(h)
  BY <1>0, <1>6, <1>7 DEF LogInv, Follows
<1>10. AckInv(h)
  BY <1>0, <1>6, <1>7 DEF AckInv, Agree
<1>11. KeepInv(h)
  BY <1>6 DEF KeepInv, Own
<1>12. CommitInv(h)
  BY <1>0, <1>7 DEF CommitInv, ChosenPrefix
<1>13. RequestInv(h)
  BY <1>0, <1>6, <1>7 DEF RequestInv
<1> QED
  BY Zenon, <1>1, <1>4, <1>8, <1>9, <1>10, <1>11, <1>12, <1>13 DEF IInv, Explains

LEMMA StutterStep ==
    ASSUME NEW h \in Hist, TypeInv, Explains(h), UNCHANGED vars
    PROVE  TypeInv' /\ Explains(h)'
<1>1. UNCHANGED <<raft, peers, logs, sav, clientvars, elections, msgs>>
  BY Zenon DEF vars
<1>2. TypeInv'
  <2>1. \A m \in msgs' : Message(m)'
    BY <1>1, MessageStays DEF TypeInv
  <2> QED
    BY Zenon, <1>1, <2>1 DEF TypeInv, raft, peers, logs, clientvars
<1>3. \A t \in Servers : Same(t)
  BY Zenon, <1>1 DEF Same, raft, peers, logs
<1>4. PICK s : s \in Servers
  <2>1. Servers # {}
    BY ServerAssumption, FS_EmptySet
  <2> QED
    BY Zenon, <2>1
<1>5. Fine(h, h, s)
  BY Zenon, <1>3, <1>4, Still, SameFine
<1>6. accepted <= accepted' /\ \A m \in msgs' : m \in msgs
  BY <1>1 DEF clientvars, TypeInv
<1> QED
  BY Zenon, <1>2, <1>3, <1>4, <1>5, <1>6, QuietStep

LEMMA ClientStep ==
    ASSUME NEW h \in Hist, TypeInv, Explains(h), NEW s \in Servers, client_req_handler(s)
    PROVE  TypeInv' /\ \E h2 \in Hist : Explains(h2)'
<1>1. CASE UNCHANGED vars
  BY Zenon, <1>1, StutterStep
<1>2. CASE /\ state[s] = "leader" /\ recv_entry(s, accepted + 1)
           /\ sav' = [sav EXCEPT ![s] = [req |-> accepted + 1,
                                         idx |-> Len(log'[s]), term |-> current_term[s]]]
           /\ accepted' = accepted + 1
           /\ UNCHANGED <<raft, peers, commit_idx, applied, acked, elections>>
  BY Zenon, <1>2, RecvEntryStep
<1> QED
  BY Zenon, <1>1, <1>2 DEF client_req_handler

(* Every step leaves a history that explains the state.                    *)
LEMMA NextInv == IInv /\ [Next]_vars => IInv'
<1> SUFFICES ASSUME IInv, [Next]_vars PROVE IInv'
  BY Zenon
<1>1. TypeInv
  BY Zenon DEF IInv
<1>2. PICK h \in Hist : Explains(h)
  BY Zenon DEF IInv
<1> SUFFICES TypeInv' /\ \E h2 \in Hist : Explains(h2)'
  BY Zenon DEF IInv
<1>3. ASSUME NEW s \in Servers, PeriodicElection(s) PROVE TypeInv' /\ \E h2 \in Hist : Explains(h2)'
  BY Zenon, <1>1, <1>2, <1>3, PeriodicElectionStep
<1>4. ASSUME NEW s \in Servers, PeriodicLeader(s) PROVE TypeInv' /\ \E h2 \in Hist : Explains(h2)'
  BY Zenon, <1>1, <1>2, <1>4, PeriodicLeaderStep
<1>5. ASSUME NEW s \in Servers, PeriodicApply(s) PROVE TypeInv' /\ \E h2 \in Hist : Explains(h2)'
  <2>1. /\ apply_all(s) /\ UNCHANGED <<raft, peers, log, commit_idx, accepted, elections, msgs>>
        /\ sav' = sav
    BY Zenon, <1>5 DEF PeriodicApply, clientvars
  <2> QED
    BY Zenon, <1>1, <1>2, <2>1, ApplyStep
<1>6. ASSUME NEW s \in Servers, AnswerClient(s) PROVE TypeInv' /\ \E h2 \in Hist : Explains(h2)'
  <2>1. /\ apply_all(s) /\ UNCHANGED <<raft, peers, log, commit_idx, accepted, elections, msgs>>
        /\ sav' = [sav EXCEPT ![s] = NoReq]
    BY Zenon, <1>6 DEF AnswerClient
  <2> QED
    BY Zenon, <1>1, <1>2, <2>1, ApplyStep
<1>7. ASSUME NEW s \in Servers, client_req_handler(s) PROVE TypeInv' /\ \E h2 \in Hist : Explains(h2)'
  BY <1>1, <1>2, <1>7, ClientStep
<1>8. ASSUME NEW m \in msgs, Receive(m) PROVE TypeInv' /\ \E h2 \in Hist : Explains(h2)'
  <2>1. PICK s \in Servers : s = m.to
    BY Zenon, <1>1, MessageTypes DEF TypeInv
  <2>2. CASE \E late \in BOOLEAN : recv_requestvote(s, m, late)
    BY Zenon, <1>1, <1>2, <2>2, RequestVoteStep
  <2>3. CASE recv_requestvote_response(s, m)
    BY Zenon, <1>1, <1>2, <2>3, VoteResponseStep
  <2>4. CASE recv_appendentries(s, m)
    BY Zenon, <1>1, <1>2, <2>4, AppendEntriesStep
  <2>5. CASE recv_appendentries_response(s, m)
    BY <1>1, <1>2, <2>5, AppendResponseStep
  <2> QED
    BY Zenon, <1>8, <2>1, <2>2, <2>3, <2>4, <2>5 DEF Receive
<1>9. CASE UNCHANGED vars
  BY Zenon, <1>1, <1>2, <1>9, StutterStep
<1> QED
  BY Zenon, <1>3, <1>4, <1>5, <1>6, <1>7, <1>8, <1>9 DEF Next

(* The servers' states always have a history: one leader in each term,     *)
(* logs made by leaders, acknowledgements that were given, and entries     *)
(* that a majority has stored kept by every later leader.  All handlers of *)
(* raft_server.c, for any number of servers, elections and requests.       *)
THEOREM Invariance == Spec => []IInv
BY InitInv, NextInv, PTL DEF Spec

-------------------------------------------------------------------------------
(* Two servers never lead the same term (raft_recv_requestvote grants one  *)
(* vote a term, raft_become_leader needs a majority of them).              *)
THEOREM OneLeader == Spec => []ElectionSafety
BY Invariance, SafeElections, PTL

(* A leader has every entry that a server of its term or before has        *)
(* committed (__should_grant_vote, and the term test before the commit in  *)
(* raft_recv_appendentries_response).                                      *)
THEOREM LeadersComplete == Spec => []LeaderCompleteness
BY Invariance, SafeCommits, PTL

(* The rt_asserts of appendentries_handler and client_req_handler do not   *)
(* fail: no leader contradicts a committed entry, and current_leader names *)
(* a server itself exactly when it is the leader.                          *)
THEOREM NoServerShutsDown == Spec => []NoShutdown
BY Invariance, NeverShutDown, PTL

(* The match_idx by which a leader counts majorities is true of the log of *)
(* every peer that is still in the leader's term.                          *)
THEOREM MatchesReplicated == Spec => []MatchIsReplicated
BY Invariance, TrueMatches, PTL

-------------------------------------------------------------------------------
(* Types.                                                                  *)

(* Only a leader changes what it believes of its peers.                    *)
PeersMove(s) ==
    \/ next_idx'[s] = next_idx[s] /\ match_idx'[s] = match_idx[s]
    \/ /\ state'[s] = "leader"
       /\ next_idx'[s][s] = next_idx[s][s] /\ match_idx'[s][s] = match_idx[s][s]

LEMMA PeersStep ==
    ASSUME IInv, [Next]_vars PROVE \A s \in Servers : PeersMove(s)
<1>0. TypeInv
  BY Zenon DEF IInv
<1>1. CASE UNCHANGED peers
  BY Zenon, <1>1 DEF peers, PeersMove
<1>2. ASSUME NEW s \in Servers, NEW m \in msgs, BecomeLeader(s, m) PROVE \A t \in Servers : PeersMove(t)
  <2>1. /\ state' = [state EXCEPT ![s] = "leader"]
        /\ next_idx' = [next_idx EXCEPT ![s] =
              [p \in Servers |-> IF p = s THEN next_idx[s][p] ELSE Len(log[s]) + 1]]
        /\ match_idx' = [match_idx EXCEPT ![s] = [p \in Servers |-> IF p = s THEN match_idx[s][p] ELSE 0]]
    BY Zenon, <1>2 DEF BecomeLeader
  <2>2. state'[s] = "leader"
    BY Zenon, <1>0, <2>1 DEF TypeInv
  <2>3. next_idx'[s][s] = next_idx[s][s] /\ match_idx'[s][s] = match_idx[s][s]
    BY Zenon, <1>0, <2>1 DEF TypeInv
  <2>4. \A t \in Servers \ {s} : next_idx'[t] = next_idx[t] /\ match_idx'[t] = match_idx[t]
    BY Zenon, <1>0, <2>1 DEF TypeInv
  <2> QED
    BY Zenon, <2>2, <2>3, <2>4 DEF PeersMove
<1>3. ASSUME NEW s \in Servers, NEW d \in Peers(s), NEW n, state[s] = "leader", state' = state,
             next_idx' = [next_idx EXCEPT ![s][d] = n],
             match_idx' = match_idx \/ \E k : match_idx' = [match_idx EXCEPT ![s][d] = k]
      PROVE  \A t \in Servers : PeersMove(t)
  <2>1. d \in Servers /\ d # s
    BY Zenon, <1>3 DEF Peers
  <2>2. next_idx'[s][s] = next_idx[s][s] /\ match_idx'[s][s] = match_idx[s][s]
    <3>1. next_idx'[s][s] = next_idx[s][s]
      BY Zenon, <1>0, <1>3, <2>1 DEF TypeInv
    <3>2. CASE \E k : match_idx' = [match_idx EXCEPT ![s][d] = k]
      <4>1. PICK k : match_idx' = [match_idx EXCEPT ![s][d] = k]
        BY Zenon, <3>2
      <4> QED
        BY <1>0, <2>1, <3>1, <4>1 DEF TypeInv
    <3> QED
      BY Zenon, <1>3, <3>1, <3>2
  <2>3. \A t \in Servers \ {s} : next_idx'[t] = next_idx[t] /\ match_idx'[t] = match_idx[t]
    BY Zenon, <1>0, <1>3, <2>1 DEF TypeInv
  <2> QED
    BY Zenon, <1>3, <2>2, <2>3 DEF PeersMove
<1>4. ASSUME NEW m \in msgs, Receive(m) PROVE \A t \in Servers : PeersMove(t)
  <2>1. PICK s \in Servers : s = m.to /\ m.from \in Peers(s)
    BY Zenon, <1>0, MessageTypes DEF TypeInv, Peers
  <2>2. CASE recv_requestvote_response(s, m)
    BY Zenon, <1>1, <1>2, <2>2 DEF recv_requestvote_response
  <2>3. CASE recv_appendentries_response(s, m)
    <3>1. CASE UNCHANGED raft /\ state[s] = "leader" /\ UNCHANGED match_idx
               /\ \E n : next_idx' = [next_idx EXCEPT ![s][m.from] = n]
      BY Zenon, <1>3, <2>1, <3>1 DEF raft
    <3>2. CASE /\ UNCHANGED raft /\ state[s] = "leader"
               /\ next_idx' = [next_idx EXCEPT ![s][m.from] = m.idx + 1]
               /\ match_idx' = [match_idx EXCEPT ![s][m.from] = m.idx]
      BY Zenon, <1>3, <2>1, <3>2 DEF raft
    <3> QED
      BY Zenon, <1>1, <2>3, <3>1, <3>2 DEF recv_appendentries_response, peers
  <2>4. CASE (\E late \in BOOLEAN : recv_requestvote(s, m, late)) \/ recv_appendentries(s, m)
    BY Zenon, <1>1, <2>4 DEF recv_requestvote, recv_appendentries
  <2> QED
    BY Zenon, <1>4, <2>1, <2>2, <2>3, <2>4 DEF Receive
<1>5. ASSUME NEW s \in Servers,
             \/ PeriodicElection(s) \/ PeriodicLeader(s) \/ PeriodicApply(s)
             \/ AnswerClient(s) \/ client_req_handler(s)
      PROVE  UNCHANGED peers
  BY Zenon, <1>5 DEF PeriodicElection, PeriodicLeader, PeriodicApply, AnswerClient, client_req_handler, vars
<1>6. CASE UNCHANGED vars
  BY Zenon, <1>1, <1>6 DEF vars
<1> QED
  BY Zenon, <1>1, <1>4, <1>5, <1>6 DEF Next

(* The messages a server sends to its peers are finitely many.             *)
LEMMA FinitelyMany ==
    ASSUME NEW S, NEW V, NEW f \in [S -> V], IsFiniteSet(S)
    PROVE  IsFiniteSet({f[x] : x \in S})
<1>1. PICK R : R = {f[x] : x \in S}
  BY Zenon
<1>2. f \in Surjection(S, R)
  <2>1. f \in [S -> R]
    BY Zenon, <1>1
  <2> QED
    BY Zenon, <1>1, <2>1 DEF Surjection
<1> QED
  BY Zenon, <1>1, <1>2, FS_Surjection

LEMMA PeerMessages ==
    ASSUME NEW s \in Servers, NEW f, f = [d \in Peers(s) |-> f[d]]
    PROVE  IsFiniteSet({f[d] : d \in Peers(s)})
<1>1. IsFiniteSet(Peers(s))
  BY Zenon, ServerAssumption, FS_Subset DEF Peers
<1>2. PICK V : V = {f[d] : d \in Peers(s)}
  BY Zenon
<1>3. f \in [Peers(s) -> V]
  BY Zenon, <1>2
<1> QED
  BY Zenon, <1>1, <1>3, FinitelyMany

LEMMA MsgsFinite ==
    ASSUME IInv, IsFiniteSet(msgs), [Next]_vars PROVE IsFiniteSet(msgs')
<1>0. TypeInv
  BY Zenon DEF IInv
<1>1. ASSUME NEW F, IsFiniteSet(F), msgs' \subseteq msgs \cup F PROVE IsFiniteSet(msgs')
  <2>1. IsFiniteSet(msgs \cup F)
    BY Zenon, <1>1, FS_Union
  <2> QED
    BY Zenon, <1>1, <2>1, FS_Subset
<1>2. CASE msgs' \subseteq msgs
  BY Zenon, <1>2, FS_Subset
<1>3. ASSUME NEW x, msgs' \subseteq msgs \cup {x} PROVE IsFiniteSet(msgs')
  BY Zenon, <1>1, <1>3, FS_Singleton
<1>4. ASSUME NEW s \in Servers, PeriodicElection(s) PROVE IsFiniteSet(msgs')
  <2>1. PICK f : f = [d \in Peers(s) |-> RequestVote(s, d, current_term[s] + 1, log[s])]
    BY Zenon
  <2>2. PICK F : F = {f[d] : d \in Peers(s)}
    BY Zenon
  <2>3. msgs' \subseteq msgs \cup F
    BY Zenon, <1>4, <2>1, <2>2 DEF PeriodicElection, Sent
  <2>4. f = [d \in Peers(s) |-> f[d]]
    BY Zenon, <2>1
  <2> QED
    BY Zenon, <1>1, <2>2, <2>3, <2>4, PeerMessages
<1>5. ASSUME NEW s \in Servers, PeriodicLeader(s) PROVE IsFiniteSet(msgs')
  <2>1. PICK f : f = [d \in Peers(s) |->
                        AppendEntries(s, d, current_term[s], log[s], next_idx[s][d], commit_idx[s])]
    BY Zenon
  <2>2. PICK F : F = {f[d] : d \in Peers(s)}
    BY Zenon
  <2>3. msgs' \subseteq msgs \cup F
    BY Zenon, <1>5, <2>1, <2>2 DEF PeriodicLeader, Sent
  <2>4. f = [d \in Peers(s) |-> f[d]]
    BY Zenon, <2>1
  <2> QED
    BY <1>1, <2>2, <2>3, <2>4, PeerMessages
<1>6. ASSUME NEW s \in Servers, client_req_handler(s) PROVE IsFiniteSet(msgs')
  <2>0. CASE UNCHANGED vars
    BY <1>2, <2>0 DEF vars
  <2>1. CASE recv_entry(s, accepted + 1)
    <3>1. PICK lg : lg = Append(log[s], [term |-> current_term[s], req |-> accepted + 1])
      BY Zenon
    <3>2. PICK f : f = [d \in Peers(s) |->
                          AppendEntries(s, d, current_term[s], lg, next_idx[s][d], commit_idx[s])]
      BY Zenon
    <3>3. PICK F : F = {f[d] : d \in Peers(s)}
      BY Zenon
    <3>4. msgs' \subseteq msgs \cup F
      <4>1. PICK ok \in SUBSET {AppendEntries(s, d, current_term[s], lg, next_idx[s][d], commit_idx[s]) :
                                   d \in {p \in Peers(s) : next_idx[s][p] = Len(lg)}} :
               msgs' = msgs \cup ok
        BY Zenon, <2>1, <3>1 DEF recv_entry, Sent
      <4> QED
        BY Zenon, <3>2, <3>3, <4>1
    <3>5. f = [d \in Peers(s) |-> f[d]]
      BY Zenon, <3>2
    <3> QED
      BY <1>1, <3>3, <3>4, <3>5, PeerMessages
  <2> QED
    BY Zenon, <1>6, <2>0, <2>1 DEF client_req_handler
<1>7. ASSUME NEW s \in Servers, NEW m \in msgs, BecomeLeader(s, m) PROVE IsFiniteSet(msgs')
  <2>1. PICK f : f = [d \in Peers(s) |->
                        AppendEntries(s, d, current_term[s], log[s], Len(log[s]) + 1, commit_idx[s])]
    BY Zenon
  <2>2. PICK F : F = {f[d] : d \in Peers(s)}
    BY Zenon
  <2>3. msgs' \subseteq msgs \cup F
    BY Zenon, <1>7, <2>1, <2>2 DEF BecomeLeader, Exchanged
  <2>4. f = [d \in Peers(s) |-> f[d]]
    BY Zenon, <2>1
  <2> QED
    BY Zenon, <1>1, <2>2, <2>3, <2>4, PeerMessages
<1>8. ASSUME NEW m \in msgs, Receive(m) PROVE IsFiniteSet(msgs')
  <2>1. PICK s \in Servers : s = m.to
    BY Zenon, <1>0, MessageTypes DEF TypeInv
  <2>2. ASSUME NEW r, Replied(m, r) PROVE IsFiniteSet(msgs')
    BY Zenon, <1>3, <2>2 DEF Replied
  <2>3. ASSUME Received(m) PROVE IsFiniteSet(msgs')
    BY Zenon, <1>2, <2>3 DEF Received
  <2>4. CASE \E late \in BOOLEAN : recv_requestvote(s, m, late)
    BY Zenon, <2>2, <2>4 DEF recv_requestvote
  <2>5. CASE recv_requestvote_response(s, m)
    BY Zenon, <1>7, <2>3, <2>5 DEF recv_requestvote_response
  <2>6. CASE recv_appendentries(s, m)
    BY Zenon, <2>2, <2>6 DEF recv_appendentries
  <2>7. CASE recv_appendentries_response(s, m)
    <3>1. ASSUME NEW x, Exchanged(m, {x}) PROVE IsFiniteSet(msgs')
      BY Zenon, <1>3, <3>1 DEF Exchanged
    <3>2. ASSUME Exchanged(m, {}) PROVE IsFiniteSet(msgs')
      BY Zenon, <1>2, <3>2 DEF Exchanged
    <3> QED
      BY Zenon, <2>3, <2>7, <3>1, <3>2 DEF recv_appendentries_response
  <2> QED
    BY Zenon, <1>8, <2>1, <2>4, <2>5, <2>6, <2>7 DEF Receive
<1>9. ASSUME NEW s \in Servers, PeriodicApply(s) \/ AnswerClient(s) PROVE IsFiniteSet(msgs')
  BY Zenon, <1>2, <1>9 DEF PeriodicApply, AnswerClient
<1>10. CASE UNCHANGED vars
  BY Zenon, <1>2, <1>10 DEF vars
<1> QED
  BY Zenon, <1>4, <1>5, <1>6, <1>8, <1>9, <1>10 DEF Next

(* What bounds the indices of a leader, the commit indices and the requests*)
(* that clients wait for.                                                  *)
Bounded ==
    /\ \A s \in Servers : state[s] = "leader" => \A p \in Peers(s) :
          next_idx[s][p] <= accepted + 1 /\ match_idx[s][p] <= accepted
    /\ \A s \in Servers : commit_idx[s] <= accepted /\ applied[s] <= accepted
    /\ \A s \in Servers : sav[s] # NoReq => sav[s].req \in 1 .. accepted

LEMMA IInvBounds == IInv => Bounded
<1> SUFFICES ASSUME IInv PROVE Bounded
  BY Zenon
<1>1. PICK h \in Hist : Explains(h)
  BY Zenon DEF IInv
<1>2. TypeInv
  BY Zenon DEF IInv
<1>3. accepted \in Nat /\ RequestInv(h)
  BY Zenon, <1>1, <1>2 DEF TypeInv, Explains
<1>4. ASSUME NEW s \in Servers PROVE Len(log[s]) <= accepted /\ log[s] \in Seq(Entry)
  BY SMTT(30), <1>1, <1>2, <1>3, ServerTypes, LogRequests DEF Explains, LogInv
<1>5. ASSUME NEW s \in Servers, state[s] = "leader", NEW p \in Peers(s)
      PROVE  next_idx[s][p] <= accepted + 1 /\ match_idx[s][p] <= accepted
  <2>1. /\ next_idx[s][p] \in Nat /\ next_idx[s][p] <= Len(log[s]) + 1
        /\ h.llog[current_term[s]] = log[s] /\ current_term[s] \in Nat
    BY Zenon, <1>1, <1>2, <1>5, LeaderFacts
  <2>2. p \in Servers
    BY Zenon DEF Peers
  <2>3. /\ match_idx[s][p] <= h.acc[p][current_term[s]]
        /\ h.acc[p][current_term[s]] <= Len(h.llog[current_term[s]])
    BY <1>1, <1>5, <2>1, <2>2 DEF Explains, AckInv
  <2>4. match_idx[s][p] \in Nat /\ h.acc[p][current_term[s]] \in Nat
    BY Zenon, <1>2, <2>1, <2>2, ServerTypes, HistTypes
  <2>5. Len(log[s]) <= accepted /\ Len(log[s]) \in Nat
    BY <1>4, <1>5
  <2>6. next_idx[s][p] <= accepted + 1
    BY <1>3, <2>1, <2>5
  <2>7. match_idx[s][p] <= accepted
    BY <1>3, <2>1, <2>3, <2>4, <2>5
  <2> QED
    BY Zenon, <2>6, <2>7
<1>6. ASSUME NEW s \in Servers PROVE commit_idx[s] <= accepted /\ applied[s] <= accepted
  <2>1. /\ ChosenPrefix(h, log[s], commit_idx[s], current_term[s]) /\ applied[s] <= commit_idx[s]
    BY Zenon, <1>1 DEF Explains, CommitInv
  <2>2. commit_idx[s] = 0 \/ commit_idx[s] <= Len(log[s])
    BY Zenon, <2>1 DEF ChosenPrefix, Agree
  <2>3. commit_idx[s] \in Nat /\ applied[s] \in Nat /\ Len(log[s]) \in Nat /\ Len(log[s]) <= accepted
    BY <1>2, <1>4, ServerTypes
  <2> QED
    BY <1>3, <2>1, <2>2, <2>3
<1>7. ASSUME NEW s \in Servers, sav[s] # NoReq PROVE sav[s].req \in 1 .. accepted
  <2>1. sav[s].term \in Nat
    BY Zenon, <1>2 DEF TypeInv
  <2> QED
    BY Zenon, <1>3, <1>7, <2>1 DEF RequestInv
<1> QED
  BY Zenon, <1>5, <1>6, <1>7 DEF Bounded

LEMMA InitSize == Init => SizeInv
BY FS_EmptySet, RaftBoundAssumption DEF Init, SizeInv

LEMMA NextSize == IInv /\ IInv' /\ SizeInv /\ [Next]_vars => SizeInv'
<1> SUFFICES ASSUME IInv, IInv', SizeInv, [Next]_vars PROVE SizeInv'
  BY Zenon
<1>0. Bounded /\ Bounded' /\ TypeInv /\ TypeInv'
  <2>1. IInv => Bounded
    BY Zenon, IInvBounds
  <2>2. IInv' => Bounded'
    BY IInvBounds, PTL
  <2> QED
    BY Zenon, <2>1, <2>2 DEF IInv
<1>1. \/ accepted' = accepted /\ acked' = acked
      \/ accepted' = accepted + 1 /\ acked' = acked /\ accepted < MaxReqs
      \/ accepted' = accepted /\ \E s \in Servers : sav[s] # NoReq /\ acked' = acked \cup {sav[s].req}
  <2>1. ASSUME NEW m \in msgs, Receive(m) PROVE UNCHANGED clientvars
    BY Zenon, <2>1 DEF Receive, recv_requestvote, recv_requestvote_response, recv_appendentries,
                recv_appendentries_response
  <2>2. ASSUME NEW s \in Servers, client_req_handler(s)
        PROVE  \/ UNCHANGED clientvars
               \/ accepted' = accepted + 1 /\ acked' = acked /\ accepted < MaxReqs
    BY Zenon, <2>2 DEF client_req_handler, vars
  <2>3. ASSUME NEW s \in Servers, PeriodicElection(s) \/ PeriodicLeader(s) \/ PeriodicApply(s)
        PROVE  UNCHANGED clientvars
    BY Zenon, <2>3 DEF PeriodicElection, PeriodicLeader, PeriodicApply
  <2>4. ASSUME NEW s \in Servers, AnswerClient(s)
        PROVE  accepted' = accepted /\ sav[s] # NoReq /\ acked' = acked \cup {sav[s].req}
    BY Zenon, <2>4 DEF AnswerClient
  <2>5. CASE UNCHANGED vars
    BY Zenon, <2>5 DEF vars, clientvars
  <2> QED
    BY Zenon, <2>1, <2>2, <2>3, <2>4, <2>5 DEF Next, clientvars
<1>2. /\ accepted \in Nat /\ accepted' \in Nat /\ accepted <= accepted' /\ MaxReqs \in Nat
      /\ accepted <= MaxReqs
  BY <1>0, <1>1, RaftBoundAssumption DEF TypeInv, SizeInv
<1>3. accepted' <= MaxReqs
  BY <1>1, <1>2
<1>4. acked' \subseteq 1 .. accepted'
  <2>1. acked \subseteq 1 .. accepted /\ 1 .. accepted \subseteq 1 .. accepted'
    BY <1>2 DEF SizeInv
  <2>2. CASE acked' = acked
    BY Zenon, <2>1, <2>2
  <2>3. CASE \E s \in Servers : sav[s] # NoReq /\ acked' = acked \cup {sav[s].req}
    <3>1. PICK s \in Servers : sav[s] # NoReq /\ acked' = acked \cup {sav[s].req}
      BY Zenon, <2>3
    <3>2. sav[s].req \in 1 .. accepted
      BY Zenon, <1>0, <3>1 DEF Bounded
    <3> QED
      BY Zenon, <2>1, <3>1, <3>2
  <2> QED
    BY Zenon, <1>1, <2>2, <2>3
<1>5. IsFiniteSet(msgs')
  BY Zenon, MsgsFinite DEF SizeInv
<1>6. ASSUME NEW s \in Servers, NEW p \in Servers
      PROVE  next_idx'[s][p] <= accepted' + 1 /\ match_idx'[s][p] <= accepted'
  <2>1. /\ next_idx[s][p] \in Nat /\ match_idx[s][p] \in Nat
        /\ next_idx[s][p] <= accepted + 1 /\ match_idx[s][p] <= accepted
    BY <1>0 DEF TypeInv, SizeInv
  <2>2. CASE next_idx'[s][p] = next_idx[s][p] /\ match_idx'[s][p] = match_idx[s][p]
    BY <1>2, <2>1, <2>2
  <2>3. CASE state'[s] = "leader" /\ p # s
    <3>1. p \in Peers(s)
      BY Zenon, <2>3 DEF Peers
    <3>2. \A q \in Peers(s) : next_idx'[s][q] <= accepted' + 1 /\ match_idx'[s][q] <= accepted'
      BY Zenon, <1>0, <2>3 DEF Bounded, Peers
    <3> QED
      BY Zenon, <3>1, <3>2
  <2>4. PeersMove(s)
    BY Zenon, PeersStep
  <2> QED
    BY Zenon, <2>2, <2>3, <2>4 DEF PeersMove
<1> QED
  BY Zenon, <1>3, <1>4, <1>5, <1>6 DEF SizeInv

LEMMA TypesFollow == IInv /\ SizeInv => TypeOK
<1> SUFFICES ASSUME IInv, SizeInv PROVE TypeOK
  BY Zenon
<1>1. TypeInv /\ Bounded
  BY Zenon, IInvBounds DEF IInv
<1>2. accepted \in Nat /\ elections \in Nat /\ MaxReqs \in Nat /\ accepted <= MaxReqs
  BY Zenon, <1>1, RaftBoundAssumption DEF TypeInv, SizeInv
<1>3. current_term \in [Servers -> 0 .. elections]
  BY <1>1, <1>2 DEF TypeInv
<1>4. next_idx \in [Servers -> [Servers -> 1 .. MaxReqs + 1]]
  <2>1. \A s, p \in Servers : next_idx[s][p] \in 1 .. MaxReqs + 1
    <3> TAKE s, p \in Servers
    <3>1. next_idx[s][p] \in Nat \ {0} /\ next_idx[s][p] <= accepted + 1
      BY <1>1 DEF TypeInv, SizeInv
    <3> QED
      BY <1>2, <3>1
  <2> QED
    BY Zenon, <1>1, <2>1 DEF TypeInv
<1>5. match_idx \in [Servers -> [Servers -> 0 .. MaxReqs]]
  <2>1. \A s, p \in Servers : match_idx[s][p] \in 0 .. MaxReqs
    <3> TAKE s, p \in Servers
    <3>1. match_idx[s][p] \in Nat /\ match_idx[s][p] <= accepted
      BY Zenon, <1>1 DEF TypeInv, SizeInv
    <3> QED
      BY <1>2, <3>1
  <2> QED
    BY Zenon, <1>1, <2>1 DEF TypeInv
<1>6. commit_idx \in [Servers -> 0 .. MaxReqs] /\ applied \in [Servers -> 0 .. MaxReqs]
  <2>1. \A s \in Servers : commit_idx[s] \in 0 .. MaxReqs /\ applied[s] \in 0 .. MaxReqs
    <3> TAKE s \in Servers
    <3>1. /\ commit_idx[s] \in Nat /\ applied[s] \in Nat
          /\ commit_idx[s] <= accepted /\ applied[s] <= accepted
      BY Zenon, <1>1 DEF TypeInv, Bounded
    <3> QED
      BY <1>2, <3>1
  <2> QED
    BY Zenon, <1>1, <2>1 DEF TypeInv
<1> QED
  BY <1>1, <1>3, <1>4, <1>5, <1>6 DEF TypeOK, TypeInv, SizeInv

(* Roles, terms and indices have the types of their C declarations, and no *)
(* index passes the number of requests.                                    *)
THEOREM TypeCorrect == Spec => []TypeOK
<1>1. Spec => []SizeInv
  BY Invariance, InitSize, NextSize, PTL DEF Spec
<1> QED
  BY <1>1, Invariance, TypesFollow, PTL

-------------------------------------------------------------------------------
(* What is committed stays.                                                *)

(* Server t has lost nothing that it had committed.                        *)
Keeps(t) == commit_idx[t] <= commit_idx'[t] /\ Agree(log[t], log'[t], commit_idx[t])

LEMMA SameKeeps ==
    ASSUME TypeInv, CommitsAgree, NEW t \in Servers, log'[t] = log[t], commit_idx'[t] = commit_idx[t]
    PROVE  Keeps(t)
<1>1. log[t] \in Seq(Entry) /\ commit_idx[t] \in Nat /\ commit_idx[t] <= Len(log[t])
  BY Zenon, ServerTypes DEF CommitsAgree
<1> QED
  BY <1>1 DEF Keeps, Agree

(* The log of s changes, but not what it has committed.                    *)
LEMMA OneKeeps ==
    ASSUME TypeInv, CommitsAgree, NEW s \in Servers, NEW lg, NEW c \in Nat,
           log' = [log EXCEPT ![s] = lg], commit_idx' = [commit_idx EXCEPT ![s] = c],
           commit_idx[s] <= c, Agree(log[s], lg, commit_idx[s])
    PROVE  \A t \in Servers : Keeps(t)
<1>1. log'[s] = lg /\ commit_idx'[s] = c
  BY Zenon DEF TypeInv
<1>2. Keeps(s)
  BY Zenon, <1>1 DEF Keeps
<1>3. \A t \in Servers : t # s => log'[t] = log[t] /\ commit_idx'[t] = commit_idx[t]
  BY Zenon DEF TypeInv
<1>4. \A t \in Servers : t # s => Keeps(t)
  BY Zenon, <1>3, SameKeeps
<1> QED
  BY <1>2, <1>4

(* raft_recv_appendentries deletes only entries after the committed ones.  *)
LEMMA AppendKeeps ==
    ASSUME IInv, CommitsAgree, NEW m \in msgs, NEW s \in Servers, recv_appendentries(s, m)
    PROVE  \A t \in Servers : Keeps(t)
<1>0. TypeInv /\ Message(m)
  BY Zenon DEF IInv, TypeInv
<1>1. PICK lg, c : lg = log[s] /\ c = commit_idx[s]
  BY Zenon
<1>2. /\ lg \in Seq(Entry) /\ c \in Nat /\ c <= Len(lg) /\ m.type = "ae" /\ m.to = s
      /\ m.prev_idx \in Nat /\ m.commit \in Nat
  <2>1. m.type = "ae" /\ m.to = s
    BY Zenon DEF recv_appendentries
  <2> QED
    BY Zenon, <1>0, <1>1, <2>1, ServerTypes DEF CommitsAgree, Message
<1>3. CASE UNCHANGED <<log, commit_idx>>
  BY Zenon, <1>0, <1>3, SameKeeps
<1>4. CASE /\ ~ConflictsWithCommitted(s, m)
           /\ m.prev_idx <= Len(log[s]) /\ ~PrevMatches(log[s], m)
           /\ log' = [log EXCEPT ![s] = SubSeq(@, 1, m.prev_idx - 1)]
           /\ UNCHANGED commit_idx
  <2>1. c < m.prev_idx
    BY <1>1, <1>2, <1>4 DEF ConflictsWithCommitted
  <2>2. PICK b : b = SubSeq(lg, 1, m.prev_idx - 1)
    BY Zenon
  <2>3. Len(b) = m.prev_idx - 1 /\ \A j \in 1 .. m.prev_idx - 1 : b[j] = lg[j]
    BY <1>1, <1>2, <1>4, <2>1, <2>2
  <2>4. Agree(lg, b, c)
    BY <1>2, <2>1, <2>3 DEF Agree
  <2>5. log' = [log EXCEPT ![s] = b]
    BY Zenon, <1>1, <1>4, <2>2
  <2>6. commit_idx' = [commit_idx EXCEPT ![s] = c] /\ c <= c
    BY SMTT(30), <1>0, <1>1, <1>2, <1>4 DEF TypeInv
  <2> QED
    BY Zenon, <1>0, <1>1, <1>2, <2>4, <2>5, <2>6, OneKeeps
<1>5. CASE /\ m.term >= current_term[s]
           /\ m.prev_idx <= Len(log[s]) /\ PrevMatches(log[s], m)
           /\ log' = [log EXCEPT ![s] = Merged(@, m)]
           /\ commit_idx' = [commit_idx EXCEPT ![s] = FollowerCommit(@, log'[s], m)]
  <2>1. PICK b, d : b = Merged(lg, m) /\ d = FollowerCommit(c, log'[s], m)
    BY Zenon
  <2>2. log' = [log EXCEPT ![s] = b] /\ commit_idx' = [commit_idx EXCEPT ![s] = d]
    BY Zenon, <1>1, <1>5, <2>1
  <2>3. log'[s] = b
    BY <1>0, <2>2 DEF TypeInv
  <2>4. Agree(lg, b, c)
    BY <1>1, <1>2, <1>5, <2>1, MergeKeeps
  <2>5. c <= Len(b)
    BY Zenon, <2>4 DEF Agree
  <2>6. Len(b) \in Nat
    <3>1. log'[s] \in Seq(Entry)
      <4>1. Receive(m)
        BY <1>2 DEF Receive
      <4>2. Next
        BY <4>1 DEF Next
      <4>3. IInv'
        BY <4>2, NextInv
      <4> QED
        BY <4>3 DEF IInv, TypeInv
    <3> QED
      BY <2>3, <3>1
  <2>7. d \in Nat /\ c <= d
    BY <1>2, <2>1, <2>3, <2>5, <2>6 DEF FollowerCommit, Lesser, Greater
  <2> QED
    BY Zenon, <1>0, <1>1, <2>2, <2>4, <2>7, OneKeeps
<1> QED
  BY Zenon, <1>3, <1>4, <1>5 DEF recv_appendentries

(* No step takes back what a server has committed.                         *)
LEMMA NextKeeps ==
    ASSUME IInv, CommitsAgree, [Next]_vars PROVE \A t \in Servers : Keeps(t)
<1>0. TypeInv
  BY Zenon DEF IInv
<1>1. CASE UNCHANGED <<log, commit_idx>>
  BY Zenon, <1>0, <1>1, SameKeeps
<1>2. ASSUME NEW s \in Servers, NEW m \in msgs, m.idx \in Nat, UNCHANGED log,
             commit_idx' = [commit_idx EXCEPT ![s] = LeaderCommit(s, m.idx)]
      PROVE  \A t \in Servers : Keeps(t)
  <2>1. PICK c : c = LeaderCommit(s, m.idx)
    BY Zenon
  <2>2. log[s] \in Seq(Entry) /\ commit_idx[s] \in Nat /\ commit_idx[s] <= Len(log[s])
    BY Zenon, <1>0, ServerTypes DEF CommitsAgree
  <2>3. c \in Nat /\ commit_idx[s] <= c
    BY <1>2, <2>1, <2>2 DEF LeaderCommit
  <2>4. Agree(log[s], log[s], commit_idx[s])
    BY <2>2 DEF Agree
  <2>5. log' = [log EXCEPT ![s] = log[s]]
    BY <1>0, <1>2 DEF TypeInv
  <2> QED
    BY Zenon, <1>0, <1>2, <2>1, <2>3, <2>4, <2>5, OneKeeps
<1>3. ASSUME NEW s \in Servers, recv_entry(s, accepted + 1), UNCHANGED commit_idx
      PROVE  \A t \in Servers : Keeps(t)
  <2>1. PICK e, lg : /\ e = [term |-> current_term[s], req |-> accepted + 1]
                     /\ lg = Append(log[s], e)
    BY Zenon
  <2>2. log[s] \in Seq(Entry) /\ commit_idx[s] \in Nat /\ commit_idx[s] <= Len(log[s])
    BY Zenon, <1>0, ServerTypes DEF CommitsAgree
  <2>3. e \in Entry
    <3>1. current_term[s] \in Nat /\ accepted + 1 \in Nat
      BY <1>0 DEF TypeInv
    <3> QED
      BY Zenon, <2>1, <3>1 DEF Entry
  <2>4. Len(lg) = Len(log[s]) + 1 /\ \A i \in 1 .. Len(log[s]) : lg[i] = log[s][i]
    BY <2>1, <2>2, <2>3, AppendSeq
  <2>5. Agree(log[s], lg, commit_idx[s])
    BY <2>2, <2>4 DEF Agree
  <2>6. log' = [log EXCEPT ![s] = lg]
    BY Zenon, <1>3, <2>1 DEF recv_entry
  <2>7. commit_idx' = [commit_idx EXCEPT ![s] = commit_idx[s]] /\ commit_idx[s] <= commit_idx[s]
    BY <1>0, <1>3, <2>2 DEF TypeInv
  <2> QED
    BY Zenon, <1>0, <2>2, <2>5, <2>6, <2>7, OneKeeps
<1>4. ASSUME NEW m \in msgs, Receive(m) PROVE \A t \in Servers : Keeps(t)
  <2>1. PICK s \in Servers : s = m.to
    BY Zenon, <1>0, MessageTypes DEF TypeInv
  <2>2. CASE \/ \E late \in BOOLEAN : recv_requestvote(s, m, late)
             \/ recv_requestvote_response(s, m)
    BY Zenon, <1>1, <2>2 DEF recv_requestvote, recv_requestvote_response, logs
  <2>3. CASE recv_appendentries(s, m)
    BY Zenon, <2>3, AppendKeeps
  <2>4. CASE recv_appendentries_response(s, m)
    <3>1. m.idx \in Nat
      BY Zenon, <1>0, <2>4 DEF recv_appendentries_response, TypeInv, Message
    <3>2. /\ UNCHANGED log
          /\ \/ UNCHANGED commit_idx
             \/ commit_idx' = [commit_idx EXCEPT ![s] = LeaderCommit(s, m.idx)]
      BY Zenon, <2>4 DEF recv_appendentries_response
    <3> QED
      BY Zenon, <1>1, <1>2, <3>1, <3>2
  <2> QED
    BY Zenon, <1>4, <2>1, <2>2, <2>3, <2>4 DEF Receive
<1>5. ASSUME NEW s \in Servers, client_req_handler(s) PROVE \A t \in Servers : Keeps(t)
  BY Zenon, <1>1, <1>3, <1>5 DEF client_req_handler, vars, logs
<1>6. ASSUME NEW s \in Servers,
             PeriodicElection(s) \/ PeriodicLeader(s) \/ PeriodicApply(s) \/ AnswerClient(s)
      PROVE  UNCHANGED <<log, commit_idx>>
  BY Zenon, <1>6 DEF PeriodicElection, PeriodicLeader, PeriodicApply, AnswerClient
<1>7. CASE UNCHANGED vars
  BY Zenon, <1>1, <1>7 DEF vars, logs
<1> QED
  BY Zenon, <1>1, <1>4, <1>5, <1>6, <1>7 DEF Next

(* Who executes: raft_periodic and the end of the loop, which also answers.*)
Executes(s) == apply_all(s) /\ UNCHANGED <<log, commit_idx>>

LEMMA StepKinds ==
    ASSUME [Next]_vars
    PROVE  \/ UNCHANGED <<applied, acked>>
           \/ \E s \in Servers : Executes(s) /\ (UNCHANGED acked \/ AnswerClient(s))
<1>1. ASSUME NEW s \in Servers, PeriodicElection(s) \/ PeriodicLeader(s) \/ PeriodicApply(s)
      PROVE  Executes(s) /\ UNCHANGED acked
  BY Zenon, <1>1 DEF PeriodicElection, PeriodicLeader, PeriodicApply, Executes, clientvars
<1>2. ASSUME NEW s \in Servers, AnswerClient(s) PROVE Executes(s)
  BY Zenon, <1>2 DEF AnswerClient, Executes
<1>3. ASSUME NEW s \in Servers, client_req_handler(s) PROVE UNCHANGED <<applied, acked>>
  BY Zenon, <1>3 DEF client_req_handler, vars, logs, clientvars
<1>4. ASSUME NEW m \in msgs, Receive(m) PROVE UNCHANGED <<applied, acked>>
  BY Zenon, <1>4 DEF Receive, recv_requestvote, recv_requestvote_response, recv_appendentries,
              recv_appendentries_response, logs, clientvars
<1>5. CASE UNCHANGED vars
  BY Zenon, <1>5 DEF vars, logs, clientvars
<1> QED
  BY Zenon, <1>1, <1>2, <1>3, <1>4, <1>5 DEF Next

-------------------------------------------------------------------------------
(* The service is one log.                                                 *)

AheadOfAll ==
    Furthest \in Servers /\ \A t \in Servers : commit_idx[t] <= commit_idx[Furthest]

LEMMA FurthestServer == IInv => AheadOfAll
<1> SUFFICES ASSUME IInv
             PROVE  \E s \in Servers : \A t \in Servers : commit_idx[t] <= commit_idx[s]
  BY Zenon DEF Furthest, AheadOfAll
<1>1. TypeInv /\ Bounded
  BY Zenon, IInvBounds DEF IInv
<1>2. /\ accepted \in Nat
      /\ \A s \in Servers : commit_idx[s] \in Nat /\ commit_idx[s] <= accepted
  BY Zenon, <1>1 DEF TypeInv, Bounded
<1>3. PICK S : S = {accepted - commit_idx[s] : s \in Servers}
  BY Zenon
<1>4. S \in SUBSET Nat /\ S # {}
  <2>1. Servers # {}
    BY ServerAssumption, FS_EmptySet
  <2>2. \A s \in Servers : accepted - commit_idx[s] \in Nat
    BY <1>2
  <2> QED
    BY Zenon, <1>3, <2>1, <2>2
<1>5. PICK x \in S : \A y \in S : x <= y
  BY Zenon, <1>4, LeastElement
<1>6. PICK s \in Servers : x = accepted - commit_idx[s]
  BY Zenon, <1>3, <1>5
<1>7. ASSUME NEW t \in Servers PROVE commit_idx[t] <= commit_idx[s]
  <2>1. accepted - commit_idx[s] <= accepted - commit_idx[t]
    BY Zenon, <1>3, <1>5, <1>6
  <2> QED
    BY <1>2, <2>1
<1> QED
  BY Zenon, <1>7

(* The log b begins with a.                                                *)
Starts(b, a) == Len(a) <= Len(b) /\ \A i \in 1 .. Len(a) : b[i] = a[i]

Requests(lg, n) == [i \in 1 .. n |-> lg[i].req]

LEMMA RequestsStart ==
    ASSUME NEW a \in Seq(Entry), NEW b \in Seq(Entry), NEW c \in Nat, NEW d \in Nat,
           c <= d, d <= Len(b), Agree(a, b, c)
    PROVE  /\ Starts(Requests(b, d), Requests(a, c))
           /\ c = d => Requests(b, d) = Requests(a, c)
<1>1. \A i \in 1 .. c : a[i] = b[i] /\ i \in 1 .. d
  BY DEF Agree
<1>2. PICK f, g : f = Requests(a, c) /\ g = Requests(b, d)
  BY Zenon
<1>3. f = [i \in 1 .. c |-> a[i].req] /\ g = [i \in 1 .. d |-> b[i].req]
  BY Zenon, <1>2 DEF Requests
<1>4. Len(f) = c /\ Len(g) = d
  BY <1>3
<1>5. \A i \in 1 .. c : g[i] = f[i]
  BY Zenon, <1>1, <1>3
<1>6. Starts(g, f)
  BY Zenon, <1>4, <1>5 DEF Starts
<1>7. c = d => g = f
  BY Zenon, <1>1, <1>3
<1> QED
  BY Zenon, <1>2, <1>6, <1>7

(* What is chosen, and what each server has executed.                      *)
ChosenReqs == Reqs(Furthest, commit_idx[Furthest])
ExecutedReqs == [s \in Servers |-> Reqs(s, applied[s])]

ChosenOnce ==
    /\ ChosenReqs = Requests(log[Furthest], commit_idx[Furthest])
    /\ Len(ChosenReqs) = commit_idx[Furthest]
    /\ \A i, j \in 1 .. Len(ChosenReqs) : ChosenReqs[i] = ChosenReqs[j] => i = j

LEMMA ChosenStart == IInv => ChosenOnce
<1> SUFFICES ASSUME IInv PROVE ChosenOnce
  BY Zenon
<1>1. TypeInv /\ CommitsAgree
  BY Zenon, SafePrefixes DEF IInv
<1>2. PICK F, c, lg, r : /\ F = Furthest /\ c = commit_idx[F] /\ lg = log[F] /\ r = ChosenReqs
  BY Zenon
<1>3. F \in Servers
  BY Zenon, <1>2, FurthestServer DEF AheadOfAll
<1>4. r = [i \in 1 .. c |-> lg[i].req]
  BY Zenon, <1>2 DEF ChosenReqs, Reqs
<1>5. c \in Nat /\ lg \in Seq(Entry) /\ c <= Len(lg)
  BY Zenon, <1>1, <1>2, <1>3, ServerTypes DEF CommitsAgree
<1>6. Len(r) = c
  BY <1>4, <1>5
<1>7. \A i, j \in 1 .. Len(lg) : lg[i].req = lg[j].req => i = j
  BY Zenon, <1>1, <1>2, <1>3 DEF CommitsAgree
<1>8. \A i \in 1 .. c : i \in 1 .. Len(lg) /\ r[i] = lg[i].req
  BY <1>4, <1>5
<1>9. \A i, j \in 1 .. c : r[i] = r[j] => i = j
  BY Zenon, <1>7, <1>8
<1>10. r = Requests(lg, c)
  BY Zenon, <1>4 DEF Requests
<1> QED
  BY Zenon, <1>2, <1>6, <1>9, <1>10 DEF ChosenOnce

LEMMA ChosenGrows ==
    ASSUME IInv, IInv', [Next]_vars PROVE Starts(ChosenReqs', ChosenReqs)
<1>1. TypeInv /\ CommitsAgree
  BY Zenon, SafePrefixes DEF IInv
<1>2. CommitsAgree' /\ TypeInv'
  <2>1. IInv' => CommitsAgree'
    BY SafePrefixes, PTL
  <2> QED
    BY Zenon, <2>1 DEF IInv
<1>3. /\ Furthest' \in Servers
      /\ \A t \in Servers : commit_idx'[t] <= commit_idx'[Furthest']
      /\ ChosenReqs' = Requests(log'[Furthest'], commit_idx'[Furthest'])
  <2>1. IInv' => AheadOfAll'
    BY FurthestServer, PTL
  <2>2. IInv' => ChosenOnce'
    BY ChosenStart, PTL
  <2> QED
    BY Zenon, <2>1, <2>2 DEF AheadOfAll, ChosenOnce
<1>4. /\ Furthest \in Servers
      /\ ChosenReqs = Requests(log[Furthest], commit_idx[Furthest])
  BY Zenon, FurthestServer, ChosenStart DEF AheadOfAll, ChosenOnce
<1>5. PICK F, G, c, d, a, b, e : /\ F = Furthest /\ G = Furthest' /\ c = commit_idx[F] /\ a = log[F]
                                 /\ d = commit_idx'[G] /\ b = log'[G] /\ e = log'[F]
  BY Zenon
<1>6. /\ c \in Nat /\ a \in Seq(Entry) /\ d \in Nat /\ b \in Seq(Entry) /\ e \in Seq(Entry)
      /\ commit_idx'[F] \in Nat /\ d <= Len(b)
  BY Zenon, <1>1, <1>2, <1>3, <1>4, <1>5 DEF TypeInv, CommitsAgree
<1>7. c <= commit_idx'[F] /\ Agree(a, e, c)
  BY Zenon, <1>1, <1>4, <1>5, NextKeeps DEF Keeps
<1>8. commit_idx'[F] <= d
  BY Zenon, <1>3, <1>4, <1>5
<1>9. Agree(e, b, commit_idx'[F])
  BY Zenon, <1>2, <1>3, <1>4, <1>5, <1>8 DEF CommitsAgree
<1>10. Agree(e, b, c)
  BY Zenon, <1>6, <1>7, <1>9, AgreeLess
<1>11. Agree(a, b, c) /\ c <= d
  BY <1>6, <1>7, <1>8, <1>10 DEF Agree
<1> QED
  BY Zenon, <1>3, <1>4, <1>5, <1>6, <1>11, RequestsStart

(* What a server has executed is not undone.                               *)
LEMMA ExecutedStays ==
    ASSUME IInv, IInv', [Next]_vars, UNCHANGED applied PROVE ExecutedReqs' = ExecutedReqs
<1>1. TypeInv /\ CommitsAgree /\ TypeInv'
  BY Zenon, SafePrefixes DEF IInv
<1>2. ASSUME NEW s \in Servers
      PROVE  Requests(log'[s], applied[s]) = Requests(log[s], applied[s])
  <2>1. /\ log[s] \in Seq(Entry) /\ log'[s] \in Seq(Entry) /\ applied[s] \in Nat
        /\ commit_idx[s] \in Nat /\ applied[s] <= commit_idx[s]
    BY Zenon, <1>1 DEF TypeInv, CommitsAgree
  <2>2. Agree(log[s], log'[s], commit_idx[s])
    BY Zenon, <1>1, NextKeeps DEF Keeps
  <2>3. Agree(log[s], log'[s], applied[s]) /\ applied[s] <= applied[s] /\ applied[s] <= Len(log'[s])
    BY <2>1, <2>2 DEF Agree
  <2> QED
    BY Zenon, <2>1, <2>3, RequestsStart
<1>3. ExecutedReqs = [s \in Servers |-> Requests(log[s], applied[s])]
  BY Zenon DEF ExecutedReqs, Reqs, Requests
<1>4. ExecutedReqs' = [s \in Servers |-> Requests(log'[s], applied[s])]
  BY Zenon DEF ExecutedReqs, Reqs, Requests
<1> QED
  BY Zenon, <1>2, <1>3, <1>4

LEMMA ExecuteStep ==
    ASSUME IInv, NEW s \in Servers, Executes(s)
    PROVE  /\ ChosenReqs' = ChosenReqs
           /\ ExecutedReqs'[s] = Requests(log[s], commit_idx[s])
           /\ ExecutedReqs' = [ExecutedReqs EXCEPT ![s] = ExecutedReqs'[s]]
           /\ Starts(ExecutedReqs'[s], ExecutedReqs[s]) /\ Starts(ChosenReqs, ExecutedReqs'[s])
<1>1. TypeInv /\ CommitsAgree
  BY Zenon, SafePrefixes DEF IInv
<1>2. log' = log /\ commit_idx' = commit_idx /\ applied' = [applied EXCEPT ![s] = commit_idx[s]]
  BY Zenon DEF Executes, apply_all
<1>3. ChosenReqs' = ChosenReqs
  <2>1. Furthest' = Furthest
    BY Zenon, <1>2 DEF Furthest
  <2> QED
    BY Zenon, <1>2, <2>1 DEF ChosenReqs, Reqs
<1>4. PICK E, D : E = ExecutedReqs /\ D = ExecutedReqs'
  BY Zenon
<1>5. /\ E = [t \in Servers |-> Requests(log[t], applied[t])]
      /\ D = [t \in Servers |-> Requests(log[t], applied'[t])]
  BY Zenon, <1>2, <1>4 DEF ExecutedReqs, Reqs, Requests
<1>6. applied'[s] = commit_idx[s] /\ \A t \in Servers \ {s} : applied'[t] = applied[t]
  BY Zenon, <1>1, <1>2 DEF TypeInv
<1>7. D[s] = Requests(log[s], commit_idx[s])
  BY Zenon, <1>5, <1>6
<1>8. D = [E EXCEPT ![s] = D[s]]
  BY Zenon, <1>5, <1>6
<1>9. PICK F : F = Furthest
  BY Zenon
<1>10. /\ F \in Servers /\ commit_idx[s] <= commit_idx[F]
       /\ ChosenReqs = Requests(log[F], commit_idx[F])
  BY Zenon, <1>9, FurthestServer, ChosenStart DEF AheadOfAll, ChosenOnce
<1>11. /\ log[s] \in Seq(Entry) /\ applied[s] \in Nat /\ commit_idx[s] \in Nat
       /\ applied[s] <= commit_idx[s] /\ commit_idx[s] <= Len(log[s])
       /\ log[F] \in Seq(Entry) /\ commit_idx[F] \in Nat /\ commit_idx[F] <= Len(log[F])
  BY Zenon, <1>1, <1>10, ServerTypes DEF CommitsAgree
<1>12. Starts(D[s], E[s])
  <2>1. Agree(log[s], log[s], applied[s])
    BY <1>11 DEF Agree
  <2>2. E[s] = Requests(log[s], applied[s])
    BY Zenon, <1>5
  <2>3. Starts(Requests(log[s], commit_idx[s]), Requests(log[s], applied[s]))
    BY Zenon, <1>11, <2>1, RequestsStart
  <2> QED
    BY Zenon, <1>7, <2>2, <2>3
<1>13. Starts(ChosenReqs, D[s])
  <2>1. Agree(log[s], log[F], commit_idx[s])
    BY Zenon, <1>1, <1>10 DEF CommitsAgree
  <2>2. Starts(Requests(log[F], commit_idx[F]), Requests(log[s], commit_idx[s]))
    BY Zenon, <1>10, <1>11, <2>1, RequestsStart
  <2> QED
    BY Zenon, <1>7, <1>10, <2>2
<1> QED
  BY Zenon, <1>3, <1>4, <1>7, <1>8, <1>12, <1>13

(* The request that a client is told of is in the committed part of the    *)
(* server's log: the entry noted for it still has the term noted.          *)
LEMMA AnswerStep ==
    ASSUME IInv, NEW s \in Servers, AnswerClient(s), NEW r, r = Requests(log[s], commit_idx[s])
    PROVE  \E i \in 1 .. Len(r) : acked' = acked \cup {r[i]}
<1>1. PICK h \in Hist : Explains(h)
  BY Zenon DEF IInv
<1>2. TypeInv
  BY Zenon DEF IInv
<1>3. PICK i, T, lg, c : i = sav[s].idx /\ T = sav[s].term /\ lg = log[s] /\ c = commit_idx[s]
  BY Zenon
<1>4. /\ sav[s] # NoReq /\ i \in 1 .. Len(lg) /\ lg[i].term = T /\ i <= c
      /\ acked' = acked \cup {sav[s].req}
  BY Zenon, <1>3 DEF AnswerClient, Committed, HasEntry
<1>5. T \in Nat /\ lg \in Seq(Entry) /\ c \in Nat
  BY Zenon, <1>2, <1>3 DEF TypeInv
<1>6. Agree(lg, h.llog[T], i)
  BY Zenon, <1>1, <1>3, <1>4 DEF Explains, LogInv, Follows
<1>7. lg[i] = h.llog[T][i]
  BY <1>4, <1>5, <1>6 DEF Agree
<1>8. h.llog[T][i].req = sav[s].req
  BY Zenon, <1>1, <1>3, <1>4 DEF Explains, RequestInv
<1>9. r = [j \in 1 .. c |-> lg[j].req]
  BY Zenon, <1>3 DEF Requests
<1>10. Len(r) = c /\ i \in 1 .. c
  BY <1>4, <1>5, <1>9
<1>11. r[i] = sav[s].req
  BY Zenon, <1>7, <1>8, <1>9, <1>10
<1> QED
  BY Zenon, <1>4, <1>10, <1>11

LEMMA ServiceInit == Init => Log!Init
<1> SUFFICES ASSUME Init PROVE Log!Init
  BY Zenon
<1>1. IInv
  BY Zenon, InitInv
<1>2. Furthest \in Servers
  BY Zenon, <1>1, FurthestServer DEF AheadOfAll
<1>3. commit_idx[Furthest] = 0 /\ \A s \in Servers : applied[s] = 0
  BY Zenon, <1>2 DEF Init
<1>4. \A s \in Servers : Reqs(s, 0) = <<>>
  BY DEF Reqs
<1>5. acked = {}
  BY Zenon DEF Init
<1> QED
  BY Zenon, <1>2, <1>3, <1>4, <1>5 DEF Log!Init

LEMMA ServiceStep == IInv /\ IInv' /\ [Next]_vars => [Log!Next]_Log!vars
<1> SUFFICES ASSUME IInv, IInv', [Next]_vars PROVE [Log!Next]_Log!vars
  BY Zenon
<1>1. /\ Log!vars = <<ChosenReqs, ExecutedReqs, acked>>
      /\ Log!vars' = <<ChosenReqs', ExecutedReqs', acked'>>
  BY Zenon DEF Log!vars, ChosenReqs, ExecutedReqs
<1>2. \A a, b : Log!Begins(b, a) = Starts(b, a)
  BY Zenon DEF Log!Begins, Starts
<1>3. CASE UNCHANGED <<applied, acked>>
  <2>1. Starts(ChosenReqs', ChosenReqs)
    BY Zenon, ChosenGrows
  <2>2. ExecutedReqs' = ExecutedReqs
    BY Zenon, <1>3, ExecutedStays
  <2>3. \A i, j \in 1 .. Len(ChosenReqs') : ChosenReqs'[i] = ChosenReqs'[j] => i = j
    <3>1. IInv' => ChosenOnce'
      BY ChosenStart, PTL
    <3> QED
      BY Zenon, <3>1 DEF ChosenOnce
  <2>4. CASE ChosenReqs' = ChosenReqs
    BY Zenon, <1>1, <1>3, <2>2, <2>4
  <2>5. CASE ChosenReqs' # ChosenReqs
    <3>1. Log!Choose
      BY Zenon, <1>2, <1>3, <2>1, <2>2, <2>3, <2>5 DEF Log!Choose, ChosenReqs, ExecutedReqs
    <3> QED
      BY Zenon, <3>1 DEF Log!Next
  <2> QED
    BY Zenon, <2>4, <2>5
<1>4. ASSUME NEW s \in Servers, Executes(s) PROVE Log!Catchup(s)
  BY Zenon, <1>2, <1>4, ExecuteStep DEF Log!Catchup, ChosenReqs, ExecutedReqs
<1>5. ASSUME NEW s \in Servers, Executes(s), UNCHANGED acked PROVE Log!Next
  BY Zenon, <1>4, <1>5 DEF Log!Next, Log!Execute
<1>6. ASSUME NEW s \in Servers, Executes(s), AnswerClient(s) PROVE Log!Next
  <2>1. PICK r : r = Requests(log[s], commit_idx[s])
    BY Zenon
  <2>2. \E i \in 1 .. Len(r) : acked' = acked \cup {r[i]}
    BY Zenon, <1>6, <2>1, AnswerStep
  <2>3. ExecutedReqs'[s] = r
    BY Zenon, <1>6, <2>1, ExecuteStep
  <2>4. Log!Answer(s)
    BY Zenon, <1>4, <1>6, <2>2, <2>3 DEF Log!Answer, ExecutedReqs
  <2> QED
    BY Zenon, <2>4 DEF Log!Next
<1> QED
  BY Zenon, <1>3, <1>5, <1>6, StepKinds

(* The servers are one replicated log: what is chosen is never taken back, *)
(* each server executes a prefix of it, and a client is told of success    *)
(* only for a request that its server has executed.                        *)
THEOREM OneLog == Spec => ImplementsCommitLog
<1>1. Init => Log!Init
  BY Zenon, ServiceInit
<1>2. IInv /\ IInv' /\ [Next]_vars => [Log!Next]_Log!vars
  BY Zenon, ServiceStep
<1> QED
  BY <1>1, <1>2, Invariance, PTL DEF Spec, ImplementsCommitLog, Log!Spec
===============================================================================
