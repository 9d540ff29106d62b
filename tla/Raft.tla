--------------------------------- MODULE Raft ---------------------------------
(***************************************************************************)
(* The replicated key-value service of apps/smr: willemt/raft, the RPC     *)
(* handlers and continuations that connect it to the Rpc library, and the  *)
(* clients.                                                                *)
(*                                                                         *)
(* Every handler runs to its end in the server's one thread, so a handler  *)
(* is one action.  A client request is its number; a log entry is a term   *)
(* and a request.  Messages are RPC requests and responses, those in       *)
(* flight delivered in any order (requests of a session use different      *)
(* slots).  A request may be lost.  A crashed server is one that takes no  *)
(* more steps: kUsePmem is false and nothing restarts.                     *)
(*                                                                         *)
(* Time may pass between any two steps: a server that is not the leader    *)
(* may have reached election_timeout at any moment, and no more than that. *)
(* A leader resets timeout_elapsed whenever request_timeout, the smaller,  *)
(* has passed, so it never reaches election_timeout.  Snapshots and        *)
(* membership changes end the process in the callbacks of log_callbacks.h  *)
(* and are not used.                                                       *)
(***************************************************************************)
EXTENDS Integers, Sequences, FiniteSets, FiniteSetsExt

CONSTANTS
    Servers,      \* the Raft servers
    None,         \* a null current_leader, voted_for = -1
    MaxElections, \* bound: elections started
    MaxReqs,      \* bound: client requests accepted into a log
    MaxMsgs,      \* bound: messages in flight when an election or a request adds more
    MaxMsgsPeriodic     \* bound: messages in flight when a leader's heartbeats add more

ASSUME ServerAssumption ==
    /\ IsFiniteSet(Servers) /\ Cardinality(Servers) > 1
    /\ None \notin Servers
ASSUME RaftBoundAssumption ==
    MaxElections \in Nat /\ MaxReqs \in Nat /\ MaxMsgs \in Nat /\ MaxMsgsPeriodic \in Nat

VARIABLES
    state,          \* state: "follower", "candidate", "leader"
    current_term,   \* current_term
    voted_for,      \* voted_for
    current_leader, \* current_leader
    votes,          \* the peers whose RAFT_NODE_VOTED_FOR_ME flag is set
    next_idx,       \* next_idx of each peer
    match_idx,      \* match_idx of each peer
    log,            \* the entries
    commit_idx,     \* commit_idx
    applied,        \* last_applied_idx
    sav,            \* leader_saveinfo: the request waiting for a commit, its entry
    accepted,       \* number of requests accepted so far
    acked,          \* requests answered with kSuccess
    elections,      \* number of elections started so far
    msgs            \* messages in flight

raft == <<state, current_term, voted_for, current_leader, votes>>
peers == <<next_idx, match_idx>>
logs == <<log, commit_idx, applied>>
clientvars == <<accepted, acked>>
vars == <<raft, peers, logs, sav, clientvars, elections, msgs>>

NoReq == [req |-> 0, idx |-> 0, term |-> 0]   \* leader_saveinfo not in use

Entry == [term : Nat, req : Nat]
Lesser(a, b) == IF a <= b THEN a ELSE b
Greater(a, b) == IF a >= b THEN a ELSE b

(* The type invariant: roles, terms, indices and the saved request are of  *)
(* the types their C declarations say, and indices stay within the log     *)
(* bound.                                                                  *)
TypeOK ==
    /\ state \in [Servers -> {"follower", "candidate", "leader"}]
    /\ current_term \in [Servers -> 0 .. elections]
    /\ voted_for \in [Servers -> Servers \cup {None}]
    /\ current_leader \in [Servers -> Servers \cup {None}]
    /\ votes \in [Servers -> SUBSET Servers]
    /\ next_idx \in [Servers -> [Servers -> 1 .. MaxReqs + 1]]
    /\ match_idx \in [Servers -> [Servers -> 0 .. MaxReqs]]
    /\ log \in [Servers -> Seq(Entry)]
    /\ commit_idx \in [Servers -> 0 .. MaxReqs]
    /\ applied \in [Servers -> 0 .. MaxReqs]
    /\ sav \in [Servers -> [req : Nat, idx : Nat, term : Nat]]
    /\ acked \subseteq 1 .. accepted
    /\ IsFiniteSet(msgs)

Init ==
    /\ state = [s \in Servers |-> "follower"]
    /\ current_term = [s \in Servers |-> 0]
    /\ voted_for = [s \in Servers |-> None]
    /\ current_leader = [s \in Servers |-> None]
    /\ votes = [s \in Servers |-> {}]
    /\ next_idx = [s \in Servers |-> [p \in Servers |-> 1]]
    /\ match_idx = [s \in Servers |-> [p \in Servers |-> 0]]
    /\ log = [s \in Servers |-> <<>>]
    /\ commit_idx = [s \in Servers |-> 0]
    /\ applied = [s \in Servers |-> 0]
    /\ sav = [s \in Servers |-> NoReq]
    /\ accepted = 0 /\ acked = {}
    /\ elections = 0 /\ msgs = {}

-------------------------------------------------------------------------------
(* Helpers of the library.                                                 *)

Peers(s) == Servers \ {s}

(* raft_get_entry_from_idx(idx) != NULL                                    *)
HasEntry(lg, idx) == idx \in 1 .. Len(lg)
TermAt(lg, idx) == IF HasEntry(lg, idx) THEN lg[idx].term ELSE 0
LastTerm(lg) == TermAt(lg, Len(lg))

(* raft_votes_is_majority                                                  *)
IsMajority(n) == n \in (Cardinality(Servers) \div 2 + 1) .. Cardinality(Servers)

(* raft_send_requestvote                                                   *)
RequestVote(s, d, term, lg) ==
    [type |-> "rv", from |-> s, to |-> d, term |-> term,
     last_idx |-> Len(lg), last_term |-> LastTerm(lg)]

VoteResponse(s, d, term, granted) ==
    [type |-> "rvr", from |-> s, to |-> d, term |-> term, granted |-> granted]

(* raft_send_appendentries: everything from next_idx to the end of the log *)
AppendEntries(s, d, term, lg, next, commit) ==
    [type |-> "ae", from |-> s, to |-> d, term |-> term,
     prev_idx |-> IF HasEntry(lg, next - 1) THEN next - 1 ELSE 0,
     prev_term |-> TermAt(lg, next - 1),
     entries |-> SubSeq(lg, next, Len(lg)), commit |-> commit]

AppendResponse(s, d, term, success, idx) ==
    [type |-> "aer", from |-> s, to |-> d, term |-> term, success |-> success, idx |-> idx]

(* Some of the requests ms go out.  The others are the RPCs that fail: the *)
(* session is not connected, or the continuation is called with a failure, *)
(* and nothing happens.                                                    *)
Sent(ms) == \E ok \in SUBSET ms : msgs' = msgs \cup ok
Received(m) == msgs' = msgs \ {m}
Exchanged(m, ms) == \E ok \in SUBSET ms : msgs' = (msgs \ {m}) \cup ok
Replied(m, r) == msgs' = (msgs \ {m}) \cup {r}

(* raft_set_current_term, raft_become_follower, current_leader = NULL      *)
StepDown_KeepLeader(s, term) ==
    /\ current_term' = [current_term EXCEPT ![s] = term]
    /\ voted_for' = [voted_for EXCEPT ![s] = None]
    /\ state' = [state EXCEPT ![s] = "follower"]
    /\ UNCHANGED <<current_leader, votes>>

StepDown(s, term) ==
    /\ current_term' = [current_term EXCEPT ![s] = term]
    /\ voted_for' = [voted_for EXCEPT ![s] = None]
    /\ state' = [state EXCEPT ![s] = "follower"]
    /\ current_leader' = [current_leader EXCEPT ![s] = None]
    /\ UNCHANGED votes

-------------------------------------------------------------------------------
(* raft_periodic, called in every iteration of the server's loop.  Its     *)
(* last step applies what has been committed.                              *)

apply_all(s) == applied' = [applied EXCEPT ![s] = commit_idx[s]]

(* raft_election_start, raft_become_candidate                              *)
BecomeCandidate(s) ==
    /\ current_term' = [current_term EXCEPT ![s] = @ + 1]
    /\ votes' = [votes EXCEPT ![s] = {}]
    /\ voted_for' = [voted_for EXCEPT ![s] = s]
    /\ current_leader' = [current_leader EXCEPT ![s] = None]
    /\ state' = [state EXCEPT ![s] = "candidate"]

PeriodicElection(s) ==
    /\ state[s] # "leader"
    /\ elections < MaxElections /\ Cardinality(msgs) <= MaxMsgs
    /\ BecomeCandidate(s)
    /\ elections' = elections + 1
    /\ Sent({RequestVote(s, d, current_term[s] + 1, log[s]) : d \in Peers(s)})
    /\ apply_all(s)
    /\ UNCHANGED <<peers, log, commit_idx, sav, clientvars>>

(* raft_send_appendentries_all                                             *)
PeriodicLeader(s) ==
    /\ state[s] = "leader" /\ Cardinality(msgs) <= MaxMsgsPeriodic
    /\ Sent({AppendEntries(s, d, current_term[s], log[s], next_idx[s][d], commit_idx[s]) :
                 d \in Peers(s)})
    /\ apply_all(s)
    /\ UNCHANGED <<raft, peers, log, commit_idx, sav, clientvars, elections>>

PeriodicApply(s) ==
    /\ applied[s] < commit_idx[s]
    /\ apply_all(s)
    /\ UNCHANGED <<raft, peers, log, commit_idx, sav, clientvars, elections, msgs>>

-------------------------------------------------------------------------------
(* Elections.                                                              *)

(* __should_grant_vote                                                     *)
ShouldGrantVote_AnyLog(m, term, voted, lg) == m.term >= term /\ voted = None
ShouldGrantVote_Twice(m, term, voted, lg) ==
    /\ m.term >= term
    /\ \/ lg = <<>>
       \/ LastTerm(lg) < m.last_term
       \/ LastTerm(lg) = m.last_term /\ Len(lg) <= m.last_idx

ShouldGrantVote(m, term, voted, lg) ==
    /\ m.term >= term
    /\ voted = None
    /\ \/ lg = <<>>
       \/ LastTerm(lg) < m.last_term
       \/ LastTerm(lg) = m.last_term /\ Len(lg) <= m.last_idx

(* "Reject request if we have a leader"                                    *)
HasLeader(s, m, late) == current_leader[s] \notin {None, m.from} /\ ~late

(* late: election_timeout <= timeout_elapsed                               *)
recv_requestvote(s, m, late) ==
    /\ m.type = "rv" /\ m.to = s
    /\ late => state[s] # "leader"
    /\ \/ /\ HasLeader(s, m, late)
          /\ Replied(m, VoteResponse(s, m.from, current_term[s], FALSE))
          /\ UNCHANGED raft
       \/ /\ ~HasLeader(s, m, late)
          /\ LET newer == current_term[s] < m.term
                 term == Greater(current_term[s], m.term)
                 voted == IF newer THEN None ELSE voted_for[s]
                 grant == ShouldGrantVote(m, term, voted, log[s])
             IN  /\ current_term' = [current_term EXCEPT ![s] = term]
                 /\ voted_for' = [voted_for EXCEPT ![s] = IF grant THEN m.from ELSE voted]
                 /\ state' = IF newer THEN [state EXCEPT ![s] = "follower"] ELSE state
                 /\ current_leader' = IF newer \/ grant
                                      THEN [current_leader EXCEPT ![s] = None] ELSE current_leader
                 /\ Replied(m, VoteResponse(s, m.from, term, grant))
                 /\ UNCHANGED votes
    /\ UNCHANGED <<peers, logs, sav, clientvars, elections>>

(* raft_become_leader                                                      *)
BecomeLeader_PastEnd(s, m) ==
    /\ state' = [state EXCEPT ![s] = "leader"]
    /\ current_leader' = [current_leader EXCEPT ![s] = s]
    /\ next_idx' = [next_idx EXCEPT ![s] =
          [p \in Servers |-> IF p = s THEN @[p] ELSE Len(log[s]) + 2]]
    /\ match_idx' = [match_idx EXCEPT ![s] = [p \in Servers |-> IF p = s THEN @[p] ELSE 0]]
    /\ Exchanged(m, {AppendEntries(s, d, current_term[s], log[s], Len(log[s]) + 2, commit_idx[s]) :
                        d \in Peers(s)})
    /\ UNCHANGED <<current_term, voted_for>>

BecomeLeader(s, m) ==
    /\ state' = [state EXCEPT ![s] = "leader"]
    /\ current_leader' = [current_leader EXCEPT ![s] = s]
    /\ next_idx' = [next_idx EXCEPT ![s] =
          [p \in Servers |-> IF p = s THEN @[p] ELSE Len(log[s]) + 1]]
    /\ match_idx' = [match_idx EXCEPT ![s] = [p \in Servers |-> IF p = s THEN @[p] ELSE 0]]
    /\ Exchanged(m, {AppendEntries(s, d, current_term[s], log[s], Len(log[s]) + 1, commit_idx[s]) :
                        d \in Peers(s)})
    /\ UNCHANGED <<current_term, voted_for>>

VotesForMe(s, granted) ==
    Cardinality(granted) + IF voted_for[s] = s THEN 1 ELSE 0

recv_requestvote_response(s, m) ==
    /\ m.type = "rvr" /\ m.to = s
    /\ \/ /\ \/ state[s] # "candidate"
             \/ m.term < current_term[s]
             \/ m.term = current_term[s] /\ ~m.granted
          /\ Received(m)
          /\ UNCHANGED <<raft, peers>>
       \/ /\ state[s] = "candidate" /\ current_term[s] < m.term
          /\ StepDown(s, m.term)
          /\ Received(m)
          /\ UNCHANGED peers
       \/ /\ state[s] = "candidate" /\ m.term = current_term[s] /\ m.granted
          /\ votes' = [votes EXCEPT ![s] = @ \cup {m.from}]
          /\ IF IsMajority(VotesForMe(s, votes'[s]))
             THEN BecomeLeader(s, m)
             ELSE Received(m) /\ UNCHANGED <<state, current_term, voted_for, current_leader, peers>>
    /\ UNCHANGED <<logs, sav, clientvars, elections>>

-------------------------------------------------------------------------------
(* Log replication.                                                        *)

(* The entry before the new ones has the leader's term, or there is none   *)
(* before them.                                                            *)
PrevMatches(lg, m) == TermAt(lg, m.prev_idx) = m.prev_term

(* The entries of m that contradict lg, and what lg is after everything    *)
(* from the first contradicting or missing one on has been replaced.       *)
Conflicts(lg, m) ==
    {i \in 1 .. Len(m.entries) : /\ HasEntry(lg, m.prev_idx + i)
                                 /\ lg[m.prev_idx + i].term # m.entries[i].term}

Merged_Replace(lg, m) == SubSeq(lg, 1, m.prev_idx) \o m.entries

Merged(lg, m) ==
    LET first == Min(Conflicts(lg, m) \cup {Len(lg) - m.prev_idx + 1})
    IN  IF first > Len(m.entries) THEN lg
        ELSE SubSeq(lg, 1, m.prev_idx + first - 1) \o SubSeq(m.entries, first, Len(m.entries))

(* "Should never happen": the leader contradicts a committed entry.  The   *)
(* rt_assert in appendentries_handler ends the process.                    *)
ConflictsWithCommitted(s, m) ==
    \/ m.prev_idx <= commit_idx[s] /\ ~PrevMatches(log[s], m)
    \/ /\ PrevMatches(log[s], m)
       /\ \E i \in Conflicts(log[s], m) : m.prev_idx + i <= commit_idx[s]

Obey(s, m) ==
    /\ current_term' = [current_term EXCEPT ![s] = m.term]
    /\ voted_for' = IF current_term[s] < m.term THEN [voted_for EXCEPT ![s] = None] ELSE voted_for
    /\ state' = IF current_term[s] < m.term \/ state[s] = "candidate"
                THEN [state EXCEPT ![s] = "follower"] ELSE state
    /\ current_leader' = [current_leader EXCEPT ![s] = m.from]
    /\ UNCHANGED votes

FollowerCommit_Leader(old, lg, m) == m.commit
FollowerCommit(old, lg, m) ==
    IF old < m.commit THEN Lesser(Greater(Len(lg), 1), m.commit) ELSE old

recv_appendentries(s, m) ==
    /\ m.type = "ae" /\ m.to = s
    /\ \/ /\ m.term < current_term[s]
          /\ Replied(m, AppendResponse(s, m.from, current_term[s], FALSE, Len(log[s])))
          /\ UNCHANGED <<raft, log, commit_idx>>
       \/ /\ m.term >= current_term[s]
          /\ Obey(s, m)
          /\ ~ConflictsWithCommitted(s, m)
          /\ \/ /\ m.prev_idx > Len(log[s])
                /\ Replied(m, AppendResponse(s, m.from, m.term, FALSE, Len(log[s])))
                /\ UNCHANGED <<log, commit_idx>>
             \/ /\ m.prev_idx <= Len(log[s]) /\ ~PrevMatches(log[s], m)
                /\ log' = [log EXCEPT ![s] = SubSeq(@, 1, m.prev_idx - 1)]
                /\ Replied(m, AppendResponse(s, m.from, m.term, FALSE, m.prev_idx - 1))
                /\ UNCHANGED commit_idx
             \/ /\ m.prev_idx <= Len(log[s]) /\ PrevMatches(log[s], m)
                /\ log' = [log EXCEPT ![s] = Merged(@, m)]
                /\ commit_idx' = [commit_idx EXCEPT ![s] = FollowerCommit(@, log'[s], m)]
                /\ Replied(m, AppendResponse(s, m.from, m.term, TRUE,
                                                m.prev_idx + Len(m.entries)))
    /\ UNCHANGED <<peers, applied, sav, clientvars, elections>>

(* "Update commit idx": only an entry of the leader's own term counts      *)
LeaderCommit(s, idx) ==
    IF /\ commit_idx[s] < idx /\ log[s][idx].term = current_term[s]
       /\ Cardinality({p \in Peers(s) : idx <= match_idx'[s][p]}) + 1 > Cardinality(Servers) \div 2
    THEN idx ELSE commit_idx[s]

(* the next_idx after a failed AppendEntries; raft_node_set_next_idx keeps *)
(* it positive                                                             *)
Backoff(next, idx, lg) ==
    Greater(1, IF idx < next - 1 THEN Lesser(idx + 1, Len(lg)) ELSE next - 1)

recv_appendentries_response(s, m) ==
    /\ m.type = "aer" /\ m.to = s
    /\ \/ /\ \/ state[s] # "leader"
             \/ m.term < current_term[s]
             \/ m.term = current_term[s] /\ ~m.success /\ m.idx < match_idx[s][m.from]
             \/ m.term = current_term[s] /\ m.success /\ m.idx <= match_idx[s][m.from]
          /\ Received(m)
          /\ UNCHANGED <<raft, peers, commit_idx>>
       \/ /\ state[s] = "leader" /\ current_term[s] < m.term
          /\ StepDown(s, m.term)
          /\ Received(m)
          /\ UNCHANGED <<peers, commit_idx>>
       \/ /\ state[s] = "leader" /\ m.term = current_term[s]
          /\ ~m.success /\ m.idx >= match_idx[s][m.from]
          /\ LET next == Backoff(next_idx[s][m.from], m.idx, log[s])
             IN  /\ next_idx' = [next_idx EXCEPT ![s][m.from] = next]
                 /\ Exchanged(m, {AppendEntries(s, m.from, current_term[s], log[s], next,
                                                commit_idx[s])})
          /\ UNCHANGED <<raft, match_idx, commit_idx>>
       \/ /\ state[s] = "leader" /\ m.term = current_term[s]
          /\ m.success /\ m.idx > match_idx[s][m.from]
          /\ next_idx' = [next_idx EXCEPT ![s][m.from] = m.idx + 1]
          /\ match_idx' = [match_idx EXCEPT ![s][m.from] = m.idx]
          /\ commit_idx' = [commit_idx EXCEPT ![s] = LeaderCommit(s, m.idx)]
          /\ Exchanged(m, IF HasEntry(log[s], m.idx + 1)
                          THEN {AppendEntries(s, m.from, current_term[s], log[s], m.idx + 1,
                                              commit_idx'[s])}
                          ELSE {})
          /\ UNCHANGED raft
    /\ UNCHANGED <<log, applied, sav, clientvars, elections>>

-------------------------------------------------------------------------------
(* Clients.  A client has one request, to the server it takes for the      *)
(* leader; an answer of failure makes it send again, to that server, the   *)
(* one it is told of, or any: the model leaves open which.  There are as   *)
(* many clients as requests.                                               *)

(* raft_recv_entry: append, and send to the peers that are up to date      *)
recv_entry(s, req) ==
    LET lg == Append(log[s], [term |-> current_term[s], req |-> req])
    IN  /\ log' = [log EXCEPT ![s] = lg]
        /\ Sent({AppendEntries(s, d, current_term[s], lg, next_idx[s][d], commit_idx[s]) :
                    d \in {p \in Peers(s) : next_idx[s][p] = Len(lg)}})

client_req_handler(s) ==
    /\ \/ /\ current_leader[s] # s      \* kFailTryAgain, kFailRedirect
          /\ UNCHANGED vars
       \/ /\ current_leader[s] = s /\ state[s] = "leader"
          /\ accepted < MaxReqs /\ Cardinality(msgs) <= MaxMsgs
          /\ recv_entry(s, accepted + 1)
          /\ sav' = [sav EXCEPT ![s] = [req |-> accepted + 1,
                                        idx |-> Len(log'[s]), term |-> current_term[s]]]
          /\ accepted' = accepted + 1
          /\ UNCHANGED <<raft, peers, commit_idx, applied, acked, elections>>

(* raft_msg_entry_response_committed(...) == 1                             *)
Committed_AnyTerm(s) == HasEntry(log[s], sav[s].idx) /\ sav[s].idx <= commit_idx[s]

Committed(s) ==
    /\ HasEntry(log[s], sav[s].idx)
    /\ log[s][sav[s].idx].term = sav[s].term
    /\ sav[s].idx <= commit_idx[s]

(* the end of the server's loop                                            *)
AnswerClient(s) ==
    /\ sav[s] # NoReq /\ Committed(s)
    /\ apply_all(s)
    /\ sav' = [sav EXCEPT ![s] = NoReq]
    /\ acked' = acked \cup {sav[s].req}
    /\ UNCHANGED <<raft, peers, log, commit_idx, accepted, elections, msgs>>

-------------------------------------------------------------------------------
Receive(m) ==
    \/ \E late \in BOOLEAN : recv_requestvote(m.to, m, late)
    \/ recv_requestvote_response(m.to, m)
    \/ recv_appendentries(m.to, m)
    \/ recv_appendentries_response(m.to, m)

Next ==
    \/ \E s \in Servers :
          \/ PeriodicElection(s)
          \/ PeriodicLeader(s)
          \/ PeriodicApply(s)
          \/ AnswerClient(s)
          \/ client_req_handler(s)
    \/ \E m \in msgs : Receive(m)

Spec == Init /\ [][Next]_vars

-------------------------------------------------------------------------------
(* What the servers have in common: the requests of a server's first n     *)
(* entries, and the server with the largest commit_idx.                    *)

Reqs(s, n) == [i \in 1 .. n |-> log[s][i].req]

Furthest == CHOOSE s \in Servers : \A t \in Servers : commit_idx[t] <= commit_idx[s]

-------------------------------------------------------------------------------
(* At most one server leads a term, whatever the timeouts and the order in *)
(* which votes arrive (raft_recv_requestvote, raft_become_leader).         *)
ElectionSafety ==
    \A s, t \in Servers :
        state[s] = "leader" /\ state[t] = "leader" /\ current_term[s] = current_term[t] => s = t

(* A leader has every entry that any server of an older or equal term has  *)
(* committed (__should_grant_vote and the term test in                     *)
(* raft_recv_appendentries_response).                                      *)
LeaderCompleteness ==
    \A s, t \in Servers :
        state[s] = "leader" /\ current_term[t] <= current_term[s] =>
            /\ commit_idx[t] <= Len(log[s])
            /\ SubSeq(log[t], 1, commit_idx[t]) = SubSeq(log[s], 1, commit_idx[t])

(* No server ends in a failed rt_assert: no AppendEntries under way makes  *)
(* raft_recv_appendentries return the RAFT_ERR_SHUTDOWN that "should never *)
(* happen", and raft_recv_entry never refuses an entry that                *)
(* client_req_handler hands it because the server calls itself the leader. *)
NoShutdown ==
    /\ \A m \in msgs :
          m.type = "ae" /\ m.term >= current_term[m.to] => ~ConflictsWithCommitted(m.to, m)
    /\ \A s \in Servers : current_leader[s] = s <=> state[s] = "leader"

(* What a leader believes of a peer's log is true as long as it leads in   *)
(* the peer's eyes: match_idx entries of it are the leader's.  Commitment  *)
(* counts these beliefs.                                                   *)
MatchIsReplicated ==
    \A s \in Servers : \A p \in Peers(s) :
        state[s] = "leader" /\ current_term[p] = current_term[s] =>
            /\ match_idx[s][p] <= Len(log[p])
            /\ SubSeq(log[p], 1, match_idx[s][p]) = SubSeq(log[s], 1, match_idx[s][p])
===============================================================================
