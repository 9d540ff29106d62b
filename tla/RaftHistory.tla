----------------------------- MODULE RaftHistory ------------------------------
(***************************************************************************)
(* Why Raft is safe, as an inductive invariant.  The servers forget: a     *)
(* vote when the term grows, a leader's log when it steps down, what a     *)
(* follower acknowledged in an earlier term.  The argument needs all of    *)
(* it, so the invariant says that there is a history h that explains the   *)
(* state:                                                                  *)
(*   h.vote[p][T]   whom p voted for in term T                             *)
(*   h.lead[T]      the leader elected in term T                           *)
(*   h.llog[T]      that leader's log, as long as it led                   *)
(*   h.acc[p][T]    how many entries of h.llog[T] server p has stored at   *)
(*                  the request of that leader                             *)
(* No step changes what the history already says.                          *)
(***************************************************************************)
EXTENDS Raft

Hist == [vote : [Servers -> [Nat -> Servers \cup {None}]],
         lead : [Nat -> Servers \cup {None}],
         llog : [Nat -> Seq(Entry)],
         acc  : [Servers -> [Nat -> Nat]]]

Quorums == {Q \in SUBSET Servers : 2 * Cardinality(Q) > Cardinality(Servers)}

Elected(h, T) == h.lead[T] # None

(* a and b have the same first n entries.                                  *)
Agree(a, b, n) == n <= Len(a) /\ n <= Len(b) /\ \A j \in 1 .. n : a[j] = b[j]

(* Each entry was made by the leader of its term, whose log was the same   *)
(* up to that entry.                                                       *)
Follows(h, lg) ==
    \A i \in 1 .. Len(lg) : Elected(h, lg[i].term) /\ Agree(lg, h.llog[lg[i].term], i)

-------------------------------------------------------------------------------
(* Types, also of the messages.                                            *)

Message(m) ==
    /\ m.from \in Servers /\ m.to \in Peers(m.from) /\ m.term \in 0 .. elections
    /\ m.type \in {"rv", "rvr", "ae", "aer"}
    /\ m.type = "rv" => m.last_idx \in Nat /\ m.last_term \in Nat
    /\ m.type = "rvr" => m.granted \in BOOLEAN
    /\ m.type = "ae" => /\ m.prev_idx \in Nat /\ m.prev_term \in Nat /\ m.commit \in Nat
                        /\ m.entries \in Seq(Entry)
    /\ m.type = "aer" => m.success \in BOOLEAN /\ m.idx \in Nat

TypeInv ==
    /\ state \in [Servers -> {"follower", "candidate", "leader"}]
    /\ current_term \in [Servers -> Nat]
    /\ voted_for \in [Servers -> Servers \cup {None}]
    /\ current_leader \in [Servers -> Servers \cup {None}]
    /\ votes \in [Servers -> SUBSET Servers]
    /\ next_idx \in [Servers -> [Servers -> Nat \ {0}]]
    /\ match_idx \in [Servers -> [Servers -> Nat]]
    /\ log \in [Servers -> Seq(Entry)]
    /\ commit_idx \in [Servers -> Nat]
    /\ applied \in [Servers -> Nat]
    /\ sav \in [Servers -> [req : Nat, idx : Nat, term : Nat]]
    /\ accepted \in Nat /\ elections \in Nat
    /\ \A m \in msgs : Message(m)
    /\ \A s \in Servers : current_term[s] <= elections

-------------------------------------------------------------------------------
(* Elections: a server votes once in a term, a leader has a majority.      *)

VoteMsg(h, m) ==
    m.type = "rvr" /\ m.granted => h.vote[m.from][m.term] = m.to

ElectInv(h) ==
    /\ \A p \in Servers : voted_for[p] = h.vote[p][current_term[p]]
    /\ \A p \in Servers, T \in Nat : h.vote[p][T] # None =>
          T <= current_term[p] /\ T <= current_term[h.vote[p][T]]
    /\ \A s \in Servers : state[s] # "follower" =>
          /\ voted_for[s] = s /\ s \notin votes[s]
          /\ \A p \in votes[s] : h.vote[p][current_term[s]] = s
    /\ \A m \in msgs : VoteMsg(h, m)
    /\ \A T \in Nat : Elected(h, T) =>
          /\ T <= current_term[h.lead[T]]
          /\ \E Q \in Quorums : \A p \in Q : h.vote[p][T] = h.lead[T]
    /\ \A s \in Servers : state[s] = "leader" <=> h.lead[current_term[s]] = s
    /\ \A s \in Servers : state[s] = "leader" <=> current_leader[s] = s

-------------------------------------------------------------------------------
(* Logs: two logs with an entry of the same index and term are the same up *)
(* to there.                                                               *)

AppendMsg(h, m) ==
    m.type = "ae" =>
        /\ h.lead[m.term] = m.from
        /\ m.prev_idx + Len(m.entries) <= Len(h.llog[m.term])
        /\ m.prev_term = TermAt(h.llog[m.term], m.prev_idx)
        /\ \A i \in 1 .. Len(m.entries) : m.entries[i] = h.llog[m.term][m.prev_idx + i]

(* A request for votes tells of the log of the candidate.                  *)
RequestMsg(m) ==
    m.type = "rv" =>
        /\ m.term <= current_term[m.from]
        /\ m.term = current_term[m.from] /\ state[m.from] = "candidate" =>
              m.last_idx = Len(log[m.from]) /\ m.last_term = LastTerm(log[m.from])

LeaderLog(h, T) ==
    /\ Follows(h, h.llog[T])
    /\ \A i \in 1 .. Len(h.llog[T]) : h.llog[T][i].term <= T
    /\ \A i, j \in 1 .. Len(h.llog[T]) : i <= j => h.llog[T][i].term <= h.llog[T][j].term

LogInv(h) ==
    /\ \A T \in Nat : IF Elected(h, T) THEN LeaderLog(h, T) ELSE h.llog[T] = <<>>
    /\ \A s \in Servers : Follows(h, log[s])
    /\ \A s \in Servers : state[s] = "leader" =>
          /\ log[s] = h.llog[current_term[s]]
          /\ \A p \in Peers(s) : next_idx[s][p] <= Len(log[s]) + 1
    /\ \A s \in Servers : \A i \in 1 .. Len(log[s]) :
          /\ log[s][i].term <= current_term[s]
          /\ state[s] = "candidate" => log[s][i].term < current_term[s]
    /\ \A m \in msgs : AppendMsg(h, m) /\ RequestMsg(m)

-------------------------------------------------------------------------------
(* Acknowledgements.                                                       *)

AckMsg(h, m) == m.type = "aer" /\ m.success => m.idx <= h.acc[m.from][m.term]

AckInv(h) ==
    /\ \A p \in Servers, T \in Nat :
          /\ h.acc[p][T] > 0 => Elected(h, T) /\ T <= current_term[p]
          /\ h.acc[p][T] <= Len(h.llog[T])
    /\ \A p \in Servers :
          Agree(log[p], h.llog[current_term[p]], h.acc[p][current_term[p]])
    /\ \A s \in Servers : state[s] = "leader" =>
          /\ \A p \in Peers(s) : match_idx[s][p] <= h.acc[p][current_term[s]]
          /\ \A i \in 1 .. Len(log[s]) : log[s][i].term = current_term[s] =>
                i <= h.acc[s][current_term[s]]
    /\ \A m \in msgs : AckMsg(h, m)

-------------------------------------------------------------------------------
(* Commitment.  Entry i, which the leader of term T made, is blocked once  *)
(* a majority has left that term without it.  Until then every later       *)
(* leader has it, every server that acknowledged it still has it, and so   *)
(* does every candidate that such a server has voted for.                  *)

Own(h, T, i) == i \in 1 .. Len(h.llog[T]) /\ h.llog[T][i].term = T

Blocked(h, T, i) ==
    \E Q \in Quorums : \A p \in Q : current_term[p] > T /\ h.acc[p][T] < i

Kept(h, T, i) ==
    /\ \A U \in Nat : T < U /\ Elected(h, U) => Agree(h.llog[U], h.llog[T], i)
    /\ \A p \in Servers : i <= h.acc[p][T] => Agree(log[p], h.llog[T], i)
    /\ \A s, p \in Servers :
          /\ state[s] = "candidate" /\ T < current_term[s]
          /\ h.vote[p][current_term[s]] = s /\ i <= h.acc[p][T]
          => Agree(log[s], h.llog[T], i)

KeepInv(h) == \A T, i \in Nat : Own(h, T, i) => Blocked(h, T, i) \/ Kept(h, T, i)

(* The leader of T, in that term, knew that a majority had stored entry i. *)
Chosen(h, T, i) ==
    Own(h, T, i) /\ \E Q \in Quorums : \A p \in Q : i <= h.acc[p][T]

(* The first c entries of lg were chosen in term T or before.              *)
ChosenPrefix(h, lg, c, T) ==
    c = 0 \/ \E U, i \in Nat : U <= T /\ c <= i /\ Chosen(h, U, i) /\ Agree(lg, h.llog[U], c)

CommitMsg(h, m) ==
    m.type = "ae" =>
        m.commit <= m.prev_idx + Len(m.entries) /\ ChosenPrefix(h, h.llog[m.term], m.commit, m.term)

CommitInv(h) ==
    /\ \A s \in Servers : ChosenPrefix(h, log[s], commit_idx[s], current_term[s])
    /\ \A s \in Servers : applied[s] <= commit_idx[s]
    /\ \A m \in msgs : CommitMsg(h, m)

-------------------------------------------------------------------------------
(* Requests: each is in a leader's log at most once, and the one a client  *)
(* waits for is where the server has noted it.                             *)

RequestInv(h) ==
    /\ \A T \in Nat : Len(h.llog[T]) <= accepted
    /\ \A T \in Nat : \A i \in 1 .. Len(h.llog[T]) : h.llog[T][i].req \in 1 .. accepted
    /\ \A T \in Nat : \A i, j \in 1 .. Len(h.llog[T]) :
          h.llog[T][i].req = h.llog[T][j].req => i = j
    /\ \A s \in Servers : sav[s] # NoReq =>
          /\ sav[s].idx \in 1 .. Len(h.llog[sav[s].term])
          /\ h.llog[sav[s].term][sav[s].idx].req = sav[s].req

Explains(h) ==
    /\ h \in Hist
    /\ ElectInv(h) /\ LogInv(h) /\ AckInv(h) /\ KeepInv(h) /\ CommitInv(h) /\ RequestInv(h)

IInv == TypeInv /\ \E h \in Hist : Explains(h)

(* Sizes: the indices are bounded by the requests accepted.                *)
SizeInv ==
    /\ accepted <= MaxReqs
    /\ \A s, p \in Servers : next_idx[s][p] <= accepted + 1 /\ match_idx[s][p] <= accepted
    /\ acked \subseteq 1 .. accepted
    /\ IsFiniteSet(msgs)
===============================================================================
